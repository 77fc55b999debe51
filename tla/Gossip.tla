------------------------------- MODULE Gossip -------------------------------
(***************************************************************************)
(* The topics of one node (internal/p2p/gossip.go): who joins and          *)
(* subscribes to them, the read loop started with each subscription, and   *)
(* the context that ends it.                                               *)
(*                                                                         *)
(* Callers are the node itself, which subscribes to the configured topics  *)
(* when it starts, and the publications, which subscribe to the topics of  *)
(* their envelope and then publish on each.  ensureTopic runs under g.mu   *)
(* and is one step; the loops over topics are not.  GossipSub (external)   *)
(* hands each message at most once to a subscription, and drops it when    *)
(* the subscription's buffer is full.                                      *)
(***************************************************************************)
EXTENDS Sequences, FiniteSets, Naturals

CONSTANTS Topics,
          Configured,    \* the topics the node subscribes to when it starts
          Node,          \* the caller that stands for NewNode
          Publications,  \* the callers of PublishTask and PublishFact
          Envelopes,     \* messages of other nodes that decode
          Garbage,       \* messages of other nodes that do not
          Buffer         \* bound: the messages a subscription holds

ASSUME GossipAssumption ==
  /\ Configured \subseteq Topics
  /\ Node \notin Publications
  /\ Publications \cap (Envelopes \cup Garbage) = {}
  /\ Envelopes \cap Garbage = {}
  /\ Buffer \in Nat

VARIABLES pc,         \* what each caller is doing
          todo,       \* the topics it has still to go through
          want,       \* the topics of its envelope
          joined,     \* g.topics
          subscribed, \* g.subs; never shrinks
          readers,    \* the read loops that run: a topic and the caller whose context they got
          inbox,      \* the buffer of each subscription
          seen,       \* what GossipSub has handed to each subscription
          handled,    \* what the read loops have passed to handleEnvelope
          cancelled,  \* the node's context is done
          closed,     \* Gossip.Close has run
          shut        \* the topics it closed, whose subscriptions it cancelled

callVars == <<pc, todo, want>>
topicVars == <<joined, subscribed, readers>>
inboxVars == <<inbox, seen, handled>>
endVars == <<cancelled, closed, shut>>
vars == <<callVars, topicVars, inboxVars, endVars>>

Callers == {Node} \cup Publications

\* The topics of an envelope: at least one, none twice (uniqueStrings).
TopicSets == (SUBSET Topics) \ {{}}

\* A publication's own message carries its name.
Messages == Publications \cup Envelopes \cup Garbage

ContextNeverDone(caller) == FALSE

\* The context a read loop got ends with its caller's: the node's when it is
\* cancelled, a request's when the HTTP handler returns.
ContextDone(caller) == IF caller = Node THEN cancelled ELSE pc[caller] \in {"done", "failed"}

Init ==
  /\ pc = [c \in Callers |-> IF c = Node THEN "subscribe" ELSE "idle"]
  /\ todo = [c \in Callers |-> IF c = Node THEN Configured ELSE {}]
  /\ want = [c \in Callers |-> IF c = Node THEN Configured ELSE {}]
  /\ joined = {}
  /\ subscribed = {}
  /\ readers = {}
  /\ inbox = [t \in Topics |-> <<>>]
  /\ seen = {}
  /\ handled = {}
  /\ cancelled = FALSE
  /\ closed = FALSE
  /\ shut = {}

----------------------------------------------------------------------------
\* The HTTP API serves once NewNode has returned.
Publish(p, topics) ==
  /\ pc[Node] = "done"
  /\ ~ closed
  /\ pc[p] = "idle"
  /\ pc' = [pc EXCEPT ![p] = "subscribe"]
  /\ todo' = [todo EXCEPT ![p] = topics]
  /\ want' = [want EXCEPT ![p] = topics]
  /\ UNCHANGED <<topicVars, inboxVars, endVars>>

\* What GossipSub can still do with a topic.
Usable(t) == ~ cancelled /\ t \notin shut

StartsAnotherReader(t, caller) == readers' = readers \cup {[topic |-> t, ctx |-> caller]}

\* g.subs decides: a topic with a subscription gets no second read loop.
StartsReader(t, caller) ==
  readers' = IF t \in subscribed THEN readers ELSE readers \cup {[topic |-> t, ctx |-> caller]}

\* ensureTopic(ctx, t, true)
Subscribe(c, t) ==
  /\ pc[c] = "subscribe"
  /\ t \in todo[c]
  /\ t \in subscribed \/ Usable(t)
  /\ joined' = joined \cup {t}
  /\ StartsReader(t, c)
  /\ subscribed' = subscribed \cup {t}
  /\ todo' = [todo EXCEPT ![c] = @ \ {t}]
  /\ UNCHANGED <<pc, want, inboxVars, endVars>>

\* Join or Subscribe returns an error; in between, a signal may leave the topic
\* joined.  NewNode cancels the node's context when it fails here.
SubscribeFails(c, t) ==
  /\ pc[c] = "subscribe"
  /\ t \in todo[c] \ subscribed
  /\ ~ Usable(t)
  /\ joined' \in {joined, joined \cup {t}}
  /\ pc' = [pc EXCEPT ![c] = "failed"]
  /\ cancelled' = (cancelled \/ c = Node)
  /\ UNCHANGED <<todo, want, subscribed, readers, inboxVars, closed, shut>>

SubscribedAll(c) ==
  /\ pc[c] = "subscribe"
  /\ todo[c] = {}
  /\ pc' = [pc EXCEPT ![c] = IF c = Node THEN "done" ELSE "publish"]
  /\ todo' = [todo EXCEPT ![c] = IF c = Node THEN {} ELSE want[c]]
  /\ UNCHANGED <<want, topicVars, inboxVars, endVars>>

\* A message reaches the subscription of t, or is dropped there.
Receives(t, message) ==
  /\ seen' = seen \cup {<<t, message>>}
  /\ inbox' = IF Len(inbox[t]) < Buffer THEN [inbox EXCEPT ![t] = Append(@, message)] ELSE inbox
  /\ UNCHANGED handled

\* PublishSAE on the next topic of the envelope.  ensureTopic(ctx, t, false) has
\* nothing to do: SubscribeTopics joined it.  The node's own subscription gets
\* the message too.  When GossipSub is stopping, the message may get no further
\* than its queue.
PublishOn(p, t) ==
  /\ pc[p] = "publish"
  /\ t \in todo[p]
  /\ t \notin shut
  /\ IF cancelled THEN UNCHANGED inboxVars ELSE Receives(t, p)
  /\ todo' = [todo EXCEPT ![p] = @ \ {t}]
  /\ UNCHANGED <<pc, want, topicVars, endVars>>

\* The first topic that fails ends the publication; those before it have it.
PublishFails(p, t) ==
  /\ pc[p] = "publish"
  /\ t \in todo[p]
  /\ ~ Usable(t)
  /\ pc' = [pc EXCEPT ![p] = "failed"]
  /\ UNCHANGED <<todo, want, topicVars, inboxVars, endVars>>

PublishedAll(p) ==
  /\ pc[p] = "publish"
  /\ todo[p] = {}
  /\ pc' = [pc EXCEPT ![p] = "done"]
  /\ UNCHANGED <<todo, want, topicVars, inboxVars, endVars>>

----------------------------------------------------------------------------
Deliver(t, message) ==
  /\ t \in subscribed
  /\ Usable(t)
  /\ <<t, message>> \notin seen
  /\ Receives(t, message)
  /\ UNCHANGED <<callVars, topicVars, endVars>>

EndsOnGarbage(reader, message) ==
  /\ handled' = IF message \in Envelopes THEN handled \cup {<<reader.topic, message>>} ELSE handled
  /\ readers' = IF message \in Garbage THEN readers \ {reader} ELSE readers

\* The loop passes over the node's own messages and those that do not decode.
Handles(reader, message) ==
  /\ handled' = IF message \in Envelopes THEN handled \cup {<<reader.topic, message>>} ELSE handled
  /\ UNCHANGED readers

Read(reader) ==
  /\ reader \in readers
  /\ inbox[reader.topic] # <<>>
  /\ Handles(reader, Head(inbox[reader.topic]))
  /\ inbox' = [inbox EXCEPT ![reader.topic] = Tail(@)]
  /\ UNCHANGED <<callVars, joined, subscribed, seen, endVars>>

\* sub.Next(ctx) fails.  The entry of g.subs stays, and so does the subscription
\* unless Close cancelled it.
ReaderEnds(reader) ==
  /\ reader \in readers
  /\ ContextDone(reader.ctx) \/ reader.topic \in shut
  /\ readers' = readers \ {reader}
  /\ UNCHANGED <<callVars, joined, subscribed, inboxVars, endVars>>

\* A signal cancels the context the node was given; Node.Close calls
\* Gossip.Close first and cancels then.
Cancel ==
  /\ ~ cancelled
  /\ cancelled' = TRUE
  /\ UNCHANGED <<callVars, topicVars, inboxVars, closed, shut>>

\* Gossip.Close keeps g.topics and g.subs as they are.
Close ==
  /\ pc[Node] = "done"
  /\ ~ closed
  /\ closed' = TRUE
  /\ shut' = joined
  /\ UNCHANGED <<callVars, topicVars, inboxVars, cancelled>>

CallerStep(c) ==
  \/ \E t \in Topics : Subscribe(c, t) \/ SubscribeFails(c, t) \/ PublishOn(c, t) \/ PublishFails(c, t)
  \/ SubscribedAll(c)
  \/ PublishedAll(c)

ReaderStep(reader) == Read(reader) \/ ReaderEnds(reader)

\* Nothing is left to do: the program is on its way out.
Finished ==
  /\ cancelled
  /\ readers = {}
  /\ \A c \in Callers : pc[c] \in {"idle", "done", "failed"}
  /\ UNCHANGED vars

Next ==
  \/ \E p \in Publications, topics \in TopicSets : Publish(p, topics)
  \/ \E c \in Callers : CallerStep(c)
  \/ \E t \in Topics, message \in Envelopes \cup Garbage : Deliver(t, message)
  \/ \E reader \in [topic: Topics, ctx: Callers] : ReaderStep(reader)
  \/ Cancel
  \/ Close
  \/ Finished

Spec == Init /\ [][Next]_vars

(***************************************************************************)
(* Goroutines run; Node.Close cancels after it closed the gossip.  Nothing *)
(* makes a publication, a message or the end of the node happen.           *)
(***************************************************************************)
Fairness ==
  /\ \A c \in Callers : WF_vars(CallerStep(c))
  /\ \A reader \in [topic: Topics, ctx: Callers] :
       WF_vars(Read(reader)) /\ WF_vars(ReaderEnds(reader))
  /\ WF_vars(closed /\ Cancel)

FairSpec == Spec /\ Fairness

----------------------------------------------------------------------------
GossipTypeOK ==
  /\ pc \in [Callers -> {"idle", "subscribe", "publish", "done", "failed"}]
  /\ pc[Node] \in {"subscribe", "done", "failed"}
  /\ todo \in [Callers -> SUBSET Topics]
  /\ want \in [Callers -> SUBSET Topics]
  /\ joined \subseteq Topics
  /\ subscribed \subseteq joined
  /\ readers \subseteq [topic: Topics, ctx: Callers]
  /\ inbox \in [Topics -> Seq(Messages)]
  /\ \A t \in Topics : Len(inbox[t]) <= Buffer
  /\ seen \subseteq Topics \X Messages
  /\ handled \subseteq Topics \X Envelopes
  /\ cancelled \in BOOLEAN /\ closed \in BOOLEAN
  /\ shut \subseteq joined

\* However many publications subscribe to a topic at a time, one loop at most
\* reads it, so that the envelopes of a topic are handled in the order in which
\* they came (ensureTopic looks g.subs up and fills it under g.mu).
OneReaderPerTopic ==
  \A q, r \in readers : q.topic = r.topic => q = r

\* Every envelope handed to a configured topic is passed to the handler while
\* the node runs, whatever else comes in on it: own messages, messages that do
\* not decode, publications that subscribe to it again (readLoop).
ConfiguredIsHandled ==
  \A t \in Configured, m \in Envelopes :
     (\E i \in DOMAIN inbox[t] : inbox[t][i] = m) ~> (<<t, m>> \in handled \/ cancelled \/ closed)

\* No read loop outlives the node, not even one that a publication in flight
\* starts between Gossip.Close and the cancellation (readLoop, Close).
ReadersEnd == closed ~> [](readers = {})

\* README.md: "GossipSub broadcast over topic subnetworks", and the operator
\* manual: "one task published on one worker appears on another worker".  On a
\* topic that was first subscribed to by a publication it does not: the loop
\* ends with the HTTP request, and the entry in g.subs keeps every later caller
\* from starting another.
SubscribedIsHandled ==
  \A t \in Topics, m \in Envelopes :
     (\E i \in DOMAIN inbox[t] : inbox[t][i] = m) ~> (<<t, m>> \in handled \/ cancelled \/ closed)
=============================================================================
