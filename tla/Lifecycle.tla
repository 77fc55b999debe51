----------------------------- MODULE Lifecycle -----------------------------
(***************************************************************************)
(* One process from its start to its exit, around the topics of module     *)
(* Gossip: the steps of NewNode in their order (internal/p2p/node.go) and  *)
(* the callbacks that may run before it returns, the HTTP API with the     *)
(* publications and fetches it serves (cmd/agent.go, rpc_fetch.go), and    *)
(* what a signal sets going (run and shutdownServer of cmd/p2p.go,         *)
(* Node.Close).                                                            *)
(*                                                                         *)
(* The main goroutine goes through phases.  A signal ends the node's       *)
(* context at once; the API is then shut down by two goroutines at a time, *)
(* each of which waits for the requests under way for five seconds at      *)
(* most, and Node.Close runs when the main one is through.                 *)
(***************************************************************************)
EXTENDS Gossip

CONSTANT Fetches  \* the requests for a detail

ASSUME LifecycleAssumption == Fetches \cap Publications = {}

VARIABLES main,      \* the phase the main goroutine is in
          built,     \* the parts of the node that its fields refer to
          open,      \* the callbacks that other goroutines may start
          fetch,     \* what each fetch is doing
          signalled,
          watcher,   \* the goroutine of startAgentAPI that waits for the signal
          elapsed    \* the goroutines whose five seconds are over

nodeVars == <<main, built, open>>
apiVars == <<fetch, watcher, elapsed>>
allVars == <<vars, nodeVars, apiVars, signalled>>

----------------------------------------------------------------------------
(***************************************************************************)
(* NewNode and startAgentAPI.                                              *)
(***************************************************************************)
BootPhases == {"store", "host", "handlers", "mdns", "rendezvous", "gossip", "subscribe", "assign", "event", "api"}

Phases == BootPhases \cup {"serve", "shutdown", "close_gossip", "close_discovery", "close_host", "exited"}

After == [store |-> "host", host |-> "handlers", handlers |-> "mdns", mdns |-> "rendezvous",
          rendezvous |-> "gossip", gossip |-> "subscribe", subscribe |-> "assign",
          assign |-> "event", event |-> "api", api |-> "serve"]

\* What there is when a phase is over.  The node's own gossip and discovery are
\* assigned after their goroutines and callbacks have started.
Builds(phase) ==
  CASE phase = "store"  -> {"store"}
    [] phase = "host"   -> {"host", "identity"}
    [] phase = "assign" -> {"gossip", "discovery"}
    [] OTHER            -> {}

ServesBeforeAssigned(phase) ==
  CASE phase = "handlers"   -> {"connected", "fetch", "negotiate"}
    [] phase = "mdns"       -> {"found"}
    [] phase = "subscribe"  -> {"envelope"}
    [] phase = "assign"     -> {"request"}
    [] phase = "event"      -> {"sweep"}
    [] OTHER                -> {}

\* The callbacks that may come as soon as a phase is under way.
Opens(phase) ==
  CASE phase = "handlers"   -> {"connected", "fetch", "negotiate"}
    [] phase = "mdns"       -> {"found"}
    [] phase = "subscribe"  -> {"envelope"}
    [] phase = "event"      -> {"sweep"}
    [] phase = "serve"      -> {"request"}
    [] OTHER                -> {}

\* What the callbacks refer to: handleFetch, handleNegotiate, handleEnvelope,
\* onPeerDiscovered, the notices of registerConnectionTracing, the sweep, and
\* the HTTP handlers.
Uses(callback) ==
  CASE callback = "found"   -> {"store", "host", "identity"}
    [] callback = "request" -> {"store", "host", "identity", "gossip"}
    [] callback \in {"envelope", "negotiate"} -> {"store", "identity"}
    [] OTHER                -> {"store"}

Callbacks == {"connected", "fetch", "negotiate", "found", "envelope", "sweep", "request"}

LifecycleInit ==
  /\ Init
  /\ main = "store"
  /\ built = {}
  /\ open = {}
  /\ fetch = [f \in Fetches |-> "idle"]
  /\ signalled = FALSE
  /\ watcher = "none"
  /\ elapsed = {}

Advance ==
  /\ main' = After[main]
  /\ built' = built \cup Builds(main)
  /\ open' = open \cup Opens(After[main])

\* Subscribing is the part of module Gossip.
BootStep ==
  /\ main \in BootPhases \ {"subscribe", "api"}
  /\ Advance
  /\ UNCHANGED <<vars, apiVars, signalled>>

SubscribeTopics ==
  /\ main = "subscribe"
  /\ \/ CallerStep(Node) /\ UNCHANGED nodeVars
     \/ pc[Node] = "done" /\ Advance /\ UNCHANGED vars
  /\ UNCHANGED <<apiVars, signalled>>

\* An error ends the process, with whatever NewNode left open.
BootFails ==
  /\ main \in BootPhases \ {"api"}
  /\ main = "subscribe" => pc[Node] = "failed"
  /\ main' = "exited"
  /\ UNCHANGED <<vars, built, open, apiVars, signalled>>

StartAgentAPI ==
  /\ main = "api"
  /\ Advance
  /\ watcher' = "waiting"
  /\ UNCHANGED <<vars, fetch, elapsed, signalled>>

----------------------------------------------------------------------------
(***************************************************************************)
(* Requests.                                                               *)
(***************************************************************************)
\* server.Shutdown, called by either goroutine, closes the listener first.
Serving == main = "serve" /\ watcher = "waiting"

FetchBegins(f) ==
  /\ Serving
  /\ fetch[f] = "idle"
  /\ fetch' = [fetch EXCEPT ![f] = "waiting"]
  /\ UNCHANGED <<vars, nodeVars, watcher, elapsed, signalled>>

\* The peer answers, the stream breaks, or the client goes away.  FetchDetail has
\* no deadline: none of these need ever happen.
FetchEnds(f) ==
  /\ fetch[f] = "waiting"
  /\ fetch' = [fetch EXCEPT ![f] = "done"]
  /\ UNCHANGED <<vars, nodeVars, watcher, elapsed, signalled>>

InFlight ==
  {p \in Publications : pc[p] \in {"subscribe", "publish"}} \cup {f \in Fetches : fetch[f] = "waiting"}

GossipStep ==
  /\ \/ Serving /\ \E p \in Publications, topics \in TopicSets : Publish(p, topics)
     \/ \E p \in Publications : CallerStep(p)
     \/ \E t \in Topics, message \in Envelopes \cup Garbage : Deliver(t, message)
     \/ \E reader \in [topic: Topics, ctx: Callers] : ReaderStep(reader)
  /\ UNCHANGED <<nodeVars, apiVars, signalled>>

----------------------------------------------------------------------------
(***************************************************************************)
(* The end.                                                                *)
(***************************************************************************)
\* The first signal cancels the context of run, and with it the node's.
Signal ==
  /\ ~ signalled
  /\ signalled' = TRUE
  /\ cancelled' = TRUE
  /\ UNCHANGED <<callVars, topicVars, inboxVars, closed, shut, nodeVars, apiVars>>

WatcherWakes ==
  /\ watcher = "waiting"
  /\ signalled
  /\ watcher' = "shutdown"
  /\ UNCHANGED <<vars, nodeVars, fetch, elapsed, signalled>>

MainWakes ==
  /\ main = "serve"
  /\ signalled
  /\ main' = "shutdown"
  /\ UNCHANGED <<vars, built, open, apiVars, signalled>>

FiveSeconds(who) ==
  /\ who \notin elapsed
  /\ IF who = "main" THEN main = "shutdown" ELSE watcher = "shutdown"
  /\ elapsed' = elapsed \cup {who}
  /\ UNCHANGED <<vars, nodeVars, fetch, watcher, signalled>>

WaitsForAll(who) == InFlight = {}

WaitsForEither(who) == InFlight = {} \/ elapsed # {}

WaitedEnough(who) == InFlight = {} \/ who \in elapsed

\* shutdownServer returns in either goroutine.
WatcherEnds ==
  /\ watcher = "shutdown"
  /\ WaitedEnough("watcher")
  /\ watcher' = "ended"
  /\ UNCHANGED <<vars, nodeVars, fetch, elapsed, signalled>>

ShutdownEnds ==
  /\ main = "shutdown"
  /\ WaitedEnough("main")
  /\ main' = "close_gossip"
  /\ UNCHANGED <<vars, built, open, apiVars, signalled>>

\* Node.Close: the gossip, then mDNS and the rendezvous, then the host with its
\* streams, which ends the fetches over it.  The node's context is done already.
CloseGossip ==
  /\ main = "close_gossip"
  /\ Close
  /\ main' = "close_discovery"
  /\ UNCHANGED <<built, open, apiVars, signalled>>

CloseDiscovery ==
  /\ main = "close_discovery"
  /\ main' = "close_host"
  /\ open' = open \ {"found"}
  /\ UNCHANGED <<vars, built, apiVars, signalled>>

CloseHost ==
  /\ main = "close_host"
  /\ main' = "exited"
  /\ open' = open \ {"connected", "fetch", "negotiate"}
  /\ UNCHANGED <<vars, built, apiVars, signalled>>

MainStep ==
  \/ BootStep \/ SubscribeTopics \/ BootFails \/ StartAgentAPI
  \/ MainWakes \/ ShutdownEnds \/ CloseGossip \/ CloseDiscovery \/ CloseHost

LifecycleNext ==
  \/ /\ main # "exited"
     /\ \/ MainStep
        \/ GossipStep
        \/ \E f \in Fetches : FetchBegins(f) \/ FetchEnds(f)
        \/ Signal \/ WatcherWakes \/ WatcherEnds
        \/ \E who \in {"main", "watcher"} : FiveSeconds(who)
  \/ main = "exited" /\ UNCHANGED allVars

(***************************************************************************)
(* The main goroutine goes on, what it calls returns, and time passes.     *)
(* Nobody has to send a signal, answer a fetch or end a request.           *)
(***************************************************************************)
LifecycleSpec ==
  /\ LifecycleInit
  /\ [][LifecycleNext]_allVars
  /\ WF_allVars(main # "exited" /\ MainStep)
  /\ WF_allVars(main # "exited" /\ FiveSeconds("main"))

----------------------------------------------------------------------------
LifecycleTypeOK ==
  /\ GossipTypeOK
  /\ main \in Phases
  /\ built \subseteq {"store", "host", "identity", "gossip", "discovery"}
  /\ open \subseteq Callbacks
  /\ fetch \in [Fetches -> {"idle", "waiting", "done"}]
  /\ signalled \in BOOLEAN
  /\ watcher \in {"none", "waiting", "shutdown", "ended"}
  /\ elapsed \subseteq {"main", "watcher"}

\* No callback, read loop, sweep or request finds a part of the node that NewNode
\* has not built: NewNode hands out its methods long before it returns, and assigns
\* node.Gossip only after it has subscribed.
CallbacksFindTheirParts ==
  /\ \A callback \in open : Uses(callback) \subseteq built
  /\ readers # {} => Uses("envelope") \subseteq built
  /\ InFlight # {} => Uses("request") \subseteq built

\* The node is not closed under a request before the main goroutine has waited its
\* own five seconds, though another one waits for the same requests and may have
\* begun, and given up, earlier (shutdownServer, called twice, and the order of the
\* deferred calls in run).
NotClosedUnderRequests ==
  closed /\ InFlight # {} => "main" \in elapsed

\* A process that gets a signal exits, in whatever phase of its start the signal
\* comes and though a fetch waits for ever for its answer: FetchDetail sets no
\* deadline, and shutdownServer does.
SignalEnds == signalled ~> main = "exited"
=============================================================================
