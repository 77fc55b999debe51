----------------------------- MODULE Discovery -----------------------------
(***************************************************************************)
(* How one node starts, finds its peers and keeps them: NewNode,           *)
(* onPeerDiscovered and registerConnectionTracing of internal/p2p/node.go, *)
(* the identity of hosts.go, discovery.go, and the table of known peers    *)
(* (RecordPeer of store.go).                                               *)
(*                                                                         *)
(* The goroutine of SetupRendezvous goes every ten seconds through the     *)
(* bootstrap peers and through those the DHT finds; mDNS and the network   *)
(* call back at any time.  Peers come and go, connections break, writes    *)
(* fail, and the process may end at every step.  The DHT, mDNS and libp2p  *)
(* are external: a dial succeeds if the peer can be reached.  The order    *)
(* and the addresses in the peers table are left out: only /v1/peers reads *)
(* them.                                                                   *)
(***************************************************************************)
EXTENDS Naturals, FiniteSets, SequencesExt

CONSTANTS Peers,      \* the other nodes
          Bootstrap,  \* the bootstrap peers, in the order of the command line
          Keys,       \* the private keys that may be generated
          NoKey, Torn \* no identity file, and one that no key can be read from

ASSUME DiscoveryAssumption ==
  /\ Bootstrap \in Seq(Peers)
  /\ {NoKey, Torn} \cap Keys = {}

VARIABLES pc,         \* how far NewNode is, and then its discovery loop
          at,         \* the bootstrap peer that is next in this pass
          found,      \* what the DHT found and the loop has still to go through
          calls,      \* the calls of onPeerDiscovered under way
          notices,    \* the peers whose ConnectedF has not run yet
          links,      \* the peers the node is connected with
          unseen,     \* history: those whose connection came before anybody watched
          reachable,  \* the peers a dial would reach
          known,      \* the peers table
          knownFile,  \* peers.json
          keyFile,    \* identity.key
          key,        \* the identity of this process
          used        \* history: the identities that hosts were created with

passVars == <<pc, at, found>>
netVars  == <<links, notices, unseen>>
peerVars == <<known, knownFile>>
keyVars  == <<keyFile, key, used>>
vars == <<passVars, calls, netVars, reachable, peerVars, keyVars>>

Looping == {"ensure", "find", "connect", "wait"}

\* Callbacks are registered: connections give a notice and mDNS may call.
Watching == {"start"} \cup Looping

\* The host exists and listens, at first with nobody watching.
Hosted == {"hosted"} \cup Watching

Init ==
  /\ pc = "down" /\ at = 1 /\ found = {}
  /\ calls = {} /\ notices = {} /\ links = {} /\ unseen = {}
  /\ reachable \in SUBSET Peers
  /\ known = {} /\ knownFile = {}
  /\ keyFile = NoKey /\ key = NoKey /\ used = {}

----------------------------------------------------------------------------
(***************************************************************************)
(* The network and the table of peers.                                     *)
(***************************************************************************)
Linked(p) ==
  /\ links' = links \cup {p}
  /\ notices' = IF p \in links THEN notices ELSE notices \cup {p}
  /\ UNCHANGED unseen

RecordsIfWritten(p, written) ==
  /\ known' = IF written THEN known \cup {p} ELSE known
  /\ knownFile' = known'

\* RecordPeer
Records(p, written) ==
  /\ known' = known \cup {p}
  /\ knownFile' = IF written THEN known' ELSE knownFile

PeerComesOrGoes(p) ==
  /\ reachable' = IF p \in reachable THEN reachable \ {p} ELSE reachable \cup {p}
  /\ UNCHANGED <<passVars, calls, netVars, peerVars, keyVars>>

PeerConnects(p) ==
  /\ pc \in Watching
  /\ p \notin links
  /\ Linked(p)
  /\ UNCHANGED <<passVars, calls, reachable, peerVars, keyVars>>

\* A connection between CreateHost and registerConnectionTracing: nobody is told.
PeerConnectsUnseen(p) ==
  /\ pc = "hosted"
  /\ links' = links \cup {p}
  /\ unseen' = unseen \cup {p}
  /\ UNCHANGED <<passVars, calls, notices, reachable, peerVars, keyVars>>

ConnectionBreaks(p) ==
  /\ p \in links
  /\ links' = links \ {p}
  /\ unseen' = unseen \ {p}
  /\ UNCHANGED <<passVars, calls, notices, reachable, peerVars, keyVars>>

\* ConnectedF of registerConnectionTracing; DisconnectedF only logs.
ConnectedF(p, written) ==
  /\ p \in notices
  /\ notices' = notices \ {p}
  /\ Records(p, written)
  /\ UNCHANGED <<passVars, calls, links, unseen, reachable, keyVars>>

----------------------------------------------------------------------------
(***************************************************************************)
(* onPeerDiscovered, in the goroutine of the loop or in one of mDNS.       *)
(***************************************************************************)
Call(p, by, step) == [peer |-> p, by |-> by, step |-> step]

LoopIsFree == \A c \in calls : c.by # "loop"

MDNSFinds(p) ==
  /\ pc \in Watching
  /\ calls' = calls \cup {Call(p, "mdns", "connect")}
  /\ UNCHANGED <<passVars, netVars, reachable, peerVars, keyVars>>

\* Connect may fail; the peer is recorded all the same.
CallConnects(c) ==
  /\ c \in calls /\ c.step = "connect"
  /\ IF c.peer \in reachable THEN Linked(c.peer) ELSE UNCHANGED netVars
  /\ calls' = (calls \ {c}) \cup {Call(c.peer, c.by, "record")}
  /\ UNCHANGED <<passVars, reachable, peerVars, keyVars>>

CallRecords(c, written) ==
  /\ c \in calls /\ c.step = "record"
  /\ Records(c.peer, written)
  /\ calls' = calls \ {c}
  /\ UNCHANGED <<passVars, netVars, reachable, keyVars>>

----------------------------------------------------------------------------
(***************************************************************************)
(* NewNode, and the end of the process.                                    *)
(***************************************************************************)
Down ==
  /\ pc' = "down" /\ at' = 1 /\ found' = {}
  /\ calls' = {} /\ notices' = {} /\ links' = {} /\ unseen' = {}
  /\ known' = {} /\ key' = NoKey
  /\ UNCHANGED <<reachable, knownFile, keyFile, used>>

\* A start that fails for whatever reason, a signal, a kill.
Stop == pc # "down" /\ Down

\* What UnmarshalPrivateKey takes.
Readable(file) == file \in Keys

\* OpenStore and loadOrCreateIdentity.  Without an identity file a key is
\* generated and the file created, empty at first.
Start ==
  /\ pc = "down"
  /\ known' = knownFile
  /\ \/ Readable(keyFile) /\ pc' = "create" /\ key' = keyFile /\ UNCHANGED keyFile
     \/ /\ keyFile = NoKey
        /\ pc' = "identity"
        /\ key' \in Keys \ used
        /\ keyFile' = Torn
  /\ UNCHANGED <<at, found, calls, netVars, reachable, knownFile, used>>

IdentityWrittenOrNot ==
  /\ pc = "identity"
  /\ keyFile' \in {key, NoKey}
  /\ pc' = "create"
  /\ UNCHANGED <<at, found, calls, netVars, reachable, peerVars, key, used>>

\* The key is in the file before a host is created with it.  A write that
\* fails ends the start and leaves the file as it is.
IdentityWritten ==
  /\ pc = "identity"
  /\ keyFile' = key
  /\ pc' = "create"
  /\ UNCHANGED <<at, found, calls, netVars, reachable, peerVars, key, used>>

\* libp2p.New: the host listens from here on.
CreateHost ==
  /\ pc = "create"
  /\ pc' = "hosted"
  /\ used' = used \cup {key}
  /\ UNCHANGED <<at, found, calls, netVars, reachable, peerVars, keyFile, key>>

\* registerConnectionTracing, and then the rest of the callbacks.
RegisterConnectionTracing ==
  /\ pc = "hosted"
  /\ pc' = "start"
  /\ UNCHANGED <<at, found, calls, netVars, reachable, peerVars, keyVars>>

----------------------------------------------------------------------------
(***************************************************************************)
(* SetupRendezvous: ensureConnectedPeers, once in the start and then in    *)
(* every round of the loop, and findAndConnect.                            *)
(***************************************************************************)
InPass == pc \in {"start", "ensure"} /\ LoopIsFree

PassPeer ==
  /\ InPass
  /\ at <= Len(Bootstrap)
  /\ Bootstrap[at] \in links \cup reachable
  /\ Linked(Bootstrap[at])
  /\ calls' = calls \cup {Call(Bootstrap[at], "loop", "connect")}
  /\ at' = at + 1
  /\ UNCHANGED <<pc, found, reachable, peerVars, keyVars>>

NextPassGoesOn == at' = at

NextPassFromFirst == at' = 1

\* After the pass of the start the loop begins with one of its own.
AfterPass == pc' = IF pc = "start" THEN "ensure" ELSE "find"

PassEnds ==
  /\ InPass
  /\ at > Len(Bootstrap)
  /\ AfterPass
  /\ NextPassFromFirst
  /\ UNCHANGED <<found, calls, netVars, reachable, peerVars, keyVars>>

StartsWithout ==
  /\ AfterPass
  /\ NextPassFromFirst
  /\ UNCHANGED <<found, calls, netVars, reachable, peerVars, keyVars>>

\* A peer out of reach ends the pass at once: the start fails with it, the loop
\* goes on to findAndConnect.
EndsThePass ==
  IF pc = "start" THEN Down
                  ELSE /\ AfterPass
                       /\ NextPassFromFirst
                       /\ UNCHANGED <<found, calls, netVars, reachable, peerVars, keyVars>>

PassFails ==
  /\ InPass
  /\ at <= Len(Bootstrap)
  /\ Bootstrap[at] \notin links \cup reachable
  /\ EndsThePass

FindPeers ==
  /\ pc = "find"
  /\ found' \in SUBSET Peers
  /\ pc' = "connect"
  /\ UNCHANGED <<at, calls, netVars, reachable, peerVars, keyVars>>

FindAndConnect(p) ==
  /\ pc = "connect" /\ LoopIsFree
  /\ p \in found
  /\ found' = found \ {p}
  /\ IF p \in links \cup reachable
       THEN Linked(p) /\ calls' = calls \cup {Call(p, "loop", "connect")}
       ELSE UNCHANGED <<netVars, calls>>
  /\ UNCHANGED <<pc, at, reachable, peerVars, keyVars>>

RoundEnds ==
  /\ pc = "connect" /\ LoopIsFree
  /\ found = {}
  /\ pc' = "wait"
  /\ UNCHANGED <<at, found, calls, netVars, reachable, peerVars, keyVars>>

NextRound ==
  /\ pc = "wait"
  /\ pc' = "ensure"
  /\ UNCHANGED <<at, found, calls, netVars, reachable, peerVars, keyVars>>

LoopCalls == {c \in calls : c.by = "loop"}

LoopStep ==
  \/ PassPeer \/ PassEnds \/ PassFails
  \/ FindPeers \/ (\E p \in Peers : FindAndConnect(p)) \/ RoundEnds
  \/ NextRound
  \/ \E c \in LoopCalls, written \in BOOLEAN : CallConnects(c) \/ CallRecords(c, written)

Next ==
  \/ LoopStep
  \/ \E c \in calls \ LoopCalls, written \in BOOLEAN : CallConnects(c) \/ CallRecords(c, written)
  \/ \E p \in Peers, written \in BOOLEAN : ConnectedF(p, written)
  \/ \E p \in Peers :
       \/ MDNSFinds(p) \/ PeerComesOrGoes(p)
       \/ PeerConnects(p) \/ PeerConnectsUnseen(p) \/ ConnectionBreaks(p)
  \/ Start \/ IdentityWritten \/ CreateHost \/ RegisterConnectionTracing \/ Stop

Spec == Init /\ [][Next]_vars

(***************************************************************************)
(* The goroutine of the loop runs, and its ticker ticks.  Nothing makes a  *)
(* peer come back, a node start or a connection hold.                      *)
(***************************************************************************)
FairSpec == Spec /\ WF_vars(LoopStep)

----------------------------------------------------------------------------
\* Only a process has an identity, links and calls under way.
DiscoveryTypeOK ==
  /\ pc \in {"down", "identity", "create"} \cup Hosted
  /\ at \in 1 .. Len(Bootstrap) + 1
  /\ found \subseteq Peers
  /\ calls \subseteq [peer: Peers, by: {"loop", "mdns"}, step: {"connect", "record"}]
  /\ notices \subseteq Peers /\ links \subseteq Peers /\ unseen \subseteq Peers /\ reachable \subseteq Peers
  /\ known \subseteq Peers /\ knownFile \subseteq Peers
  /\ keyFile \in Keys \cup {NoKey, Torn}
  /\ IF pc = "down" THEN key = NoKey ELSE key \in Keys
  /\ used \subseteq Keys

\* README.md: "libp2p host creation with persistent identity".  All hosts that a
\* node ever created had one identity, and it is in the file, wherever the process
\* ended and whatever write failed (loadOrCreateIdentity writes the key before
\* CreateHost uses it).
IdentityKept ==
  /\ Cardinality(used) <= 1
  /\ used # {} => keyFile \in used

\* A node that came up has every bootstrap peer in its table: NewNode fails when
\* one of them cannot be reached (SetupRendezvous returns the error that its own
\* loop ignores).
RunningKnowsBootstrap == pc \in Looping => ToSet(Bootstrap) \subseteq known

\* A peer the node is connected with, whoever dialled, is in its table or has a
\* notice under way: links that break and come back, calls that overtake notices
\* and failed writes leave no connection unrecorded but one that was accepted
\* before the node watched its connections, and has held since (CreateHost listens,
\* registerConnectionTracing comes later and does not ask who is there already).
ConnectedIsKnown == links \ unseen \subseteq known \cup notices

\* A node that stays up connects again and again with a bootstrap peer that stays
\* in reach, however often their connection breaks, as long as those before it in
\* the list are in reach too: ensureConnectedPeers gives up at the first that is
\* not.
BootstrapRejoined ==
  \A i \in DOMAIN Bootstrap :
    <>[](pc \in Looping /\ \A j \in 1 .. i : Bootstrap[j] \in reachable)
      => []<>(Bootstrap[i] \in links)
=============================================================================
