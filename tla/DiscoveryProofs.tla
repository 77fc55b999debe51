-------------------------- MODULE DiscoveryProofs --------------------------
(***************************************************************************)
(* What module Discovery promises, for any peers, bootstrap list and keys. *)
(***************************************************************************)
EXTENDS Discovery, TLAPS, FiniteSetTheorems

LEMMA BootstrapPeers ==
  /\ Len(Bootstrap) \in Nat
  /\ \A i \in 1 .. Len(Bootstrap) : Bootstrap[i] \in Peers
  /\ ToSet(Bootstrap) = {Bootstrap[i] : i \in 1 .. Len(Bootstrap)}
<1>1. Bootstrap \in Seq(Peers) /\ DOMAIN Bootstrap = 1 .. Len(Bootstrap)
  BY DiscoveryAssumption
<1> QED BY <1>1 DEF ToSet

(***************************************************************************)
(* Type correctness.                                                       *)
(***************************************************************************)
LEMMA LinkedTypes ==
  ASSUME NEW p \in Peers, links \subseteq Peers, notices \subseteq Peers, Linked(p)
  PROVE  links' \subseteq Peers /\ notices' \subseteq Peers
  BY DEF Linked

LEMMA DownTypes == ASSUME DiscoveryTypeOK, Down PROVE DiscoveryTypeOK'
<1>1. 1 \in 1 .. Len(Bootstrap) + 1
  BY BootstrapPeers
<1> QED BY <1>1 DEF Down, DiscoveryTypeOK

\* The steps that both the loop and others take.
LEMMA CallTypes ==
  ASSUME DiscoveryTypeOK, NEW c \in calls, NEW written \in BOOLEAN,
         CallConnects(c) \/ CallRecords(c, written)
  PROVE  DiscoveryTypeOK'
<1>1. c \in [peer: Peers, by: {"loop", "mdns"}, step: {"connect", "record"}]
  BY DEF DiscoveryTypeOK
<1>2. CASE CallConnects(c)
  BY <1>1, <1>2 DEF CallConnects, Linked, Call, DiscoveryTypeOK, passVars, netVars, peerVars, keyVars
<1>3. CASE CallRecords(c, written)
  BY <1>1, <1>3 DEF CallRecords, Records, DiscoveryTypeOK, passVars, netVars, keyVars
<1> QED BY <1>2, <1>3

LEMMA LoopTypes == ASSUME DiscoveryTypeOK, LoopStep PROVE DiscoveryTypeOK'
<1> USE DEF DiscoveryTypeOK, Hosted, Watching, Looping, netVars, peerVars, keyVars
<1>1. CASE PassPeer
  <2>1. Bootstrap[at] \in Peers /\ at' \in 1 .. Len(Bootstrap) + 1
    BY <1>1, BootstrapPeers DEF PassPeer
  <2> QED BY <1>1, <2>1 DEF PassPeer, Linked, Call
<1>2. CASE PassEnds
  BY <1>2, BootstrapPeers DEF PassEnds, InPass, AfterPass, NextPassFromFirst
<1>3. CASE PassFails
  BY <1>3, BootstrapPeers, DownTypes DEF PassFails, EndsThePass, InPass, AfterPass, NextPassFromFirst
<1>4. CASE FindPeers
  BY <1>4 DEF FindPeers
<1>5. ASSUME NEW p \in Peers, FindAndConnect(p) PROVE DiscoveryTypeOK'
  BY <1>5 DEF FindAndConnect, Linked, Call
<1>6. CASE RoundEnds \/ NextRound
  BY <1>6 DEF RoundEnds, NextRound
<1>7. ASSUME NEW c \in LoopCalls, NEW written \in BOOLEAN, CallConnects(c) \/ CallRecords(c, written)
      PROVE  DiscoveryTypeOK'
  BY <1>7, CallTypes DEF LoopCalls
<1> QED BY <1>1, <1>2, <1>3, <1>4, <1>5, <1>6, <1>7 DEF LoopStep

StartStep == Start \/ IdentityWritten \/ CreateHost \/ RegisterConnectionTracing

LEMMA StartTypes == ASSUME DiscoveryTypeOK, StartStep PROVE DiscoveryTypeOK'
<1> USE DEF DiscoveryTypeOK, Hosted, Watching, netVars, peerVars, keyVars
<1>1. CASE Start
  BY <1>1 DEF Start, Readable
<1>2. CASE IdentityWritten
  BY <1>2 DEF IdentityWritten
<1>3. CASE CreateHost
  BY <1>3 DEF CreateHost
<1>4. CASE RegisterConnectionTracing
  BY <1>4 DEF RegisterConnectionTracing
<1> QED BY <1>1, <1>2, <1>3, <1>4 DEF StartStep

LEMMA NetworkTypes ==
  ASSUME DiscoveryTypeOK, NEW p \in Peers, NEW written \in BOOLEAN,
         \/ ConnectedF(p, written) \/ MDNSFinds(p) \/ PeerComesOrGoes(p)
         \/ PeerConnects(p) \/ PeerConnectsUnseen(p) \/ ConnectionBreaks(p)
  PROVE  DiscoveryTypeOK'
<1> USE DEF DiscoveryTypeOK, passVars, netVars, peerVars, keyVars
<1>1. CASE ConnectedF(p, written)
  BY <1>1 DEF ConnectedF, Records
<1>2. CASE MDNSFinds(p)
  BY <1>2 DEF MDNSFinds, Call
<1>3. CASE PeerComesOrGoes(p)
  BY <1>3 DEF PeerComesOrGoes
<1>4. CASE PeerConnects(p)
  BY <1>4 DEF PeerConnects, Linked
<1>5. CASE ConnectionBreaks(p)
  BY <1>5 DEF ConnectionBreaks
<1>6. CASE PeerConnectsUnseen(p)
  BY <1>6 DEF PeerConnectsUnseen
<1> QED BY <1>1, <1>2, <1>3, <1>4, <1>5, <1>6

LEMMA DiscoveryTypeInductive == DiscoveryTypeOK /\ [Next]_vars => DiscoveryTypeOK'
<1>1. UNCHANGED vars /\ DiscoveryTypeOK => DiscoveryTypeOK'
  BY DEF vars, passVars, netVars, peerVars, keyVars, DiscoveryTypeOK
<1>2. Stop /\ DiscoveryTypeOK => DiscoveryTypeOK'
  BY DownTypes DEF Stop
<1> QED BY <1>1, <1>2, LoopTypes, CallTypes, StartTypes, NetworkTypes DEF Next, StartStep

\* Every reachable state of the start, the loop and the tables is well typed.
THEOREM DiscoveryTypeCorrect == Spec => []DiscoveryTypeOK
<1>1. Init => DiscoveryTypeOK
  BY BootstrapPeers DEF Init, DiscoveryTypeOK
<1> QED BY <1>1, DiscoveryTypeInductive, PTL DEF Spec

(***************************************************************************)
(* Identity.  While a key is being written no host was ever created; after *)
(* that the file, the key of the process and the only identity that hosts  *)
(* were created with are the same.                                         *)
(***************************************************************************)
OneKey ==
  /\ used = {} \/ (used = {keyFile} /\ keyFile \in Keys)
  /\ pc = "identity" => used = {}
  /\ pc \in {"create"} \cup Hosted => key = keyFile

LEMMA OneKeyInductive == DiscoveryTypeOK /\ OneKey /\ [Next]_vars => OneKey'
<1> SUFFICES ASSUME DiscoveryTypeOK, OneKey, [Next]_vars PROVE OneKey'
  OBVIOUS
<1> USE DEF Hosted, Watching, Looping
<1>1. CASE Start
  BY <1>1, DiscoveryAssumption DEF Start, Readable, OneKey
<1>2. CASE IdentityWritten
  BY <1>2 DEF IdentityWritten, OneKey, DiscoveryTypeOK
<1>3. CASE CreateHost
  BY <1>3 DEF CreateHost, OneKey, DiscoveryTypeOK
<1>4. CASE RegisterConnectionTracing
  BY <1>4 DEF RegisterConnectionTracing, OneKey, keyVars
<1>5. CASE Down
  BY <1>5 DEF Down, OneKey
<1>6. CASE UNCHANGED keyVars /\ (pc' = pc \/ (pc \in Hosted /\ pc' \in Hosted))
  BY <1>6 DEF OneKey, keyVars
<1>7. ASSUME LoopStep, ~ Down PROVE UNCHANGED keyVars /\ (pc' = pc \/ (pc \in Hosted /\ pc' \in Hosted))
  BY <1>7 DEF LoopStep, PassPeer, PassEnds, PassFails, EndsThePass, InPass, AfterPass, FindPeers, FindAndConnect,
              RoundEnds, NextRound, CallConnects, CallRecords, passVars
<1>8. ASSUME Next, ~ LoopStep, ~ StartStep, ~ Down PROVE UNCHANGED keyVars /\ pc' = pc
  BY <1>8 DEF Next, StartStep, CallConnects, CallRecords, ConnectedF, MDNSFinds, PeerComesOrGoes, PeerConnects,
              PeerConnectsUnseen, ConnectionBreaks, Stop, passVars
<1>9. CASE UNCHANGED vars
  BY <1>6, <1>9 DEF vars, passVars
<1> QED BY <1>1, <1>2, <1>3, <1>4, <1>5, <1>6, <1>7, <1>8, <1>9 DEF StartStep

\* A node has one identity for ever, wherever its process ended and whatever
\* write failed, and it is in the file before any peer can meet it.
THEOREM OneIdentity == Spec => []IdentityKept
<1>1. Init => OneKey
  BY DEF Init, OneKey
<1>2. OneKey => IdentityKept
  <2>1. Cardinality({}) = 0 /\ Cardinality({keyFile}) = 1
    BY FS_EmptySet, FS_Singleton
  <2> QED BY <2>1 DEF OneKey, IdentityKept
<1> QED BY <1>1, <1>2, DiscoveryTypeCorrect, OneKeyInductive, PTL DEF Spec

(***************************************************************************)
(* Peers.  Nothing is linked or called before the host exists; after that  *)
(* the table of peers only grows until the process ends.                   *)
(***************************************************************************)
NoHostYet ==
  /\ pc \in {"down", "identity", "create"} => links = {}
  /\ pc \notin Watching => calls = {} /\ at = 1

LEMMA NoHostYetInductive == DiscoveryTypeOK /\ NoHostYet /\ [Next]_vars => NoHostYet'
<1> SUFFICES ASSUME DiscoveryTypeOK, NoHostYet, [Next]_vars PROVE NoHostYet'
  OBVIOUS
<1> USE DEF NoHostYet, Watching, Looping
<1>1. CASE Down
  BY <1>1 DEF Down
<1>2. CASE Start
  BY <1>2 DEF Start, netVars
<1>3. CASE IdentityWritten
  BY <1>3 DEF IdentityWritten, netVars
<1>4. CASE CreateHost
  BY <1>4 DEF CreateHost, netVars
<1>5. CASE RegisterConnectionTracing
  BY <1>5 DEF RegisterConnectionTracing
<1>6. ASSUME LoopStep, ~ Down PROVE NoHostYet'
  BY <1>6 DEF LoopStep, LoopCalls, PassPeer, PassEnds, PassFails, EndsThePass, InPass, AfterPass, FindPeers,
              FindAndConnect, RoundEnds, NextRound, CallConnects, CallRecords, passVars
<1>7. ASSUME Next, ~ LoopStep, ~ StartStep, ~ Down PROVE NoHostYet'
  BY <1>7 DEF Next, StartStep, CallConnects, CallRecords, ConnectedF, MDNSFinds, PeerComesOrGoes, PeerConnects,
              PeerConnectsUnseen, ConnectionBreaks, Stop, passVars, netVars
<1>8. CASE UNCHANGED vars
  BY <1>8 DEF vars, passVars, netVars
<1> QED BY <1>1, <1>2, <1>3, <1>4, <1>5, <1>6, <1>7, <1>8 DEF StartStep

\* A step that neither starts nor ends the process loses no peer from the table.
LEMMA KnownGrows ==
  ASSUME DiscoveryTypeOK, [Next]_vars, ~ Down, pc # "down"
  PROVE  known \subseteq known'
<1>1. ASSUME LoopStep PROVE known \subseteq known'
  BY <1>1 DEF LoopStep, PassPeer, PassEnds, PassFails, EndsThePass, FindPeers, FindAndConnect,
              RoundEnds, NextRound, CallConnects, CallRecords, Records, peerVars
<1>2. ASSUME Next, ~ LoopStep PROVE known \subseteq known'
  BY <1>2 DEF Next, CallConnects, CallRecords, ConnectedF, Records, MDNSFinds, PeerComesOrGoes, PeerConnects,
              PeerConnectsUnseen, ConnectionBreaks, Stop, Start, IdentityWritten, CreateHost,
              RegisterConnectionTracing, peerVars
<1>3. CASE UNCHANGED vars
  BY <1>3 DEF vars, peerVars
<1> QED BY <1>1, <1>2, <1>3

LEMMA ConnectedInductive == DiscoveryTypeOK /\ NoHostYet /\ ConnectedIsKnown /\ [Next]_vars => ConnectedIsKnown'
<1> SUFFICES ASSUME DiscoveryTypeOK, NoHostYet, ConnectedIsKnown, [Next]_vars PROVE ConnectedIsKnown'
  OBVIOUS
<1> USE DEF ConnectedIsKnown
<1>1. CASE Down
  BY <1>1 DEF Down
<1>2. CASE Start
  BY <1>2 DEF Start, NoHostYet, netVars
<1>3. CASE IdentityWritten \/ CreateHost \/ RegisterConnectionTracing
  BY <1>3 DEF IdentityWritten, CreateHost, RegisterConnectionTracing, netVars, peerVars
<1>4. ASSUME LoopStep, ~ Down PROVE ConnectedIsKnown'
  BY <1>4 DEF LoopStep, PassPeer, PassEnds, PassFails, EndsThePass, FindPeers, FindAndConnect,
              RoundEnds, NextRound, CallConnects, CallRecords, Linked, Records, netVars, peerVars
<1>5. ASSUME Next, ~ LoopStep, ~ StartStep, ~ Down PROVE ConnectedIsKnown'
  BY <1>5 DEF Next, StartStep, CallConnects, CallRecords, ConnectedF, Linked, Records, MDNSFinds, PeerComesOrGoes,
              PeerConnects, PeerConnectsUnseen, ConnectionBreaks, Stop, netVars, peerVars
<1>6. CASE UNCHANGED vars
  BY <1>6 DEF vars, netVars, peerVars
<1> QED BY <1>1, <1>2, <1>3, <1>4, <1>5, <1>6 DEF StartStep

\* Links that break and come back, calls that overtake notices and failed writes
\* leave no connection unrecorded but those accepted between CreateHost and
\* registerConnectionTracing.
THEOREM ConnectionsAreRecorded == Spec => []ConnectedIsKnown
<1>1. Init => NoHostYet /\ ConnectedIsKnown
  BY DEF Init, NoHostYet, ConnectedIsKnown
<1> QED BY <1>1, DiscoveryTypeCorrect, NoHostYetInductive, ConnectedInductive, PTL DEF Spec

\* The pass of the start: each peer that it is through with is in the table, or
\* is the one that the loop's goroutine has still to record.
Passed(p) == p \in known \/ \E c \in calls : c.by = "loop" /\ c.peer = p

StartPasses ==
  /\ pc = "start" => \A i \in 1 .. at - 1 : Passed(Bootstrap[i])
  /\ RunningKnowsBootstrap

LEMMA PassedStays ==
  ASSUME DiscoveryTypeOK, [Next]_vars, ~ Down, pc # "down", NEW p, Passed(p)
  PROVE  Passed(p)'
<1>1. CASE p \in known
  BY <1>1, KnownGrows DEF Passed
<1>2. ASSUME NEW c \in calls, c.by = "loop", c.peer = p PROVE Passed(p)'
  <2>1. ASSUME NEW d \in calls, CallConnects(d) PROVE Passed(p)'
    <3>1. Call(d.peer, d.by, "record").by = d.by /\ Call(d.peer, d.by, "record").peer = d.peer
      BY DEF Call
    <3> QED BY <1>2, <2>1, <3>1 DEF CallConnects, Passed
  <2>2. ASSUME NEW d \in calls, NEW written \in BOOLEAN, CallRecords(d, written) PROVE Passed(p)'
    BY <1>2, <2>2 DEF CallRecords, Records, Passed
  <2>3. CASE calls \subseteq calls'
    BY <1>2, <2>3 DEF Passed
  <2>4. ASSUME LoopStep, ~ \E d \in calls, written \in BOOLEAN : CallConnects(d) \/ CallRecords(d, written)
        PROVE  calls \subseteq calls'
    BY <2>4 DEF LoopStep, LoopCalls, PassPeer, PassEnds, PassFails, EndsThePass, FindPeers, FindAndConnect,
                RoundEnds, NextRound
  <2>5. ASSUME Next, ~ LoopStep, ~ \E d \in calls, written \in BOOLEAN : CallConnects(d) \/ CallRecords(d, written)
        PROVE  calls \subseteq calls'
    BY <2>5 DEF Next, ConnectedF, MDNSFinds, PeerComesOrGoes, PeerConnects, PeerConnectsUnseen,
                ConnectionBreaks, Start, IdentityWritten, CreateHost, RegisterConnectionTracing, Stop
  <2>6. CASE UNCHANGED vars
    BY <2>3, <2>6 DEF vars
  <2> QED BY <2>1, <2>2, <2>3, <2>4, <2>5, <2>6
<1> QED BY <1>1, <1>2 DEF Passed

LEMMA StartPassesInductive ==
  DiscoveryTypeOK /\ NoHostYet /\ StartPasses /\ [Next]_vars => StartPasses'
<1> SUFFICES ASSUME DiscoveryTypeOK, NoHostYet, StartPasses, [Next]_vars PROVE StartPasses'
  OBVIOUS
<1>0. at \in Nat /\ Len(Bootstrap) \in Nat
  BY BootstrapPeers DEF DiscoveryTypeOK
<1>1. CASE Down
  BY <1>1 DEF Down, StartPasses, RunningKnowsBootstrap, Looping
<1>2. CASE StartStep
  BY <1>2 DEF StartStep, Start, IdentityWritten, CreateHost, RegisterConnectionTracing, NoHostYet, Watching,
              StartPasses, RunningKnowsBootstrap, Looping
<1>3. ASSUME ~ Down, pc # "down", pc' = pc, at' = at PROVE StartPasses'
  BY <1>3, KnownGrows, PassedStays DEF StartPasses, RunningKnowsBootstrap
<1>4. ASSUME PassPeer, ~ Down PROVE StartPasses'
  <2>1. pc \in {"start", "ensure"} /\ pc' = pc /\ at' = at + 1
    BY <1>4 DEF PassPeer, InPass
  <2>2. PICK n \in Nat : n = at
    BY <1>0
  <2>3. Passed(Bootstrap[n])'
    <3>1. Call(Bootstrap[n], "loop", "connect") \in calls'
      BY <1>4, <2>2 DEF PassPeer
    <3>2. Call(Bootstrap[n], "loop", "connect").by = "loop" /\ Call(Bootstrap[n], "loop", "connect").peer = Bootstrap[n]
      BY DEF Call
    <3> QED BY <3>1, <3>2 DEF Passed
  <2>4. CASE pc = "start"
    <3>1. ASSUME NEW i \in 1 .. n PROVE Passed(Bootstrap[i])'
      <4>1. CASE i = n
        BY <2>3, <4>1
      <4>2. CASE i \in 1 .. n - 1
        <5>1. Passed(Bootstrap[i])
          BY <2>2, <2>4, <4>2 DEF StartPasses
        <5> QED BY <1>4, <2>4, <5>1, PassedStays
      <4> QED BY <4>1, <4>2
    <3> QED BY <2>1, <2>2, <2>4, <3>1 DEF StartPasses, RunningKnowsBootstrap, Looping
  <2>5. CASE pc = "ensure"
    BY <1>4, <2>1, <2>5, KnownGrows DEF StartPasses, RunningKnowsBootstrap
  <2> QED BY <2>1, <2>4, <2>5
<1>5. ASSUME PassEnds, ~ Down PROVE StartPasses'
  <2>1. ToSet(Bootstrap) \subseteq known
    <3>1. CASE pc = "start"
      <4>1. \A i \in 1 .. Len(Bootstrap) : Bootstrap[i] \in known
        BY <1>0, <1>5, <3>1 DEF PassEnds, InPass, LoopIsFree, StartPasses, Passed
      <4> QED BY <4>1, BootstrapPeers
    <3>2. CASE pc = "ensure"
      BY <3>2 DEF StartPasses, RunningKnowsBootstrap, Looping
    <3> QED BY <1>5, <3>1, <3>2 DEF PassEnds, InPass
  <2> QED BY <1>5, <2>1 DEF PassEnds, AfterPass, peerVars, StartPasses, RunningKnowsBootstrap
<1>6. ASSUME PassFails \/ FindPeers \/ RoundEnds \/ NextRound, ~ Down PROVE StartPasses'
  BY <1>6 DEF PassFails, EndsThePass, InPass, AfterPass, FindPeers, RoundEnds, NextRound, peerVars,
              StartPasses, RunningKnowsBootstrap, Looping
<1>7. CASE UNCHANGED <<pc, at, known, calls>>
  BY <1>7 DEF StartPasses, RunningKnowsBootstrap, Passed
<1>8. ASSUME Next, ~ Down, ~ PassPeer, ~ PassEnds, ~ (PassFails \/ FindPeers \/ RoundEnds \/ NextRound),
             ~ StartStep
      PROVE  pc' = pc /\ at' = at
  BY <1>8 DEF Next, LoopStep, StartStep, FindAndConnect, CallConnects, CallRecords, ConnectedF, MDNSFinds,
              PeerComesOrGoes, PeerConnects, PeerConnectsUnseen, ConnectionBreaks, Stop, passVars
<1>9. CASE pc' = pc /\ at' = at /\ pc = "down"
  BY <1>9 DEF StartPasses, RunningKnowsBootstrap, Looping
<1> QED BY <1>1, <1>2, <1>3, <1>4, <1>5, <1>6, <1>7, <1>8, <1>9 DEF vars, passVars, peerVars

\* A node that came up has all of its bootstrap peers in its table, and keeps them.
THEOREM RunningKnows == Spec => []RunningKnowsBootstrap
<1>1. Init => NoHostYet /\ StartPasses
  BY DEF Init, NoHostYet, StartPasses, RunningKnowsBootstrap, Looping
<1>2. StartPasses => RunningKnowsBootstrap
  BY DEF StartPasses
<1> QED BY <1>1, <1>2, DiscoveryTypeCorrect, NoHostYetInductive, StartPassesInductive, PTL DEF Spec
=============================================================================
