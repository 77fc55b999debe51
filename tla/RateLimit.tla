----------------------------- MODULE RateLimit -----------------------------
(***************************************************************************)
(* The limit on what one peer may publish to a node: Store.AllowPeer of    *)
(* internal/p2p/store.go, asked by enforceEnvelopePolicy.  The rates are   *)
(* in memory only: this is one life of the process.  One call is one step. *)
(***************************************************************************)
EXTENDS Rates, FiniteSets

CONSTANTS Peers,
          Limit,      \* Policy.RateLimitPerPeer; Normalize makes it positive
          Minute,     \* time.Minute, in ticks
          MaxTime,    \* bound: the clock stops here
          MaxCalls    \* bound: the calls of each peer

ASSUME RateAssumption ==
  /\ Limit \in Nat \ {0}
  /\ Minute \in Nat \ {0}
  /\ MaxTime \in Nat
  /\ MaxCalls \in Nat

VARIABLES rates,
          now,
          calls      \* what AllowPeer was asked and what it answered, numbered

rateVars == <<rates, now, calls>>

RateInit ==
  /\ rates = [p \in Peers |-> NoRate]
  /\ now = 0
  /\ calls = {}

CallsOf(p) == {c \in calls : c.peer = p}

AllowPeer(p) ==
  /\ Cardinality(CallsOf(p)) < MaxCalls
  /\ rates' = [rates EXCEPT ![p] = Counted(@, now, Minute)]
  /\ calls' = calls \cup {[peer |-> p, time |-> now, nr |-> Cardinality(CallsOf(p)),
                           allowed |-> Within(rates'[p], Limit)]}
  /\ UNCHANGED now

Tick ==
  /\ now < MaxTime
  /\ now' = now + 1
  /\ UNCHANGED <<rates, calls>>

RateNext == (\E p \in Peers : AllowPeer(p)) \/ Tick

RateSpec == RateInit /\ [][RateNext]_rateVars

----------------------------------------------------------------------------
\* The calls of a peer in the minute that starts at t.
InMinuteFrom(p, t) == {c \in CallsOf(p) : t <= c.time /\ c.time < t + Minute}

Allowed(some) == {c \in some : c.allowed}

\* A minute meets two windows at most: whenever it starts, no more than twice the
\* limit of a peer's envelopes is let through in it.  (cmd/p2p.go says "maximum
\* accepted events per peer per minute", which only holds of each window.)
TwiceTheLimitAtMost ==
  \A p \in Peers, t \in 0 .. MaxTime : Cardinality(Allowed(InMinuteFrom(p, t))) <= 2 * Limit

\* A peer that keeps to the limit is never refused: a refused call has as many
\* calls as the limit before it in the minute that it ends.
RefusedForCause ==
  \A c \in calls : ~ c.allowed =>
     Cardinality({d \in CallsOf(c.peer) : d.nr < c.nr /\ c.time < d.time + Minute}) >= Limit
=============================================================================
