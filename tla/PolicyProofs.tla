---------------------------- MODULE PolicyProofs ----------------------------
(***************************************************************************)
(* What the policy of a node lets through: how many of a peer's envelopes  *)
(* (module RateLimit), for any peers, limits and calls, and in which form  *)
(* (module Wire), for any requests, policies and altered copies.           *)
(***************************************************************************)
EXTENDS Wire, RateLimit, FiniteSetTheorems, SequenceTheorems, WellFoundedInduction, TLAPS

(***************************************************************************)
(* The rate: what the window of a peer says of its calls.                  *)
(***************************************************************************)
RateTypeOK ==
  /\ rates \in [Peers -> [start : Nat, count : Nat]]
  /\ now \in Nat
  /\ calls \subseteq [peer : Peers, time : Nat, nr : Nat, allowed : BOOLEAN]
  /\ IsFiniteSet(calls)

\* The calls of the window, and those of less than a minute before it.
Window(p)  == {c \in CallsOf(p) : c.time >= rates[p].start}
Earlier(p) == {c \in CallsOf(p) : c.time < rates[p].start /\ rates[p].start < c.time + Minute}

\* The count of a window is that of its calls, the numbers of a peer's calls are
\* below their count, and neither the window nor the minute before let more than
\* the limit through.
WindowOK(p) ==
  /\ rates[p].start <= now
  /\ \A c \in CallsOf(p) :
       c.time <= now /\ c.time < rates[p].start + Minute /\ c.nr < Cardinality(CallsOf(p))
  /\ rates[p].count = Cardinality(Window(p))
  /\ rates[p].count = 0 => CallsOf(p) = {}
  /\ Cardinality(Allowed(Window(p))) <= Limit
  /\ Cardinality(Allowed(Earlier(p))) <= Limit

\* Not only the minutes up to the bound of the clock.
TwiceTheLimitEver ==
  \A p \in Peers, t \in Nat : Cardinality(Allowed(InMinuteFrom(p, t))) <= 2 * Limit

RateInv ==
  /\ RateTypeOK
  /\ \A p \in Peers : WindowOK(p)
  /\ TwiceTheLimitEver
  /\ RefusedForCause

NewCall(p) ==
  [peer |-> p, time |-> now, nr |-> Cardinality(CallsOf(p)), allowed |-> Within(rates'[p], Limit)]

\* Calls are finitely many, however they are selected.
LEMMA FinitelyMany ==
  ASSUME IsFiniteSet(calls), NEW S \in SUBSET calls
  PROVE  IsFiniteSet(S) /\ Cardinality(S) \in Nat
<1>1. IsFiniteSet(S)
  BY FS_Subset
<1> QED BY <1>1, FS_CardinalityType

LEMMA AllowedBounded ==
  ASSUME NEW S, NEW T, IsFiniteSet(T), S \subseteq T, Cardinality(Allowed(T)) <= Limit
  PROVE  Cardinality(Allowed(S)) <= Limit
<1>1. Allowed(T) \subseteq T /\ Allowed(S) \in SUBSET Allowed(T)
  BY DEF Allowed
<1>2. IsFiniteSet(Allowed(T))
  BY <1>1, FS_Subset
<1>3. Cardinality(Allowed(S)) <= Cardinality(Allowed(T)) /\ IsFiniteSet(Allowed(S))
  BY <1>1, <1>2, FS_Subset
<1>4. Cardinality(Allowed(S)) \in Nat /\ Cardinality(Allowed(T)) \in Nat
  BY <1>2, <1>3, FS_CardinalityType
<1> QED BY <1>3, <1>4, RateAssumption

\* A call is a new one of its peer, and of no other.
LEMMA OneCall ==
  ASSUME RateInv, NEW p \in Peers, AllowPeer(p)
  PROVE  /\ NewCall(p) \in [peer : Peers, time : Nat, nr : Nat, allowed : BOOLEAN]
         /\ calls' = calls \cup {NewCall(p)}
         /\ IsFiniteSet(calls')
         /\ NewCall(p) \notin CallsOf(p)
         /\ CallsOf(p)' = CallsOf(p) \cup {NewCall(p)}
         /\ Cardinality(CallsOf(p)') = Cardinality(CallsOf(p)) + 1
         /\ Cardinality(CallsOf(p)) \in Nat
         /\ \A q \in Peers \ {p} : CallsOf(q)' = CallsOf(q)
<1>1. CallsOf(p) \in SUBSET calls
  BY DEF CallsOf
<1>2. IsFiniteSet(CallsOf(p)) /\ Cardinality(CallsOf(p)) \in Nat
  BY <1>1, FinitelyMany DEF RateInv, RateTypeOK
<1>3. Within(rates'[p], Limit) \in BOOLEAN
  BY DEF Within
<1>4. NewCall(p) \in [peer : Peers, time : Nat, nr : Nat, allowed : BOOLEAN]
  BY <1>2, <1>3 DEF NewCall, RateInv, RateTypeOK
<1>5. calls' = calls \cup {NewCall(p)}
  BY DEF AllowPeer, NewCall
<1>6. NewCall(p).peer = p /\ NewCall(p).nr = Cardinality(CallsOf(p))
  BY DEF NewCall
<1>7. NewCall(p) \notin CallsOf(p)
  <2> SUFFICES ASSUME NewCall(p) \in CallsOf(p) PROVE FALSE
    OBVIOUS
  <2>1. NewCall(p).nr < Cardinality(CallsOf(p))
    BY DEF RateInv, WindowOK
  <2> QED BY <2>1, <1>2, <1>6
<1>8. CallsOf(p)' = CallsOf(p) \cup {NewCall(p)}
  BY <1>5, <1>6 DEF CallsOf
<1>9. \A q \in Peers \ {p} : CallsOf(q)' = CallsOf(q)
  BY <1>5, <1>6 DEF CallsOf
<1>10. IsFiniteSet(calls')
  BY <1>5, FS_AddElement DEF RateInv, RateTypeOK
<1>11. Cardinality(CallsOf(p)') = Cardinality(CallsOf(p)) + 1
  BY <1>2, <1>7, <1>8, FS_AddElement
<1> QED BY <1>2, <1>4, <1>5, <1>7, <1>8, <1>9, <1>10, <1>11

\* The first call of all, and the first one after a minute, start a window of
\* their own: what was in the last window is now before it.
LEMMA NewWindow ==
  ASSUME RateInv, NEW p \in Peers, AllowPeer(p),
         rates[p].count = 0 \/ now - rates[p].start >= Minute
  PROVE  WindowOK(p)'
<1> DEFINE new == NewCall(p)
<1>1. /\ rates[p] \in [start : Nat, count : Nat] /\ now \in Nat /\ now' = now
      /\ rates'[p] = [start |-> now, count |-> 1]
  BY DEF RateInv, RateTypeOK, AllowPeer, Counted
<1>2. \A c \in CallsOf(p) : c.time < now /\ c.time \in Nat /\ c.nr \in Nat
  <2> SUFFICES ASSUME NEW c \in CallsOf(p) PROVE c.time < now /\ c.time \in Nat /\ c.nr \in Nat
    OBVIOUS
  <2>1. c.time \in Nat /\ c.nr \in Nat
    BY DEF RateInv, RateTypeOK, CallsOf
  <2>2. c.time < rates[p].start + Minute /\ now - rates[p].start >= Minute
    BY DEF RateInv, WindowOK
  <2> QED BY <1>1, <2>1, <2>2, RateAssumption
<1>3. new.time = now /\ new.nr = Cardinality(CallsOf(p))
  BY DEF NewCall
<1>4. Window(p)' = {new}
  BY <1>1, <1>2, <1>3, OneCall DEF Window
<1>5. Cardinality(Window(p)') = 1
  BY <1>4, FS_Singleton
<1>6. Cardinality(Allowed(Window(p)')) <= Limit
  <2>1. Allowed({new}) \in {{}, {new}}
    BY DEF Allowed
  <2>2. Cardinality(Allowed({new})) \in {0, 1}
    BY <2>1, FS_EmptySet, FS_Singleton
  <2> QED BY <1>4, <2>2, RateAssumption
<1>7. Cardinality(Allowed(Earlier(p)')) <= Limit
  <2>1. Earlier(p)' \subseteq Window(p)
    <3> SUFFICES ASSUME NEW c \in Earlier(p)' PROVE c \in Window(p)
      OBVIOUS
    <3>1. c \in CallsOf(p)' /\ c.time < now /\ now < c.time + Minute
      BY <1>1 DEF Earlier
    <3>2. c \in CallsOf(p)
      BY <3>1, <1>1, <1>3, OneCall
    <3>3. now - rates[p].start >= Minute
      BY <3>2 DEF RateInv, WindowOK
    <3>4. c.time >= rates[p].start
      BY <3>1, <3>2, <3>3, <1>1, <1>2, RateAssumption
    <3> QED BY <3>2, <3>4 DEF Window
  <2>2. Window(p) \in SUBSET calls
    BY DEF Window, CallsOf
  <2>3. IsFiniteSet(Window(p))
    BY <2>2, FinitelyMany DEF RateInv, RateTypeOK
  <2> QED BY <2>1, <2>3, AllowedBounded DEF RateInv, WindowOK
<1>8. \A c \in CallsOf(p)' :
         c.time <= now /\ c.time < now + Minute /\ c.nr < Cardinality(CallsOf(p)')
  <2> SUFFICES ASSUME NEW c \in CallsOf(p)'
               PROVE  c.time <= now /\ c.time < now + Minute /\ c.nr < Cardinality(CallsOf(p)')
    OBVIOUS
  <2>1. CASE c = new
    BY <2>1, <1>1, <1>3, OneCall, RateAssumption
  <2>2. CASE c \in CallsOf(p)
    <3>1. c.nr < Cardinality(CallsOf(p))
      BY <2>2 DEF RateInv, WindowOK
    <3> QED BY <2>2, <3>1, <1>1, <1>2, OneCall, RateAssumption
  <2> QED BY <2>1, <2>2, OneCall
<1> QED BY <1>1, <1>5, <1>6, <1>7, <1>8 DEF WindowOK

\* Every other call is one more of the window, and let through while these are as
\* many as the limit.
LEMMA SameWindow ==
  ASSUME RateInv, NEW p \in Peers, AllowPeer(p),
         ~ (rates[p].count = 0 \/ now - rates[p].start >= Minute)
  PROVE  WindowOK(p)'
<1> DEFINE new == NewCall(p)
<1>1. /\ rates[p] \in [start : Nat, count : Nat] /\ now \in Nat /\ now' = now
      /\ rates'[p] = [start |-> rates[p].start, count |-> rates[p].count + 1]
      /\ rates[p].start <= now /\ now < rates[p].start + Minute
  <2>1. rates[p] \in [start : Nat, count : Nat] /\ now \in Nat /\ rates[p].start <= now
    BY DEF RateInv, RateTypeOK, WindowOK
  <2>2. rates'[p] = [rates[p] EXCEPT !.count = @ + 1] /\ now' = now
    BY DEF RateInv, RateTypeOK, AllowPeer, Counted
  <2> QED BY <2>1, <2>2, RateAssumption
<1>2. new.time = now /\ new.nr = Cardinality(CallsOf(p))
  BY DEF NewCall
<1>3. /\ Window(p)' = Window(p) \cup {new}
      /\ Earlier(p)' = Earlier(p)
      /\ new \notin Window(p)
  <2>1. new.time >= rates[p].start /\ ~ (new.time < rates[p].start)
    BY <1>1, <1>2
  <2> QED BY <1>1, <2>1, OneCall DEF Window, Earlier
<1>4. /\ IsFiniteSet(Window(p)) /\ IsFiniteSet(Window(p)')
      /\ Cardinality(Window(p)') = rates[p].count + 1
  <2>1. Window(p) \in SUBSET calls
    BY DEF Window, CallsOf
  <2>2. IsFiniteSet(Window(p)) /\ rates[p].count = Cardinality(Window(p))
    BY <2>1, FinitelyMany DEF RateInv, RateTypeOK, WindowOK
  <2> QED BY <2>2, <1>3, FS_AddElement
<1>5. Cardinality(Allowed(Window(p)')) <= Limit
  <2>1. CASE new.allowed
    <3>1. Allowed(Window(p)') \in SUBSET (Window(p)')
      BY DEF Allowed
    <3>2. /\ Cardinality(Allowed(Window(p)')) <= Cardinality(Window(p)')
          /\ IsFiniteSet(Allowed(Window(p)'))
      BY <3>1, <1>4, FS_Subset
    <3>3. Cardinality(Allowed(Window(p)')) \in Nat
      BY <3>2, FS_CardinalityType
    <3>4. rates'[p].count <= Limit
      BY <2>1 DEF NewCall, Within
    <3>5. rates'[p].count = rates[p].count + 1 /\ rates[p].count + 1 \in Nat
      BY <1>1
    <3>6. Cardinality(Window(p)') <= Limit /\ Cardinality(Window(p)') \in Nat
      BY <3>4, <3>5, <1>4
    <3> QED BY <3>2, <3>3, <3>6, RateAssumption
  <2>2. CASE ~ new.allowed
    <3>1. Allowed(Window(p)') = Allowed(Window(p))
      BY <2>2, <1>3 DEF Allowed
    <3> QED BY <3>1 DEF RateInv, WindowOK
  <2> QED BY <2>1, <2>2
<1>6. \A c \in CallsOf(p)' :
         c.time <= now /\ c.time < rates[p].start + Minute /\ c.nr < Cardinality(CallsOf(p)')
  <2> SUFFICES ASSUME NEW c \in CallsOf(p)'
               PROVE  /\ c.time <= now /\ c.time < rates[p].start + Minute
                      /\ c.nr < Cardinality(CallsOf(p)')
    OBVIOUS
  <2>1. CASE c = new
    BY <2>1, <1>1, <1>2, OneCall
  <2>2. CASE c \in CallsOf(p)
    <3>1. /\ c.time <= now /\ c.time < rates[p].start + Minute
          /\ c.nr < Cardinality(CallsOf(p)) /\ c.nr \in Nat
      BY <2>2 DEF RateInv, RateTypeOK, WindowOK, CallsOf
    <3> QED BY <3>1, OneCall
  <2> QED BY <2>1, <2>2, OneCall
<1>7. Cardinality(Allowed(Earlier(p)')) <= Limit
  BY <1>3 DEF RateInv, WindowOK
<1> QED BY <1>1, <1>4, <1>5, <1>6, <1>7 DEF WindowOK

\* The windows after a step.
LEMMA WindowsKept == RateInv /\ [RateNext]_rateVars => \A p \in Peers : WindowOK(p)'
<1> SUFFICES ASSUME RateInv, [RateNext]_rateVars, NEW p \in Peers PROVE WindowOK(p)'
  OBVIOUS
<1>1. ASSUME NEW q \in Peers, AllowPeer(q) PROVE WindowOK(p)'
  <2>1. CASE q = p
    BY <1>1, <2>1, NewWindow, SameWindow
  <2>2. CASE q # p
    <3>1. CallsOf(p)' = CallsOf(p) /\ rates'[p] = rates[p] /\ now' = now
      BY <1>1, <2>2, OneCall DEF AllowPeer, RateInv, RateTypeOK
    <3>2. Window(p)' = Window(p) /\ Earlier(p)' = Earlier(p)
      BY <3>1 DEF Window, Earlier
    <3> QED BY <3>1, <3>2 DEF RateInv, WindowOK
  <2> QED BY <2>1, <2>2
<1>2. ASSUME UNCHANGED <<rates, calls>>, now' \in Nat, now' >= now PROVE WindowOK(p)'
  <2>1. CallsOf(p)' = CallsOf(p) /\ Window(p)' = Window(p) /\ Earlier(p)' = Earlier(p)
    BY <1>2 DEF CallsOf, Window, Earlier
  <2>2. \A c \in CallsOf(p) : c.time \in Nat /\ c.time <= now
    BY DEF RateInv, RateTypeOK, WindowOK, CallsOf
  <2>3. now \in Nat /\ rates[p].start \in Nat /\ rates[p].start <= now
    BY DEF RateInv, RateTypeOK, WindowOK
  <2>4. \A c \in CallsOf(p)' :
          c.time <= now' /\ c.time < rates'[p].start + Minute /\ c.nr < Cardinality(CallsOf(p)')
    BY <1>2, <2>1, <2>2, <2>3 DEF RateInv, WindowOK
  <2>5. rates'[p].start <= now'
    BY <1>2, <2>3
  <2> QED BY <1>2, <2>1, <2>4, <2>5 DEF RateInv, WindowOK
<1>3. CASE Tick
  BY <1>2, <1>3 DEF Tick, RateInv, RateTypeOK
<1>4. CASE UNCHANGED rateVars
  BY <1>2, <1>4 DEF rateVars, RateInv, RateTypeOK
<1> QED BY <1>1, <1>3, <1>4 DEF RateNext

LEMMA RateTypesKept == RateInv /\ [RateNext]_rateVars => RateTypeOK'
<1> SUFFICES ASSUME RateInv, [RateNext]_rateVars PROVE RateTypeOK'
  OBVIOUS
<1>1. ASSUME NEW p \in Peers, AllowPeer(p) PROVE RateTypeOK'
  <2>1. Counted(rates[p], now, Minute) \in [start : Nat, count : Nat]
    BY DEF Counted, RateInv, RateTypeOK
  <2> QED BY <1>1, <2>1, OneCall DEF AllowPeer, RateInv, RateTypeOK
<1>2. CASE Tick \/ UNCHANGED rateVars
  BY <1>2 DEF Tick, rateVars, RateInv, RateTypeOK
<1> QED BY <1>1, <1>2 DEF RateNext

\* A minute that ends after a window has begun meets that window and what came less
\* than a minute before it, and nothing else.
LEMMA TwoWindows ==
  ASSUME NEW C, IsFiniteSet(C), \A c \in C : c.time \in Nat,
         NEW start \in Nat, NEW t \in Nat, t + Minute > start,
         Cardinality(Allowed({c \in C : c.time >= start})) <= Limit,
         Cardinality(Allowed({c \in C : c.time < start /\ start < c.time + Minute})) <= Limit
  PROVE  Cardinality(Allowed({c \in C : t <= c.time /\ c.time < t + Minute})) <= 2 * Limit
<1> DEFINE one   == Allowed({c \in C : c.time >= start})
           other == Allowed({c \in C : c.time < start /\ start < c.time + Minute})
           met   == Allowed({c \in C : t <= c.time /\ c.time < t + Minute})
<1>1. met \subseteq one \cup other
  <2> SUFFICES ASSUME NEW c \in C, t <= c.time
               PROVE  c.time >= start \/ (c.time < start /\ start < c.time + Minute)
    BY DEF Allowed
  <2> QED BY RateAssumption
<1>2. one \in SUBSET C /\ other \in SUBSET C
  BY DEF Allowed
<1>3. \A S \in SUBSET C : IsFiniteSet(S) /\ Cardinality(S) \in Nat
  BY FS_Subset, FS_CardinalityType
<1>4. /\ one \cap other \in SUBSET C /\ one \cup other \in SUBSET C /\ met \in SUBSET C
      /\ met \in SUBSET (one \cup other)
  BY <1>1, <1>2
<1> HIDE DEF one, other, met
<1>5. Cardinality(one \cup other) = Cardinality(one) + Cardinality(other) - Cardinality(one \cap other)
  BY <1>2, <1>3, FS_Union
<1>6. Cardinality(met) <= Cardinality(one \cup other)
  BY <1>3, <1>4, FS_Subset
<1>7. Cardinality(one) <= Limit /\ Cardinality(other) <= Limit
  BY DEF one, other
<1>8. /\ Cardinality(one) \in Nat /\ Cardinality(other) \in Nat /\ Cardinality(met) \in Nat
      /\ Cardinality(one \cap other) \in Nat /\ Cardinality(one \cup other) \in Nat
  BY <1>2, <1>3, <1>4
<1>9. Cardinality(met) <= 2 * Limit
  BY <1>5, <1>6, <1>7, <1>8, RateAssumption
<1> QED BY <1>9 DEF met

\* Calls come at the end: a minute that ended before the window began stays as it is.
LEMMA TwiceKept ==
  ASSUME RateInv, [RateNext]_rateVars, RateTypeOK', \A p \in Peers : WindowOK(p)'
  PROVE  TwiceTheLimitEver'
<1> SUFFICES ASSUME NEW p \in Peers, NEW t \in Nat
             PROVE  Cardinality(Allowed(InMinuteFrom(p, t))') <= 2 * Limit
  BY DEF TwiceTheLimitEver
<1>1. CASE t + Minute > rates'[p].start
  <2>1. CallsOf(p)' \in SUBSET (calls') /\ IsFiniteSet(calls')
    BY DEF CallsOf, RateTypeOK
  <2>2. IsFiniteSet(CallsOf(p)')
    BY <2>1, FS_Subset
  <2>3. rates'[p].start \in Nat /\ \A c \in CallsOf(p)' : c.time \in Nat
    BY <2>1 DEF RateTypeOK
  <2>4. /\ Cardinality(Allowed({c \in CallsOf(p)' : c.time >= rates'[p].start})) <= Limit
        /\ Cardinality(Allowed({c \in CallsOf(p)' :
              c.time < rates'[p].start /\ rates'[p].start < c.time + Minute})) <= Limit
    BY DEF WindowOK, Window, Earlier
  <2>5. Cardinality(Allowed({c \in CallsOf(p)' : t <= c.time /\ c.time < t + Minute})) <= 2 * Limit
    BY <1>1, <2>2, <2>3, <2>4, TwoWindows
  <2> QED BY <2>5 DEF InMinuteFrom
<1>2. CASE ~ (t + Minute > rates'[p].start)
  <2>1. InMinuteFrom(p, t)' = InMinuteFrom(p, t)
    <3>1. ASSUME NEW q \in Peers, AllowPeer(q) PROVE InMinuteFrom(p, t)' = InMinuteFrom(p, t)
      <4>1. CASE q = p
        <5>1. NewCall(p).time = now /\ now' = now
          BY <3>1 DEF NewCall, AllowPeer
        <5>2. rates'[p].start <= now /\ rates'[p].start \in Nat /\ now \in Nat
          BY <5>1 DEF WindowOK, RateTypeOK
        <5>3. ~ (now < t + Minute)
          BY <5>2, <1>2, RateAssumption
        <5>4. CallsOf(p)' = CallsOf(p) \cup {NewCall(p)}
          BY <3>1, <4>1, OneCall
        <5> QED BY <5>1, <5>3, <5>4 DEF InMinuteFrom
      <4>2. CASE q # p
        <5>1. CallsOf(p)' = CallsOf(p)
          BY <3>1, <4>2, OneCall
        <5> QED BY <5>1 DEF InMinuteFrom
      <4> QED BY <4>1, <4>2
    <3>2. CASE Tick \/ UNCHANGED rateVars
      BY <3>2 DEF Tick, rateVars, InMinuteFrom, CallsOf
    <3> QED BY <3>1, <3>2 DEF RateNext
  <2> QED BY <2>1 DEF RateInv, TwiceTheLimitEver, Allowed
<1> QED BY <1>1, <1>2

\* A call is refused when the calls before it in its window are as many as the limit.
LEMMA RefusedKept ==
  ASSUME RateInv, [RateNext]_rateVars, \A p \in Peers : WindowOK(p)'
  PROVE  RefusedForCause'
<1> DEFINE Before(c) == {d \in CallsOf(c.peer) : d.nr < c.nr /\ c.time < d.time + Minute}
<1>1. ASSUME NEW p \in Peers, AllowPeer(p), NEW c \in calls', ~ c.allowed
      PROVE  Cardinality(Before(c)') >= Limit
  <2>1. \A d : Cardinality(Before(d)) \in Nat /\ IsFiniteSet(Before(d))
    BY FinitelyMany DEF RateInv, RateTypeOK, CallsOf
  <2>2. CASE c \in calls
    <3>1. c.peer \in Peers /\ c \in CallsOf(c.peer) /\ c.nr \in Nat
      BY <2>2 DEF CallsOf, RateInv, RateTypeOK
    <3>2. Before(c)' = Before(c)
      <4>1. CASE c.peer # p
        BY <1>1, <3>1, <4>1, OneCall
      <4>2. CASE c.peer = p
        <5>1. c.nr < Cardinality(CallsOf(p)) /\ NewCall(p).nr = Cardinality(CallsOf(p))
          BY <3>1, <4>2 DEF RateInv, WindowOK, NewCall
        <5>2. ~ (NewCall(p).nr < c.nr)
          BY <1>1, <3>1, <5>1, OneCall
        <5> QED BY <1>1, <4>2, <5>2, OneCall
      <4> QED BY <4>1, <4>2
    <3> QED BY <2>2, <1>1, <3>2 DEF RateInv, RefusedForCause
  <2>3. CASE c = NewCall(p)
    <3>1. /\ c.peer = p /\ c.time = now /\ c.nr = Cardinality(CallsOf(p))
          /\ ~ (rates'[p].count <= Limit)
      BY <1>1, <2>3 DEF NewCall, Within
    <3>2. ~ (rates[p].count = 0 \/ now - rates[p].start >= Minute)
      BY <1>1, <3>1, RateAssumption DEF AllowPeer, Counted, RateInv, RateTypeOK
    <3>3. /\ rates'[p].count = rates[p].count + 1 /\ rates[p].count \in Nat
          /\ now \in Nat /\ rates[p].start \in Nat
      BY <1>1, <3>2 DEF AllowPeer, Counted, RateInv, RateTypeOK
    <3>4. rates[p].count >= Limit
      BY <3>1, <3>3, RateAssumption
    <3>5. Window(p) \subseteq Before(c)'
      <4> SUFFICES ASSUME NEW d \in Window(p) PROVE d \in Before(c)'
        OBVIOUS
      <4>1. d \in CallsOf(p) /\ d.time >= rates[p].start /\ d.time \in Nat
        BY DEF Window, CallsOf, RateInv, RateTypeOK
      <4>2. d.nr < c.nr
        BY <3>1, <4>1 DEF RateInv, WindowOK
      <4>3. c.time < d.time + Minute
        BY <3>1, <3>2, <3>3, <4>1, RateAssumption
      <4>4. d \in CallsOf(p)'
        BY <1>1, <4>1, OneCall
      <4> QED BY <3>1, <4>2, <4>3, <4>4
    <3>6. IsFiniteSet(Before(c)')
      <4>1. Before(c)' \in SUBSET (calls')
        BY DEF CallsOf
      <4> QED BY <1>1, <4>1, OneCall, FS_Subset
    <3>7. /\ Cardinality(Window(p)) <= Cardinality(Before(c)')
          /\ Cardinality(Before(c)') \in Nat
      BY <3>5, <3>6, FS_Subset, FS_CardinalityType
    <3> QED BY <3>3, <3>4, <3>7, RateAssumption DEF RateInv, WindowOK
  <2> QED BY <1>1, <2>2, <2>3, OneCall
<1>2. CASE Tick \/ UNCHANGED rateVars
  BY <1>2 DEF Tick, rateVars, RateInv, RefusedForCause, CallsOf
<1>3. CASE \E p \in Peers : AllowPeer(p)
  BY <1>1, <1>3 DEF RefusedForCause
<1> QED BY <1>2, <1>3 DEF RateNext

LEMMA RateStarts == RateInit => RateInv
<1> SUFFICES ASSUME RateInit PROVE RateInv
  OBVIOUS
<1>1. calls = {} /\ now = 0 /\ \A p \in Peers : rates[p] = [start |-> 0, count |-> 0]
  BY DEF RateInit, NoRate
<1>2. RateTypeOK
  BY <1>1, FS_EmptySet DEF RateInit, RateTypeOK, NoRate
<1>3. \A p \in Peers, t \in Nat :
        CallsOf(p) = {} /\ Allowed(Window(p)) = {} /\ Allowed(Earlier(p)) = {}
          /\ Allowed(InMinuteFrom(p, t)) = {} /\ Window(p) = {}
  BY <1>1 DEF CallsOf, Allowed, Window, Earlier, InMinuteFrom
<1>4. \A p \in Peers : WindowOK(p)
  <2> SUFFICES ASSUME NEW p \in Peers PROVE WindowOK(p)
    OBVIOUS
  <2>1. CallsOf(p) = {} /\ Allowed(Window(p)) = {} /\ Allowed(Earlier(p)) = {} /\ Window(p) = {}
    BY <1>3
  <2>2. Cardinality(Window(p)) = 0 /\ Cardinality(Allowed(Window(p))) = 0
          /\ Cardinality(Allowed(Earlier(p))) = 0
    BY <2>1, FS_EmptySet
  <2> QED BY <1>1, <2>1, <2>2, RateAssumption DEF WindowOK
<1>5. TwiceTheLimitEver
  BY <1>3, FS_EmptySet, RateAssumption DEF TwiceTheLimitEver
<1>6. RefusedForCause
  BY <1>1 DEF RefusedForCause
<1> QED BY <1>2, <1>4, <1>5, <1>6 DEF RateInv

LEMMA RateInvKept == RateInv /\ [RateNext]_rateVars => RateInv'
  BY RateTypesKept, WindowsKept, TwiceKept, RefusedKept DEF RateInv

\* Whenever a minute starts, AllowPeer lets no more than twice the limit of a peer's
\* envelopes through in it: a minute meets two of its windows at most.
THEOREM TwiceTheLimit == RateSpec => []TwiceTheLimitAtMost
<1>1. RateInv => TwiceTheLimitAtMost
  BY RateAssumption DEF RateInv, TwiceTheLimitEver, TwiceTheLimitAtMost
<1> QED BY <1>1, RateStarts, RateInvKept, PTL DEF RateSpec

\* AllowPeer refuses a call only when the peer made as many calls as the limit in
\* the minute before it.
THEOREM RefusalsHaveCause == RateSpec => []RefusedForCause
<1>1. RateInv => RefusedForCause
  BY DEF RateInv
<1> QED BY <1>1, RateStarts, RateInvKept, PTL DEF RateSpec

(***************************************************************************)
(* The form of what is admitted.                                           *)
(***************************************************************************)
IsEnvelope(env) ==
  /\ env = [field \in DOMAIN env |-> env[field]]
  /\ {"sig", "topics", "origin", "publisher"} \subseteq DOMAIN env

\* What may come in the place of what was sent.
MayCome(env) ==
  \/ env = sent
  \/ \E f, g \in DOMAIN Alternatives :
       \E v \in Alternatives[f], w \in Alternatives[g] :
         \/ env = [sent EXCEPT ![f] = v, ![g] = w]
         \/ env = Signed([sent EXCEPT ![f] = v, ![g] = w], OtherPeer)

WireInv ==
  /\ request \in Requests
  /\ policy \in {Normalize(p) : p \in Policies}
  /\ sent # None => sent = Signed(EnvelopeOf(request), Publisher)
  /\ sent # None => ValidSigned(sent) /\ Enforced(policy, sent)
  /\ copy # None => sent # None /\ MayCome(copy)

LEMMA WireInvInductive == (Init => WireInv) /\ (WireInv /\ [Next]_vars => WireInv')
<1>1. Init => WireInv
  BY DEF Init, WireInv
<1>2. ASSUME WireInv, [Next]_vars PROVE WireInv'
  <2>1. CASE Publish
    <3>1. /\ request' = request /\ policy' = policy /\ copy' = copy /\ sent = None
          /\ sent' = Signed(EnvelopeOf(request), Publisher)
          /\ ValidSigned(sent') /\ Enforced(policy, sent')
      BY <2>1 DEF Publish, Checks
    <3>2. EnvelopeOf(request)' = EnvelopeOf(request)
      BY <3>1 DEF EnvelopeOf
    <3>3. copy = None
      BY <1>2, <3>1 DEF WireInv
    <3> QED BY <1>2, <3>1, <3>2, <3>3 DEF WireInv
  <2>2. ASSUME NEW env, Arrive(env), MayCome(env) PROVE WireInv'
    <3>1. /\ request' = request /\ policy' = policy /\ sent' = sent /\ copy' = env /\ sent # None
      BY <2>2 DEF Arrive
    <3>2. EnvelopeOf(request)' = EnvelopeOf(request)
      BY <3>1 DEF EnvelopeOf
    <3>3. MayCome(copy)'
      <4>1. CASE env = sent
        BY <3>1, <4>1 DEF MayCome
      <4>2. CASE env # sent
        <5>1. PICK f \in DOMAIN Alternatives, g \in DOMAIN Alternatives :
                \E v \in Alternatives[f], w \in Alternatives[g] :
                  \/ env = [sent EXCEPT ![f] = v, ![g] = w]
                  \/ env = Signed([sent EXCEPT ![f] = v, ![g] = w], OtherPeer)
          BY <2>2, <4>2 DEF MayCome
        <5>2. PICK v \in Alternatives[f], w \in Alternatives[g] :
                \/ env = [sent EXCEPT ![f] = v, ![g] = w]
                \/ env = Signed([sent EXCEPT ![f] = v, ![g] = w], OtherPeer)
          BY <5>1
        <5>3. \/ copy' = [sent' EXCEPT ![f] = v, ![g] = w]
              \/ copy' = Signed([sent' EXCEPT ![f] = v, ![g] = w], OtherPeer)
          BY <3>1, <5>2
        <5> QED BY <5>3 DEF MayCome
      <4> QED BY <4>1, <4>2
    <3> QED BY <1>2, <3>1, <3>2, <3>3 DEF WireInv
  <2>3. CASE UNCHANGED vars
    <3>1. request' = request /\ policy' = policy /\ sent' = sent /\ copy' = copy
      BY <2>3 DEF vars
    <3>2. EnvelopeOf(request)' = EnvelopeOf(request)
      BY <3>1 DEF EnvelopeOf
    <3>3. MayCome(copy)' <=> MayCome(copy)
      BY <3>1 DEF MayCome
    <3> QED BY <1>2, <3>1, <3>2, <3>3 DEF WireInv
  <2> QED BY <1>2, <2>1, <2>2, <2>3 DEF Next, MayCome
<1> QED BY <1>1, <1>2

\* A signature is not part of what is signed.
LEMMA SignedSays ==
  ASSUME NEW env, NEW key, IsEnvelope(env)
  PROVE  /\ Signed(env, key).sig = <<key, Canonical(env)>>
         /\ Canonical(Signed(env, key)) = Canonical(env)
         /\ DOMAIN Signed(env, key) = DOMAIN env
         /\ \A field \in DOMAIN env \ {"sig"} : Signed(env, key)[field] = env[field]
         /\ IsEnvelope(Signed(env, key))
  BY DEF Signed, Canonical, IsEnvelope

\* Two envelopes with one canonical form differ in blanks, spaces and signatures.
LEMMA SameCanonical ==
  ASSUME NEW a, NEW b, IsEnvelope(a), IsEnvelope(b), DOMAIN a = DOMAIN b, Canonical(a) = Canonical(b)
  PROVE  /\ \A field \in DOMAIN a \ {"topics", "sig"} : a[field] = b[field]
         /\ Named(a.topics) = Named(b.topics)
<1>1. ASSUME NEW env, IsEnvelope(env)
      PROVE  /\ \A field \in DOMAIN env \ {"topics", "sig"} : Canonical(env)[field] = env[field]
             /\ Canonical(env)["topics"] = Named(env.topics)
  BY <1>1 DEF Canonical, IsEnvelope
<1>2. Canonical(a)["topics"] = Named(a.topics) /\ Canonical(b)["topics"] = Named(b.topics)
  BY <1>1
<1> QED BY <1>1, <1>2

\* What went out is signed by its publisher.
LEMMA SentIsSigned ==
  ASSUME WireInv, sent # None
  PROVE  IsEnvelope(sent) /\ sent.sig = <<Publisher, Canonical(sent)>>
<1>1. IsEnvelope(EnvelopeOf(request))
  BY DEF IsEnvelope, EnvelopeOf
<1> QED BY <1>1, SignedSays DEF WireInv

\* Other values leave an envelope with its fields.
LEMMA AlteredIsEnvelope ==
  ASSUME WireInv, sent # None, NEW f, NEW g, NEW v, NEW w
  PROVE  /\ IsEnvelope([sent EXCEPT ![f] = v, ![g] = w])
         /\ DOMAIN [sent EXCEPT ![f] = v, ![g] = w] = DOMAIN sent
  BY SentIsSigned DEF IsEnvelope

\* An envelope about an object of the publisher's that verifies is signed with the
\* publisher's key (VerifyPublisher compares the key's name with the origin).
LEMMA OriginSigns ==
  ASSUME NEW env, env.origin = DID(Publisher), NEW p, Admits(p, env)
  PROVE  env.publisher = Publisher /\ env.sig = <<Publisher, Canonical(env)>> /\ env.sig # Missing
  BY DEF Admits, Enforced, Verified, ValidSigned, DID

\* What a node admits in the name of a publisher is, in every field that it acts
\* on, what the publisher signed, whatever was changed on the way and whoever
\* signed it then (VerifyPublisher and canonical of internal/sae/envelope.go).
THEOREM SignatureCovers == Spec => []AdmittedIsAsSigned
<1>1. WireInv => AdmittedIsAsSigned
  <2> SUFFICES ASSUME WireInv, copy # None, copy.origin = DID(Publisher),
                      NEW p \in Policies, Admits(Normalize(p), copy)
               PROVE  /\ \A field \in DOMAIN sent \ {"topics"} : copy[field] = sent[field]
                      /\ Named(copy.topics) = Named(sent.topics)
    BY DEF AdmittedIsAsSigned
  <2>1. sent # None /\ MayCome(copy)
    BY DEF WireInv
  <2>2. /\ copy.publisher = Publisher /\ copy.sig # Missing
        /\ copy.sig = <<Publisher, Canonical(copy)>>
    BY OriginSigns
  <2>3. CASE copy = sent
    BY <2>3
  <2>4. ASSUME NEW f \in DOMAIN Alternatives, NEW g \in DOMAIN Alternatives,
               NEW v \in Alternatives[f], NEW w \in Alternatives[g],
               copy = [sent EXCEPT ![f] = v, ![g] = w]
        PROVE  /\ \A field \in DOMAIN sent \ {"topics"} : copy[field] = sent[field]
               /\ Named(copy.topics) = Named(sent.topics)
    <3>1. IsEnvelope(sent) /\ IsEnvelope(copy) /\ DOMAIN copy = DOMAIN sent
      BY <2>1, <2>4, SentIsSigned, AlteredIsEnvelope
    <3>2. copy.sig = sent.sig
      <4>1. copy.sig = IF g = "sig" THEN w ELSE IF f = "sig" THEN v ELSE sent.sig
        BY <2>4, <3>1 DEF IsEnvelope
      <4>2. g # "sig" /\ f # "sig"
        BY <2>2, <2>4, <4>1, WireAssumption
      <4> QED BY <4>1, <4>2
    <3>3. Canonical(copy) = Canonical(sent)
      BY <2>1, <2>2, <3>2, SentIsSigned
    <3> QED BY <3>1, <3>2, <3>3, SameCanonical
  <2>5. ASSUME NEW f, NEW g, NEW v, NEW w,
               copy = Signed([sent EXCEPT ![f] = v, ![g] = w], OtherPeer)
        PROVE  FALSE
    <3> DEFINE altered == [sent EXCEPT ![f] = v, ![g] = w]
    <3>1. IsEnvelope(altered)
      BY <2>1, AlteredIsEnvelope
    <3>2. copy = Signed(altered, OtherPeer)
      BY <2>5
    <3> HIDE DEF altered
    <3>3. copy.sig = <<OtherPeer, Canonical(altered)>>
      BY <3>1, <3>2, SignedSays
    <3>4. Publisher # OtherPeer
      BY WireAssumption
    <3> QED BY <2>2, <3>3, <3>4
  <2> QED BY <2>1, <2>3, <2>4, <2>5 DEF MayCome
<1> QED BY <1>1, WireInvInductive, PTL DEF Spec

LEMMA WireNumbers ==
  /\ Second \in Nat \ {0} /\ Half \in Nat \ {0} /\ DefaultTTL \in Nat \ {0} /\ Now \in Nat \ {0}
  /\ DefaultTTL < Half
  BY WireAssumption

\* What wrapping does in any width: it stays in the range of the type, and leaves
\* what is in it as it is.
LEMMA WrappedIs ==
  ASSUME NEW n \in Int
  PROVE  Wrapped(n) \in Int /\ Wrapped(n) < Half /\ (n \in 0 .. Half - 1 => Wrapped(n) = n)
<1> DEFINE width == 2 * Half
<1>1. Half \in Nat /\ width \in Nat \ {0}
  BY WireNumbers
<1>2. (n + Half) % width \in 0 .. width - 1
  BY <1>1
<1>3. \A m \in 0 .. width - 1 : m % width = m
  BY <1>1
<1>4. n \in 0 .. Half - 1 => n + Half \in 0 .. width - 1
  BY <1>1
<1>5. Wrapped(n) = ((n + Half) % width) - Half
  BY DEF Wrapped
<1> HIDE DEF width
<1>6. n \in 0 .. Half - 1 => Wrapped(n) = n
  BY <1>1, <1>3, <1>4, <1>5
<1>7. width = 2 * Half
  BY DEF width
<1> QED BY <1>1, <1>2, <1>5, <1>6, <1>7

\* Whatever time to live is asked for, and in words of whatever width, the
\* envelope's is no longer: an overflow only shortens it (ttlDuration, NewTaskSAE,
\* NewAgentFactSAE).
THEOREM OverflowOnlyShortens == Spec => []NeverOutlivesRequest
<1>1. WireInv => NeverOutlivesRequest
  <2> SUFFICES ASSUME WireInv, sent # None, request.ttl_sec > 0
               PROVE  LET asked == request.ttl_sec * Second
                          life  == sent.expires_at - Now
                      IN  0 < life /\ life <= asked /\ (asked < Half => life = asked)
    BY DEF NeverOutlivesRequest, Out
  <2>1. PICK asked \in Nat \ {0} : asked = request.ttl_sec * Second
    <3>1. request.ttl_sec \in Nat \ {0} /\ Second \in Nat \ {0}
      BY WireNumbers, WireAssumption DEF WireInv
    <3>2. \A m, n \in Nat \ {0} : m * n \in Nat \ {0}
      OBVIOUS
    <3> QED BY <3>1, <3>2
  <2>2. PICK product \in Int : /\ product = Wrapped(asked)
                               /\ product < Half
                               /\ asked < Half => product = asked
    <3>1. asked \in Int /\ (asked < Half => asked \in 0 .. Half - 1)
      BY WireNumbers
    <3> QED BY <3>1, WrappedIs
  <2>3. PICK life \in Int : life = IF product <= 0 THEN DefaultTTL ELSE product
    BY WireNumbers
  <2>4. 0 < life /\ life <= asked /\ (asked < Half => life = asked)
    BY <2>1, <2>2, <2>3, WireNumbers
  <2>5. Lifetime(Duration(request.ttl_sec)) = life
    <3>1. request.ttl_sec \in Int /\ ~ (request.ttl_sec <= 0)
      BY WireAssumption DEF WireInv
    <3>2. Duration(request.ttl_sec) = Wrapped(asked)
      BY <2>1, <3>1, Zenon DEF Duration
    <3>3. Lifetime(product) = life
      BY <2>3 DEF Lifetime
    <3> QED BY <2>2, <3>2, <3>3
  <2>6. sent.expires_at = EnvelopeOf(request).expires_at
    BY SignedSays DEF WireInv, IsEnvelope, EnvelopeOf
  <2>7. sent.expires_at - Now = life
    <3>1. sent.expires_at = Now + life
      BY <2>5, <2>6 DEF EnvelopeOf
    <3> QED BY <3>1, WireNumbers
  <2> QED BY <2>1, <2>4, <2>7
<1> QED BY <1>1, WireInvInductive, PTL DEF Spec

(***************************************************************************)
(* Lists, however long.  What a fold computes is shown by induction, from  *)
(* the naturals being well-founded: a set of numbers that is not empty has *)
(* a least one, so that what holds of 0 and is handed on holds of all.     *)
(***************************************************************************)
\* A set of naturals that is not empty has a least one.
LEMMA LeastNatural ==
  ASSUME NEW S \in SUBSET Nat, S # {}
  PROVE  \E x \in S : \A y \in S : x <= y
<1> DEFINE R == OpToRel(<, Nat)
<1>1. IsWellFoundedOn(OpToRel(<, Nat), Nat)
  BY NatLessThanWellFounded
<1>2. \A x, y \in Nat : <<y, x>> \in R <=> y < x
  BY DEF OpToRel
<1> HIDE DEF R
<1>3. IsWellFoundedOn(R, Nat)
  BY <1>1 DEF R
<1>4. PICK x \in S : \A y \in S : ~ (<<y, x>> \in R)
  BY <1>3, WFMin
<1>5. \A y \in S : y \in Nat /\ ~ (y < x) /\ x \in Nat
  BY <1>2, <1>4
<1> QED BY <1>5

\* Induction up to a bound, on the set of the numbers that a formula holds of.
LEMMA UpTo ==
  ASSUME NEW N \in Nat, NEW S, 0 \in S, \A n \in 0 .. N - 1 : n \in S => n + 1 \in S
  PROVE  \A n \in 0 .. N : n \in S
<1> DEFINE rest == (0 .. N) \ S
<1> SUFFICES ASSUME rest # {} PROVE FALSE
  OBVIOUS
<1>1. rest \in SUBSET Nat
  OBVIOUS
<1>2. PICK n \in rest : \A m \in rest : n <= m
  BY <1>1, LeastNatural
<1>3. n # 0 /\ n - 1 \in 0 .. N - 1
  OBVIOUS
<1>4. n - 1 \in S
  BY <1>2, <1>3
<1> QED BY <1>3, <1>4

\* The greatest of some numbers.
LEMMA MaxIs ==
  ASSUME NEW m \in Int, NEW s \in SUBSET Int, m \in s, \A n \in s : n <= m
  PROVE  Max(s) = m
<1>1. m \in s /\ \A y \in s : m >= y
  OBVIOUS
<1>2. Max(s) \in s /\ \A y \in s : Max(s) >= y
  BY <1>1, Zenon DEF Max
<1>3. Max(s) >= m /\ m >= Max(s) /\ Max(s) \in Int
  BY <1>1, <1>2
<1> QED BY <1>3

\* A function on the sets of some places that takes a step from what it gives for
\* all of them but the last to what it gives for all of them.
FoldsPlaces(iter, V, base, N, step) ==
  /\ iter \in [SUBSET (1 .. N) -> V]
  /\ iter[{}] = base
  /\ \A s \in SUBSET (1 .. N) : s # {} => iter[s] = step[<<iter[s \ {Max(s)}], Max(s)>>]

\* A fold is the value that a function on the sets of places has for the set of
\* all places: there is such a function.
LEMMA FoldExists ==
  ASSUME NEW V, NEW base \in V, NEW N \in Nat, NEW step \in [V \X (1 .. N) -> V]
  PROVE  \E iter : FoldsPlaces(iter, V, base, N, step)
<1> DEFINE Folds(n, iter) == FoldsPlaces(iter, V, base, n, step)
           Done == {n \in Nat : \E iter : Folds(n, iter)}
<1>1. 0 \in Done
  <2>1. SUBSET (1 .. 0) = {{}}
    OBVIOUS
  <2>2. Folds(0, [s \in SUBSET (1 .. 0) |-> base])
    BY <2>1 DEF FoldsPlaces
  <2> QED BY <2>2
<1>2. ASSUME NEW n \in 0 .. N - 1, n \in Done PROVE n + 1 \in Done
  <2>1. PICK f : Folds(n, f)
    BY <1>2
  <2> DEFINE g == [s \in SUBSET (1 .. n + 1) |->
                     IF n + 1 \in s THEN step[<<f[s \ {n + 1}], n + 1>>] ELSE f[s]]
  <2>2. \A s \in SUBSET (1 .. n + 1) :
          /\ s \ {n + 1} \in SUBSET (1 .. n)
          /\ n + 1 \notin s => s \in SUBSET (1 .. n)
    OBVIOUS
  <2>3. /\ n \in Nat /\ n + 1 \in 1 .. N /\ 1 .. n \subseteq 1 .. n + 1 /\ n + 1 \notin 1 .. n
        /\ \A s \in SUBSET (1 .. n) : s \in SUBSET (1 .. n + 1) /\ n + 1 \notin s
    OBVIOUS
  <2>4. \A s \in SUBSET (1 .. n + 1) : n + 1 \in s => Max(s) = n + 1
    <3> SUFFICES ASSUME NEW s \in SUBSET (1 .. n + 1), n + 1 \in s PROVE Max(s) = n + 1
      OBVIOUS
    <3>1. s \in SUBSET Int /\ n + 1 \in Int /\ \A m \in s : m <= n + 1
      OBVIOUS
    <3> QED BY <3>1, MaxIs
  <2>5. n + 1 \in 1 .. N /\ \A s \in SUBSET (1 .. n) : f[s] \in V
    BY <2>1 DEF FoldsPlaces
  <2>6. g \in [SUBSET (1 .. n + 1) -> V]
    <3> SUFFICES ASSUME NEW s \in SUBSET (1 .. n + 1) PROVE g[s] \in V
      OBVIOUS
    <3>1. CASE n + 1 \in s
      <4>1. <<f[s \ {n + 1}], n + 1>> \in V \X (1 .. N)
        BY <2>2, <2>5
      <4> QED BY <3>1, <4>1
    <3>2. CASE n + 1 \notin s
      BY <2>2, <2>5, <3>2
    <3> QED BY <3>1, <3>2
  <2>7. \A s \in SUBSET (1 .. n) : g[s] = f[s]
    BY <2>3
  <2>8. ASSUME NEW s \in SUBSET (1 .. n + 1), s # {}
        PROVE  g[s] = step[<<g[s \ {Max(s)}], Max(s)>>]
    <3>1. CASE n + 1 \in s
      <4>1. Max(s) = n + 1 /\ g[s \ {n + 1}] = f[s \ {n + 1}]
        BY <2>2, <2>4, <2>7, <3>1
      <4> QED BY <3>1, <4>1
    <3>2. CASE n + 1 \notin s
      <4>1. s \in SUBSET (1 .. n) /\ s \ {Max(s)} \in SUBSET (1 .. n)
        BY <2>2, <3>2
      <4>2. g[s] = f[s] /\ g[s \ {Max(s)}] = f[s \ {Max(s)}]
        BY <2>7, <4>1
      <4>3. f[s] = step[<<f[s \ {Max(s)}], Max(s)>>]
        BY <2>1, <2>8, <4>1 DEF FoldsPlaces
      <4> QED BY <4>2, <4>3
    <3> QED BY <3>1, <3>2
  <2>9. g[{}] = base
    BY <2>1, <2>7 DEF FoldsPlaces
  <2> HIDE DEF g
  <2>10. Folds(n + 1, g)
    BY <2>6, <2>8, <2>9, Zenon DEF FoldsPlaces
  <2>11. n + 1 \in Nat
    BY <2>3
  <2> QED BY <2>10, <2>11, Zenon
<1> HIDE DEF Done
<1>3. \A n \in 0 .. N : n \in Done
  BY <1>1, <1>2, UpTo
<1>4. N \in Done
  BY <1>3
<1> QED BY <1>4, Zenon DEF Done

\* The greatest of some places is one of them.
LEMMA MaxWithin ==
  ASSUME NEW N \in Nat, NEW s \in SUBSET (1 .. N), s # {}
  PROVE  Max(s) \in s /\ Max(s) \in 1 .. N /\ s \ {Max(s)} \in SUBSET (1 .. N)
<1> DEFINE below == {N - n : n \in s}
<1>1. below \in SUBSET Nat /\ below # {}
  <2>1. \A n \in s : N - n \in Nat
    OBVIOUS
  <2> QED BY <2>1
<1>2. PICK least \in below : \A n \in below : least <= n
  BY <1>1, LeastNatural
<1>3. PICK m \in s : least = N - m
  OBVIOUS
<1>4. ASSUME NEW n \in s PROVE n <= m
  <2>1. N - n \in below
    OBVIOUS
  <2>2. N - m <= N - n
    BY <1>2, <1>3, <2>1
  <2> QED BY <2>2
<1>5. s \in SUBSET Int /\ m \in Int
  OBVIOUS
<1>6. Max(s) = m
  BY <1>4, <1>5, MaxIs
<1> QED BY <1>6

\* A function on the sets of the first places that starts at a value and takes a
\* step, from values to values, from one place to the next.
StepsThrough(iter, V, base, N, step) ==
  /\ base \in V /\ step \in [V \X (1 .. N) -> V]
  /\ iter[{}] = base
  /\ \A n \in 1 .. N : iter[1 .. n - 1] \in V => iter[1 .. n] = step[<<iter[1 .. n - 1], n>>]

\* A run of N steps.
RunsSteps(out, V, base, N, step) ==
  /\ out \in [0 .. N -> V]
  /\ out[0] = base
  /\ \A n \in 1 .. N : out[n] = step[<<out[n - 1], n>>]

\* What such a function gives for the first places, one after the other.
LEMMA FoldSteps ==
  ASSUME NEW V, NEW base, NEW N \in Nat, NEW step, NEW iter,
         StepsThrough(iter, V, base, N, step)
  PROVE  \E out : RunsSteps(out, V, base, N, step) /\ out[N] = iter[1 .. N]
<1> DEFINE out == [n \in 0 .. N |-> iter[1 .. n]]
           Typed == {n \in 0 .. N : iter[1 .. n] \in V}
<1>0. base \in V /\ step \in [V \X (1 .. N) -> V]
  BY DEF StepsThrough
<1>1. 0 \in Typed
  <2>1. 1 .. 0 = {}
    OBVIOUS
  <2> QED BY <1>0, <2>1 DEF StepsThrough
<1>2. ASSUME NEW n \in 0 .. N - 1, n \in Typed PROVE n + 1 \in Typed
  <2>1. n + 1 \in 1 .. N /\ n + 1 \in 0 .. N /\ (n + 1) - 1 = n
    OBVIOUS
  <2>2. iter[1 .. n] \in V
    BY <1>2
  <2>3. iter[1 .. n + 1] = step[<<iter[1 .. n], n + 1>>]
    BY <2>1, <2>2 DEF StepsThrough
  <2>4. <<iter[1 .. n], n + 1>> \in V \X (1 .. N)
    BY <2>1, <2>2
  <2> QED BY <1>0, <2>1, <2>3, <2>4
<1> HIDE DEF Typed
<1>3. \A n \in 0 .. N : n \in Typed
  BY <1>1, <1>2, UpTo
<1>4. \A n \in 0 .. N : iter[1 .. n] \in V
  BY <1>3 DEF Typed
<1>5. out \in [0 .. N -> V]
  BY <1>4
<1>6. out[0] = base
  <2>1. 1 .. 0 = {} /\ 0 \in 0 .. N
    OBVIOUS
  <2> QED BY <2>1 DEF StepsThrough
<1>7. ASSUME NEW n \in 1 .. N PROVE out[n] = step[<<out[n - 1], n>>]
  <2>1. n \in 0 .. N /\ n - 1 \in 0 .. N
    OBVIOUS
  <2> QED BY <1>4, <2>1 DEF StepsThrough
<1>8. out[N] = iter[1 .. N]
  OBVIOUS
<1> HIDE DEF out
<1> QED BY <1>5, <1>6, <1>7, <1>8 DEF RunsSteps

\* The first places, of which the last is the greatest.
LEMMA FirstPlaces ==
  ASSUME NEW N \in Nat, NEW n \in 1 .. N
  PROVE  /\ 1 .. n \in SUBSET (1 .. N) /\ 1 .. n # {}
         /\ Max(1 .. n) = n
         /\ (1 .. n) \ {n} = 1 .. n - 1
<1>1. 1 .. n \in SUBSET Int /\ n \in Int /\ n \in 1 .. n /\ \A m \in 1 .. n : m <= n
  OBVIOUS
<1>2. Max(1 .. n) = n
  BY <1>1, MaxIs
<1> QED BY <1>2

(***************************************************************************)
(* The topics of an envelope.                                              *)
(***************************************************************************)
\* One step of FirstTopics.
Taken(out, topic, limit) ==
  IF topic.path = <<>> \/ Contains(out, Plain(topic.path)) \/ Len(out) >= limit
    THEN out
    ELSE Append(out, Plain(topic.path))

\* What FirstTopics has after each of the N topics of a list.
TakesTopics(out, given, N, limit) ==
  /\ out \in [0 .. N -> Seq({Plain(given[i].path) : i \in 1 .. N})]
  /\ out[0] = <<>>
  /\ \A n \in 1 .. N : out[n] = Taken(out[n - 1], given[n], limit)
  /\ FirstTopics(given, limit) = out[N]

\* FirstTopics is the run of its steps.
LEMMA FirstTopicsSteps ==
  ASSUME NEW given, NEW N \in Nat, DOMAIN given = 1 .. N, NEW limit
  PROVE  \E out : TakesTopics(out, given, N, limit)
<1> DEFINE T == {Plain(given[i].path) : i \in 1 .. N}
           V == Seq(T)
           empty == <<>>
           step == [p \in V \X (1 .. N) |-> Taken(p[1], given[p[2]], limit)]
           fold == CHOOSE fold :
                     fold = [s \in SUBSET DOMAIN given |->
                               IF s = {} THEN <<>> ELSE Taken(fold[s \ {Max(s)}], given[Max(s)], limit)]
<1>1. \A v \in V, n \in 1 .. N : Taken(v, given[n], limit) \in V
  BY DEF Taken
<1>2. step \in [V \X (1 .. N) -> V]
  BY <1>1
<1>3. \A v \in V, n \in 1 .. N : step[<<v, n>>] = Taken(v, given[n], limit)
  OBVIOUS
<1>4. empty \in V
  OBVIOUS
<1>5. FirstTopics(given, limit) = fold[DOMAIN given]
  BY Zenon DEF FirstTopics, FoldLeft, MapThenFoldSet, Taken
<1> HIDE DEF T, V, empty, step
<1>6. \E f : f = [s \in SUBSET DOMAIN given |->
                    IF s = {} THEN <<>> ELSE Taken(f[s \ {Max(s)}], given[Max(s)], limit)]
  <2>1. PICK f : FoldsPlaces(f, V, empty, N, step)
    BY <1>2, <1>4, FoldExists
  <2>2. ASSUME NEW s \in SUBSET (1 .. N), s # {}
        PROVE  step[<<f[s \ {Max(s)}], Max(s)>>] = Taken(f[s \ {Max(s)}], given[Max(s)], limit)
    BY <1>3, <2>1, <2>2, MaxWithin DEF FoldsPlaces
  <2>3. f = [s \in SUBSET (1 .. N) |->
              IF s = {} THEN <<>> ELSE Taken(f[s \ {Max(s)}], given[Max(s)], limit)]
    BY <2>1, <2>2 DEF FoldsPlaces, empty
  <2> QED BY <2>3
<1>7. fold = [s \in SUBSET DOMAIN given |->
                IF s = {} THEN <<>> ELSE Taken(fold[s \ {Max(s)}], given[Max(s)], limit)]
  BY <1>6, Zenon
<1> HIDE DEF fold
<1>8. fold[{}] = empty
  BY <1>7 DEF empty
<1>9. ASSUME NEW n \in 1 .. N, fold[1 .. n - 1] \in V
      PROVE  fold[1 .. n] = step[<<fold[1 .. n - 1], n>>]
  <2>1. fold[1 .. n] = Taken(fold[1 .. n - 1], given[n], limit)
    <3>1. /\ 1 .. n \in SUBSET DOMAIN given /\ 1 .. n # {}
          /\ Max(1 .. n) = n /\ (1 .. n) \ {n} = 1 .. n - 1
      BY FirstPlaces
    <3> QED BY <1>7, <3>1, Zenon
  <2> QED BY <1>3, <1>9, <2>1
<1>10. PICK out : RunsSteps(out, V, empty, N, step) /\ out[N] = fold[1 .. N]
  <2>1. StepsThrough(fold, V, empty, N, step)
    BY <1>2, <1>4, <1>8, <1>9 DEF StepsThrough
  <2> QED BY <2>1, FoldSteps
<1>11. \A n \in 1 .. N : out[n] = Taken(out[n - 1], given[n], limit)
  <2>1. \A n \in 1 .. N : out[n - 1] \in V
    BY <1>10 DEF RunsSteps
  <2> QED BY <1>3, <1>10, <2>1 DEF RunsSteps
<1> QED BY <1>5, <1>10, <1>11 DEF RunsSteps, TakesTopics, T, V, empty

\* Every topic of a list has a first place in it.
LEMMA FirstMention ==
  ASSUME NEW given, NEW N \in Nat, DOMAIN given = 1 .. N, NEW path \in Asked(given)
  PROVE  /\ First(given, path) \in 1 .. N
         /\ given[First(given, path)].path = path
         /\ \A i \in 1 .. N : given[i].path = path => First(given, path) <= i
<1> DEFINE places == {i \in 1 .. N : given[i].path = path}
           IsFirst(i) == i \in 1 .. N /\ given[i].path = path /\ \A j \in 1 .. i - 1 : given[j].path # path
<1>1. places \in SUBSET Nat /\ places # {}
  BY DEF Asked
<1>2. PICK i \in places : \A j \in places : i <= j
  BY <1>1, LeastNatural
<1>3. IsFirst(i)
  BY <1>2
<1>4. IsFirst(First(given, path))
  BY <1>3, Zenon DEF First
<1>5. First(given, path) \in 1 .. N /\ given[First(given, path)].path = path
  BY <1>4
<1>6. ASSUME NEW j \in 1 .. N, given[j].path = path, ~ (First(given, path) <= j) PROVE FALSE
  <2>1. j \in 1 .. First(given, path) - 1
    BY <1>5, <1>6
  <2> QED BY <1>4, <1>6, <2>1
<1> QED BY <1>5, <1>6

\* The different topics that the first n places of a list name.
SoFar(given, n) == {path \in Asked(given) : First(given, path) <= n}

LEMMA AskedIsFinite ==
  ASSUME NEW given, NEW N \in Nat, DOMAIN given = 1 .. N
  PROVE  /\ \A n : IsFiniteSet(SoFar(given, n)) /\ Cardinality(SoFar(given, n)) \in Nat
         /\ SoFar(given, 0) = {}
         /\ SoFar(given, N) = Asked(given)
<1> DEFINE at == [path \in Asked(given) |-> First(given, path)]
<1>1. \A path \in Asked(given) :
         First(given, path) \in 1 .. N /\ given[First(given, path)].path = path
  BY FirstMention
<1>2. at \in Injection(Asked(given), 1 .. N)
  BY <1>1 DEF Injection, IsInjective
<1>3. IsFiniteSet(1 .. N)
  BY FS_Interval
<1> HIDE DEF at
<1>4. IsFiniteSet(Asked(given))
  BY <1>2, <1>3, FS_Injection
<1>5. ASSUME NEW n PROVE IsFiniteSet(SoFar(given, n)) /\ Cardinality(SoFar(given, n)) \in Nat
  <2>1. SoFar(given, n) \in SUBSET Asked(given)
    BY DEF SoFar
  <2>2. IsFiniteSet(SoFar(given, n))
    BY <1>4, <2>1, FS_Subset
  <2> QED BY <2>2, FS_CardinalityType
<1>6. SoFar(given, 0) = {} /\ SoFar(given, N) = Asked(given)
  BY <1>1 DEF SoFar
<1> QED BY <1>5, <1>6

\* A topic's rank is one more than the topics of the places before its own.
LEMMA RankIs ==
  ASSUME NEW given, NEW N \in Nat, DOMAIN given = 1 .. N, NEW path \in Asked(given)
  PROVE  /\ Rank(given, path) = Cardinality(SoFar(given, First(given, path) - 1)) + 1
         /\ Rank(given, path) \in Nat \ {0}
         /\ \A n \in 0 .. N : path \in SoFar(given, n) => Rank(given, path) <= Cardinality(SoFar(given, n))
<1> DEFINE before == SoFar(given, First(given, path) - 1)
<1>1. \A other \in Asked(given) : First(given, other) \in 1 .. N
  BY FirstMention
<1>2. {other \in Asked(given) : First(given, other) < First(given, path)} = before
  BY <1>1 DEF SoFar
<1>3. Rank(given, path) = Cardinality(before) + 1
  BY <1>2 DEF Rank
<1>4. IsFiniteSet(before) /\ Cardinality(before) \in Nat
  BY AskedIsFinite
<1>5. ASSUME NEW n \in 0 .. N, path \in SoFar(given, n)
      PROVE  Rank(given, path) <= Cardinality(SoFar(given, n))
  <2>1. path \notin before /\ before \cup {path} \in SUBSET SoFar(given, n)
    BY <1>1, <1>5 DEF SoFar
  <2>2. Cardinality(before \cup {path}) = Cardinality(before) + 1
    BY <1>4, <2>1, FS_AddElement
  <2>3. IsFiniteSet(SoFar(given, n))
    BY AskedIsFinite
  <2>4. Cardinality(before \cup {path}) <= Cardinality(SoFar(given, n))
    BY <2>1, <2>3, FS_Subset
  <2> QED BY <1>3, <2>2, <2>4
<1> HIDE DEF before
<1>6. Rank(given, path) \in Nat \ {0}
  BY <1>3, <1>4
<1> QED BY <1>3, <1>5, <1>6 DEF before

\* What FirstTopics has of the first n places of a list: the topics of a rank
\* within the limit, each in the place of its rank, and none less.
HasSoFar(out, given, limit, n) ==
  /\ \A path \in SoFar(given, n) : Rank(given, path) <= limit =>
       Rank(given, path) \in 1 .. Len(out) /\ out[Rank(given, path)] = Plain(path)
  /\ \A i \in 1 .. Len(out) : \E path \in SoFar(given, n) : i = Rank(given, path) /\ out[i] = Plain(path)
  /\ Len(out) <= limit
  /\ Len(out) <= Cardinality(SoFar(given, n))
  /\ Len(out) < limit => Len(out) = Cardinality(SoFar(given, n))

\* Different paths are different topics.
LEMMA PlainTells == \A a, b : Plain(a) = Plain(b) => a = b
<1> SUFFICES ASSUME NEW a, NEW b, Plain(a) = Plain(b) PROVE a = b
  OBVIOUS
<1>1. Plain(a).path = a /\ Plain(b).path = b
  BY DEF Plain
<1> QED BY <1>1

\* One more topic leaves the list of those kept as it has to be.
LEMMA HasMore ==
  ASSUME NEW given, NEW N \in Nat, DOMAIN given = 1 .. N, NEW limit \in Nat,
         NEW T, NEW out \in Seq(T), NEW n \in 1 .. N, HasSoFar(out, given, limit, n - 1)
  PROVE  HasSoFar(Taken(out, given[n], limit), given, limit, n)
<1> DEFINE path == given[n].path
           old == SoFar(given, n - 1)
           all == SoFar(given, n)
<1>1. \A p \in Asked(given) : /\ First(given, p) \in 1 .. N /\ given[First(given, p)].path = p
                              /\ p = path => First(given, p) <= n
  BY FirstMention
<1>2. IsFiniteSet(old) /\ Cardinality(old) \in Nat /\ Len(out) \in Nat
  <2>1. IsFiniteSet(old) /\ Cardinality(old) \in Nat
    BY AskedIsFinite
  <2> QED BY <2>1
<1>3. ASSUME all = old, path = <<>> \/ path \in old PROVE HasSoFar(Taken(out, given[n], limit), given, limit, n)
  <2>1. HasSoFar(out, given, limit, n)
    BY <1>3 DEF HasSoFar
  <2>2. CASE path = <<>>
    <3>1. Taken(out, given[n], limit) = out
      BY <2>2 DEF Taken
    <3> QED BY <2>1, <3>1
  <2>3. CASE path \in old
    <3>1. Rank(given, path) \in Nat /\ Rank(given, path) <= Cardinality(old)
      <4>1. path \in Asked(given) /\ n - 1 \in 0 .. N
        BY <2>3 DEF SoFar
      <4> QED BY <2>3, <4>1, RankIs
    <3>2. Contains(out, Plain(path)) \/ Len(out) >= limit
      <4>1. CASE Rank(given, path) <= limit
        BY <2>3, <4>1 DEF HasSoFar, Contains
      <4>2. CASE ~ (Rank(given, path) <= limit)
        BY <1>2, <3>1, <4>2 DEF HasSoFar
      <4> QED BY <4>1, <4>2
    <3>3. Taken(out, given[n], limit) = out
      BY <3>2 DEF Taken
    <3> QED BY <2>1, <3>3
  <2> QED BY <1>3, <2>2, <2>3
<1>4. CASE path \notin Asked(given)
  <2>1. \A p \in Asked(given) : First(given, p) # n
    BY <1>1, <1>4
  <2>2. all = old
    BY <1>1, <2>1 DEF SoFar
  <2>3. path = <<>>
    BY <1>4 DEF Asked
  <2> QED BY <1>3, <2>2, <2>3
<1>5. CASE path \in Asked(given) /\ First(given, path) # n
  <2>1. \A p \in Asked(given) : First(given, p) # n
    BY <1>1, <1>5
  <2>2. all = old
    BY <1>1, <2>1 DEF SoFar
  <2>3. path \in old
    BY <1>1, <1>5 DEF SoFar
  <2> QED BY <1>3, <2>2, <2>3
<1>6. CASE path \in Asked(given) /\ First(given, path) = n
  <2>1. path # <<>> /\ path \notin old
    BY <1>6 DEF Asked, SoFar
  <2>2. all = old \cup {path}
    <3>1. \A p \in Asked(given) : First(given, p) = n => p = path
      BY <1>1
    <3> QED BY <1>1, <1>6, <3>1 DEF SoFar
  <2>3. Cardinality(all) = Cardinality(old) + 1
    BY <1>2, <2>1, <2>2, FS_AddElement
  <2>4. Rank(given, path) = Cardinality(old) + 1
    BY <1>6, RankIs
  <2>5. \A p \in old : Rank(given, p) \in Nat /\ Rank(given, p) <= Cardinality(old)
    <3>1. old \subseteq Asked(given) /\ n - 1 \in 0 .. N
      BY DEF SoFar
    <3> QED BY <3>1, RankIs
  <2>6. ~ Contains(out, Plain(path))
    BY <2>1, PlainTells DEF HasSoFar, Contains
  <2>7. CASE Len(out) >= limit
    <3>1. Taken(out, given[n], limit) = out
      BY <2>7 DEF Taken
    <3>2. Len(out) = limit /\ Cardinality(old) >= limit
      BY <1>2, <2>7 DEF HasSoFar
    <3>3. ~ (Rank(given, path) <= limit)
      BY <1>2, <2>4, <3>2
    <3>4. HasSoFar(out, given, limit, n)
      BY <1>2, <2>2, <2>3, <3>2, <3>3 DEF HasSoFar
    <3> QED BY <3>1, <3>4
  <2>8. CASE ~ (Len(out) >= limit)
    <3> DEFINE more == Append(out, Plain(path))
    <3>1. Taken(out, given[n], limit) = more
      BY <2>1, <2>6, <2>8 DEF Taken
    <3>2. Len(out) = Cardinality(old)
      BY <1>2, <2>8 DEF HasSoFar
    <3>3. /\ Len(more) = Len(out) + 1 /\ more[Len(out) + 1] = Plain(path)
          /\ \A i \in 1 .. Len(out) : more[i] = out[i]
      OBVIOUS
    <3> HIDE DEF more
    <3>4. ASSUME NEW p \in all, Rank(given, p) <= limit
          PROVE  Rank(given, p) \in 1 .. Len(more) /\ more[Rank(given, p)] = Plain(p)
      <4>1. CASE p \in old
        <5>1. Rank(given, p) \in 1 .. Len(out) /\ out[Rank(given, p)] = Plain(p)
          BY <3>4, <4>1 DEF HasSoFar
        <5> QED BY <1>2, <3>3, <5>1
      <4>2. CASE p = path
        BY <1>2, <2>4, <3>2, <3>3, <4>2
      <4> QED BY <2>2, <4>1, <4>2
    <3>5. ASSUME NEW i \in 1 .. Len(more)
          PROVE  \E p \in all : i = Rank(given, p) /\ more[i] = Plain(p)
      <4>1. CASE i \in 1 .. Len(out)
        <5>1. PICK p \in old : i = Rank(given, p) /\ out[i] = Plain(p)
          BY <4>1 DEF HasSoFar
        <5> QED BY <2>2, <3>3, <4>1, <5>1
      <4>2. CASE i = Len(out) + 1
        BY <2>2, <2>4, <3>2, <3>3, <4>2
      <4> QED BY <1>2, <3>3, <4>1, <4>2
    <3>6. /\ Len(more) <= limit /\ Len(more) = Cardinality(all)
      BY <1>2, <2>3, <2>8, <3>2, <3>3
    <3>7. Len(more) <= Cardinality(all)
      BY <1>2, <2>3, <3>6
    <3>8. HasSoFar(more, given, limit, n)
      BY <3>4, <3>5, <3>6, <3>7 DEF HasSoFar
    <3> QED BY <3>1, <3>8
  <2> QED BY <2>7, <2>8
<1> QED BY <1>4, <1>5, <1>6

\* All that FirstTopics keeps, and all that it leaves out.
LEMMA FirstTopicsAre ==
  ASSUME NEW given, NEW N \in Nat, DOMAIN given = 1 .. N, NEW limit \in Nat
  PROVE  /\ FirstTopics(given, limit) \in Seq({Plain(given[i].path) : i \in 1 .. N})
         /\ HasSoFar(FirstTopics(given, limit), given, limit, N)
<1> DEFINE T == {Plain(given[i].path) : i \in 1 .. N}
<1>1. PICK out : TakesTopics(out, given, N, limit)
  BY FirstTopicsSteps
<1>2. /\ out \in [0 .. N -> Seq(T)] /\ out[0] = <<>>
      /\ \A n \in 1 .. N : out[n] = Taken(out[n - 1], given[n], limit)
      /\ FirstTopics(given, limit) = out[N]
  BY <1>1 DEF TakesTopics
<1> HIDE DEF T
<1> DEFINE Done == {n \in 0 .. N : HasSoFar(out[n], given, limit, n)}
<1>3. 0 \in Done
  <2>1. SoFar(given, 0) = {} /\ Cardinality({}) = 0
    BY AskedIsFinite, FS_EmptySet
  <2>2. HasSoFar(out[0], given, limit, 0)
    <3>1. Len(out[0]) = 0 /\ 0 <= limit
      BY <1>2
    <3>2. \A i \in 1 .. Len(out[0]) : FALSE
      BY <3>1
    <3>3. Cardinality(SoFar(given, 0)) = 0 /\ \A path \in SoFar(given, 0) : FALSE
      BY <2>1
    <3> QED BY <3>1, <3>2, <3>3 DEF HasSoFar
  <2> QED BY <2>2
<1>4. ASSUME NEW n \in 0 .. N - 1, n \in Done PROVE n + 1 \in Done
  <2>1. n + 1 \in 1 .. N /\ n + 1 \in 0 .. N /\ (n + 1) - 1 = n /\ out[n] \in Seq(T)
    BY <1>2
  <2>2. HasSoFar(out[n], given, limit, (n + 1) - 1)
    BY <1>4, <2>1
  <2>3. HasSoFar(Taken(out[n], given[n + 1], limit), given, limit, n + 1)
    BY <2>1, <2>2, HasMore
  <2>4. out[n + 1] = Taken(out[n], given[n + 1], limit)
    BY <1>2, <2>1
  <2> QED BY <2>1, <2>3, <2>4
<1> HIDE DEF Done
<1>5. \A n \in 0 .. N : n \in Done
  BY <1>3, <1>4, UpTo
<1>6. HasSoFar(out[N], given, limit, N)
  BY <1>5 DEF Done
<1>7. out[N] \in Seq(T)
  BY <1>2
<1> QED BY <1>2, <1>6, <1>7 DEF T

\* One step of Words.
WithWord(words, part) == IF part.word = "" THEN words ELSE Append(words, part.word)

\* What Words has after each of the N parts of a taxonomy.
ReadsWords(out, taxonomy, N) ==
  /\ out \in [0 .. N -> Seq({taxonomy[i].word : i \in 1 .. N})]
  /\ out[0] = <<>>
  /\ \A n \in 1 .. N : out[n] = WithWord(out[n - 1], taxonomy[n])
  /\ Words(taxonomy) = out[N]

\* Words is the run of its steps.
LEMMA WordsSteps ==
  ASSUME NEW taxonomy, NEW N \in Nat, DOMAIN taxonomy = 1 .. N
  PROVE  \E out : ReadsWords(out, taxonomy, N)
<1> DEFINE T == {taxonomy[i].word : i \in 1 .. N}
           V == Seq(T)
           empty == <<>>
           step == [p \in V \X (1 .. N) |-> WithWord(p[1], taxonomy[p[2]])]
           fold == CHOOSE fold :
                     fold = [s \in SUBSET DOMAIN taxonomy |->
                               IF s = {} THEN <<>> ELSE WithWord(fold[s \ {Max(s)}], taxonomy[Max(s)])]
<1>1. \A v \in V, n \in 1 .. N : WithWord(v, taxonomy[n]) \in V
  <2>1. \A n \in 1 .. N : taxonomy[n].word \in T
    OBVIOUS
  <2> HIDE DEF T
  <2>2. \A v \in V, word \in T : Append(v, word) \in V
    OBVIOUS
  <2> HIDE DEF V
  <2> QED BY <2>1, <2>2 DEF WithWord
<1>2. step \in [V \X (1 .. N) -> V]
  BY <1>1
<1>3. \A v \in V, n \in 1 .. N : step[<<v, n>>] = WithWord(v, taxonomy[n])
  OBVIOUS
<1>4. empty \in V
  OBVIOUS
<1>5. Words(taxonomy) = fold[DOMAIN taxonomy]
  BY Zenon DEF Words, FoldLeft, MapThenFoldSet, WithWord
<1> HIDE DEF T, V, empty, step
<1>6. \E f : f = [s \in SUBSET DOMAIN taxonomy |->
                    IF s = {} THEN <<>> ELSE WithWord(f[s \ {Max(s)}], taxonomy[Max(s)])]
  <2>1. PICK f : FoldsPlaces(f, V, empty, N, step)
    BY <1>2, <1>4, FoldExists
  <2>2. ASSUME NEW s \in SUBSET (1 .. N), s # {}
        PROVE  step[<<f[s \ {Max(s)}], Max(s)>>] = WithWord(f[s \ {Max(s)}], taxonomy[Max(s)])
    BY <1>3, <2>1, <2>2, MaxWithin DEF FoldsPlaces
  <2>3. f = [s \in SUBSET (1 .. N) |->
              IF s = {} THEN <<>> ELSE WithWord(f[s \ {Max(s)}], taxonomy[Max(s)])]
    BY <2>1, <2>2 DEF FoldsPlaces, empty
  <2> QED BY <2>3
<1>7. fold = [s \in SUBSET DOMAIN taxonomy |->
                IF s = {} THEN <<>> ELSE WithWord(fold[s \ {Max(s)}], taxonomy[Max(s)])]
  BY <1>6, Zenon
<1> HIDE DEF fold
<1>8. fold[{}] = empty
  BY <1>7 DEF empty
<1>9. ASSUME NEW n \in 1 .. N, fold[1 .. n - 1] \in V
      PROVE  fold[1 .. n] = step[<<fold[1 .. n - 1], n>>]
  <2>1. fold[1 .. n] = WithWord(fold[1 .. n - 1], taxonomy[n])
    <3>1. /\ 1 .. n \in SUBSET DOMAIN taxonomy /\ 1 .. n # {}
          /\ Max(1 .. n) = n /\ (1 .. n) \ {n} = 1 .. n - 1
      BY FirstPlaces
    <3> QED BY <1>7, <3>1, Zenon
  <2> QED BY <1>3, <1>9, <2>1
<1>10. PICK out : RunsSteps(out, V, empty, N, step) /\ out[N] = fold[1 .. N]
  <2>1. StepsThrough(fold, V, empty, N, step)
    BY <1>2, <1>4, <1>8, <1>9 DEF StepsThrough
  <2> QED BY <2>1, FoldSteps
<1>11. \A n \in 1 .. N : out[n] = WithWord(out[n - 1], taxonomy[n])
  <2>1. \A n \in 1 .. N : out[n - 1] \in V
    BY <1>10 DEF RunsSteps
  <2> QED BY <1>3, <1>10, <2>1 DEF RunsSteps
<1> QED BY <1>5, <1>10, <1>11 DEF RunsSteps, ReadsWords, T, V, empty

\* Words gives the words of a taxonomy.
LEMMA WordsAreWords ==
  ASSUME NEW taxonomy, NEW N \in Nat, DOMAIN taxonomy = 1 .. N
  PROVE  Words(taxonomy) \in Seq({taxonomy[i].word : i \in 1 .. N})
<1>1. PICK out : ReadsWords(out, taxonomy, N)
  BY WordsSteps
<1> QED BY <1>1 DEF ReadsWords

\* What the topics of an envelope come from is a list.
LEMMA GivenIsList ==
  ASSUME NEW r \in Requests, r.taxonomy # Missing
  PROVE  \E N \in Nat : DOMAIN Given(r.topics, r.taxonomy) = 1 .. N
<1>1. CASE r.topics # <<>>
  <2>1. r.topics \in Seq(Range(r.topics))
    BY WireAssumption
  <2>2. Len(r.topics) \in Nat /\ DOMAIN r.topics = 1 .. Len(r.topics)
    BY <2>1
  <2> QED BY <1>1, <2>2 DEF Given
<1>2. CASE r.topics = <<>>
  <2> DEFINE N == Len(r.taxonomy)
             words == Words(r.taxonomy)
             T == {r.taxonomy[i].word : i \in 1 .. N}
  <2>1. r.taxonomy \in Seq(Range(r.taxonomy))
    BY WireAssumption
  <2>2. N \in Nat /\ DOMAIN r.taxonomy = 1 .. N
    BY <2>1
  <2>3. words \in Seq(T)
    BY <2>2, WordsAreWords
  <2> HIDE DEF words, T
  <2>4. DOMAIN words = 1 .. Len(words) /\ Len(words) \in Nat
    BY <2>3
  <2>5. Given(r.topics, r.taxonomy) =
          IF words = <<>> THEN <<Plain(General)>> ELSE [i \in DOMAIN words |-> Plain(SubSeq(words, 1, i))]
    BY <1>2 DEF Given, TopicsFromTaxonomy, words
  <2>6. DOMAIN <<Plain(General)>> = 1 .. 1 /\ DOMAIN [i \in DOMAIN words |-> Plain(SubSeq(words, 1, i))] = DOMAIN words
    OBVIOUS
  <2> QED BY <2>4, <2>5, <2>6
<1> QED BY <1>1, <1>2

\* A policy in use has numbers, and a limit of topics above zero.
LEMMA NormalizedPolicies ==
  ASSUME NEW p \in Policies
  PROVE  /\ Normalize(p) \in [{"conf_min", "topic_limit", "msg_size_limit"} -> Int]
         /\ Normalize(p).topic_limit \in Nat \ {0}
<1>1. /\ DOMAIN DefaultPolicy = {"conf_min", "topic_limit", "msg_size_limit"}
      /\ \A f \in DOMAIN DefaultPolicy : DefaultPolicy[f] \in Nat \ {0}
  BY WireAssumption
<1>2. p \in [{"conf_min", "topic_limit", "msg_size_limit"} -> Int]
  BY <1>1, WireAssumption
<1> QED BY <1>1, <1>2 DEF Normalize

\* What the envelope that went out took from the request.
LEMMA SentSays ==
  ASSUME WireInv, sent # None
  PROVE  /\ request \in Requests /\ request.taxonomy # Missing /\ request.id # Missing
         /\ request.kind \in {"TaskSAE", "AgentFactSAE"}
         /\ policy.topic_limit \in Nat \ {0}
         /\ sent.topics = NormalizeTopics(request.topics, request.taxonomy, policy.topic_limit)
         /\ sent.detail_ref = BuildDetailRef(Publisher, request.kind, request.id, "1")
         /\ sent.conf = request.conf /\ sent.summary = request.summary
<1>1. /\ IsEnvelope(EnvelopeOf(request))
      /\ {"conf", "summary", "taxonomy", "kind", "id", "detail_ref"} \subseteq DOMAIN EnvelopeOf(request)
      /\ EnvelopeOf(request)["topics"] = NormalizeTopics(request.topics, request.taxonomy, policy.topic_limit)
      /\ EnvelopeOf(request)["detail_ref"] = BuildDetailRef(Publisher, request.kind, request.id, "1")
      /\ EnvelopeOf(request)["taxonomy"] = request.taxonomy
      /\ EnvelopeOf(request)["id"] = request.id
      /\ EnvelopeOf(request)["kind"] = request.kind
      /\ EnvelopeOf(request)["conf"] = request.conf /\ EnvelopeOf(request)["summary"] = request.summary
  BY DEF IsEnvelope, EnvelopeOf
<1>2. /\ sent.topics = NormalizeTopics(request.topics, request.taxonomy, policy.topic_limit)
      /\ sent.detail_ref = BuildDetailRef(Publisher, request.kind, request.id, "1")
      /\ sent["taxonomy"] = request.taxonomy /\ sent["id"] = request.id /\ sent["kind"] = request.kind
      /\ sent.conf = request.conf /\ sent.summary = request.summary
  BY <1>1, SignedSays DEF WireInv, IsEnvelope
<1>3. ValidSigned(sent) /\ request \in Requests
  BY DEF WireInv
<1>4. sent["taxonomy"] # Missing /\ sent["id"] # Missing /\ sent.kind \in {"TaskSAE", "AgentFactSAE"}
  BY <1>3 DEF ValidSigned, ValidUnsigned
<1>5. policy.topic_limit \in Nat \ {0}
  BY NormalizedPolicies DEF WireInv
<1> QED BY <1>2, <1>3, <1>4, <1>5

\* The topics of an envelope are a list.
LEMMA SentTopicsAreList ==
  ASSUME WireInv, sent # None
  PROVE  Len(sent.topics) \in Nat
<1> DEFINE given == Given(request.topics, request.taxonomy)
           out == FirstTopics(given, policy.topic_limit)
<1>1. PICK N \in Nat : DOMAIN given = 1 .. N
  BY SentSays, GivenIsList
<1> HIDE DEF given
<1>2. out \in Seq({Plain(given[i].path) : i \in 1 .. N})
  BY <1>1, SentSays, FirstTopicsAre
<1> HIDE DEF out
<1>3. Len(out) \in Nat /\ Len(<<Plain(General)>>) \in Nat
  BY <1>2
<1>4. sent.topics = IF out = <<>> THEN <<Plain(General)>> ELSE out
  BY SentSays DEF NormalizeTopics, out, given
<1> QED BY <1>3, <1>4

\* A policy that is no stricter lets through whatever the publisher's did.
LEMMA NoStricterAdmits ==
  ASSUME NEW p \in [{"conf_min", "topic_limit", "msg_size_limit"} -> Int],
         NEW q \in [{"conf_min", "topic_limit", "msg_size_limit"} -> Int],
         p.topic_limit >= q.topic_limit, p.msg_size_limit >= q.msg_size_limit, p.conf_min <= q.conf_min,
         NEW env, ValidSigned(env), Enforced(q, env),
         Len(env.topics) \in Nat, env.conf \in Int, env.summary \in Nat
  PROVE  Admits(p, env)
<1>1. Len(env.topics) <= q.topic_limit /\ env.conf >= q.conf_min /\ Size(env) <= q.msg_size_limit
  BY DEF Enforced
<1>2. Size(env) \in Int
  BY DEF Size
<1>3. Len(env.topics) <= p.topic_limit /\ env.conf >= p.conf_min /\ Size(env) <= p.msg_size_limit
  BY <1>1, <1>2
<1> QED BY <1>3 DEF Admits, Enforced

\* No publication that its client was told has succeeded is refused, as it left, by
\* a node whose policy is no stricter than the publisher's: PublishTask and
\* PublishFact sign, then check with the function that the receivers use.
THEOREM AdmittedAsItLeft == Spec => []SentIsAdmitted
<1>1. WireInv => SentIsAdmitted
  <2> SUFFICES ASSUME WireInv, sent # None, NEW p \in Policies,
                      Normalize(p).topic_limit >= policy.topic_limit,
                      Normalize(p).msg_size_limit >= policy.msg_size_limit,
                      Normalize(p).conf_min <= policy.conf_min
               PROVE  Admits(Normalize(p), sent)
    BY DEF SentIsAdmitted, Out
  <2>1. PICK q \in Policies : policy = Normalize(q)
    BY DEF WireInv
  <2>2. ValidSigned(sent) /\ Enforced(policy, sent)
    BY DEF WireInv
  <2>3. Len(sent.topics) \in Nat /\ sent.conf \in Int /\ sent.summary \in Nat
    BY SentSays, SentTopicsAreList, WireAssumption
  <2> QED BY <2>1, <2>2, <2>3, NormalizedPolicies, NoStricterAdmits
<1> QED BY <1>1, WireInvInductive, PTL DEF Spec

\* Whatever list of topics a client gives, however long, its envelope goes out on
\* the first of the different topics in it, as many as the publisher's limit and
\* none less (normalizeTopics cuts the list while it removes duplicates).
THEOREM OutOnWhatWasAsked == Spec => []GoesOutWhereAsked
<1>1. WireInv => GoesOutWhereAsked
  <2> SUFFICES ASSUME WireInv, sent # None PROVE GoesOutWhereAsked
    BY DEF GoesOutWhereAsked, Out
  <2> DEFINE given == Given(request.topics, request.taxonomy)
             limit == policy.topic_limit
             out == FirstTopics(given, limit)
             within == {path \in Asked(given) : Rank(given, path) <= limit}
  <2>1. PICK N \in Nat : DOMAIN given = 1 .. N
    BY SentSays, GivenIsList
  <2>2. limit \in Nat \ {0} /\ sent.topics = IF out = <<>> THEN <<Plain(General)>> ELSE out
    BY SentSays DEF NormalizeTopics
  <2>3. out \in Seq({Plain(given[i].path) : i \in 1 .. N}) /\ HasSoFar(out, given, limit, N)
    <3> HIDE DEF given, limit
    <3>1. limit \in Nat
      BY <2>2
    <3> QED BY <2>1, <3>1, FirstTopicsAre
  <2>4. /\ SoFar(given, N) = Asked(given) /\ IsFiniteSet(Asked(given)) /\ Cardinality(Asked(given)) \in Nat
    BY <2>1, AskedIsFinite
  <2> DEFINE T == {Plain(given[i].path) : i \in 1 .. N}
  <2> HIDE DEF given, limit, out, T
  <2>5. Len(out) \in Nat /\ DOMAIN out = 1 .. Len(out) /\ (Len(out) = 0 <=> out = <<>>)
    <3>1. out \in Seq(T)
      BY <2>3 DEF T
    <3> QED BY <3>1
  <2>6. \A path : Plain(path).path = path
    BY DEF Plain
  <2>7. CASE Asked(given) = {}
    <3>1. out = <<>>
      BY <2>3, <2>4, <2>5, <2>7 DEF HasSoFar
    <3>2. sent.topics = <<Plain(General)>>
      BY <2>2, <3>1
    <3>3. {<<i, sent.topics[i].path>> : i \in DOMAIN sent.topics} = {<<1, General>>}
      BY <2>6, <3>2
    <3> QED BY <2>7, <3>3 DEF GoesOutWhereAsked, given
  <2>8. CASE Asked(given) # {}
    <3>1. out # <<>>
      <4>1. Cardinality(Asked(given)) # 0
        BY <2>4, <2>8, FS_EmptySet
      <4> QED BY <2>2, <2>3, <2>4, <2>5, <4>1 DEF HasSoFar
    <3>2. sent.topics = out
      BY <2>2, <3>1
    <3>3. ASSUME NEW i \in DOMAIN out PROVE \E path \in within : <<i, out[i].path>> = <<Rank(given, path), path>>
      <4>1. PICK path \in Asked(given) : i = Rank(given, path) /\ out[i] = Plain(path)
        BY <2>3, <2>4, <2>5, <3>3 DEF HasSoFar
      <4>2. Rank(given, path) <= limit
        BY <2>2, <2>3, <2>5, <4>1 DEF HasSoFar
      <4> QED BY <2>6, <4>1, <4>2
    <3>4. ASSUME NEW path \in within PROVE \E i \in DOMAIN out : <<i, out[i].path>> = <<Rank(given, path), path>>
      <4>1. Rank(given, path) \in DOMAIN out /\ out[Rank(given, path)] = Plain(path)
        BY <2>3, <2>4, <2>5, <3>4 DEF HasSoFar
      <4> QED BY <2>6, <4>1
    <3>5. {<<i, out[i].path>> : i \in DOMAIN out} = {<<Rank(given, path), path>> : path \in within}
      BY <3>3, <3>4
    <3> QED BY <2>8, <3>2, <3>5 DEF GoesOutWhereAsked, given, limit
  <2> QED BY <2>7, <2>8
<1> QED BY <1>1, WireInvInductive, PTL DEF Spec

\* The first n places name n different topics at most.
LEMMA SoFarBounded ==
  ASSUME NEW given, NEW N \in Nat, DOMAIN given = 1 .. N, NEW n \in 0 .. N
  PROVE  Cardinality(SoFar(given, n)) <= n
<1> DEFINE at == [path \in SoFar(given, n) |-> First(given, path)]
<1>1. \A path \in SoFar(given, n) : /\ First(given, path) \in 1 .. n
                                    /\ given[First(given, path)].path = path
  BY FirstMention DEF SoFar
<1>2. at \in Injection(SoFar(given, n), 1 .. n)
  BY <1>1 DEF Injection, IsInjective
<1>3. IsFiniteSet(1 .. n) /\ Cardinality(1 .. n) = n
  BY FS_Interval
<1> HIDE DEF at
<1> QED BY <1>2, <1>3, FS_Injection

\* The words of a taxonomy's first parts are the first of its words.
LEMMA WordsOfFirstParts ==
  ASSUME NEW taxonomy, taxonomy \in Seq(Range(taxonomy)), NEW n \in 1 .. Len(taxonomy)
  PROVE  LET broad == Words(SubSeq(taxonomy, 1, n))
             words == Words(taxonomy)
         IN  Len(broad) \in 0 .. Len(words) /\ broad = SubSeq(words, 1, Len(broad))
<1> DEFINE N == Len(taxonomy)
           T == {taxonomy[i].word : i \in 1 .. N}
           part == SubSeq(taxonomy, 1, n)
           broad == Words(part)
           words == Words(taxonomy)
           U == {part[i].word : i \in 1 .. n}
<1>1. N \in Nat /\ n \in Nat /\ DOMAIN taxonomy = 1 .. N
  OBVIOUS
<1>2. DOMAIN part = 1 .. n /\ \A i \in 1 .. n : part[i] = taxonomy[i]
  OBVIOUS
<1> HIDE DEF N, part
<1>3. PICK out : ReadsWords(out, taxonomy, N)
  BY <1>1, WordsSteps
<1>4. PICK short : ReadsWords(short, part, n)
  BY <1>1, <1>2, WordsSteps
<1>5. /\ out \in [0 .. N -> Seq(T)] /\ out[0] = <<>> /\ words = out[N]
      /\ \A m \in 1 .. N : out[m] = WithWord(out[m - 1], taxonomy[m])
  BY <1>3 DEF ReadsWords
<1>6. /\ short[0] = <<>> /\ broad = short[n]
      /\ \A m \in 1 .. n : short[m] = WithWord(short[m - 1], part[m])
  BY <1>4 DEF ReadsWords
<1>7. n \in 1 .. N
  BY DEF N
<1> HIDE DEF T, U, words, broad
<1>8. broad = out[n]
  <2> DEFINE Same == {m \in 0 .. n : short[m] = out[m]}
  <2>1. 0 \in Same
    <3>1. 0 \in 0 .. n /\ short[0] = out[0]
      BY <1>1, <1>5, <1>6
    <3> QED BY <3>1
  <2>2. ASSUME NEW m \in 0 .. n - 1, m \in Same PROVE m + 1 \in Same
    <3>1. m + 1 \in 1 .. n /\ m + 1 \in 0 .. n /\ m + 1 \in 1 .. N /\ (m + 1) - 1 = m
      BY <1>1, <1>7
    <3>2. short[m + 1] = WithWord(short[m], part[m + 1]) /\ out[m + 1] = WithWord(out[m], taxonomy[m + 1])
      BY <1>5, <1>6, <3>1
    <3>3. part[m + 1] = taxonomy[m + 1] /\ short[m] = out[m]
      BY <1>2, <2>2, <3>1
    <3> QED BY <3>1, <3>2, <3>3
  <2> HIDE DEF Same
  <2>3. \A m \in 0 .. n : m \in Same
    BY <1>1, <2>1, <2>2, UpTo
  <2>4. n \in Same
    BY <1>1, <2>3
  <2> QED BY <1>6, <2>4 DEF Same
<1>9. Len(out[n]) \in 0 .. Len(out[N]) /\ \A i \in 1 .. Len(out[n]) : out[N][i] = out[n][i]
  <2> DEFINE Begins(m) == /\ Len(out[n]) \in 0 .. Len(out[m])
                          /\ \A i \in 1 .. Len(out[n]) : out[m][i] = out[n][i]
             Longer == {m \in 0 .. N : m >= n => Begins(m)}
  <2>1. out[n] \in Seq(T) /\ Begins(n)
    BY <1>5, <1>7
  <2>2. 0 \in Longer
    BY <1>1, <1>7
  <2>3. ASSUME NEW m \in 0 .. N - 1, m \in Longer PROVE m + 1 \in Longer
    <3>1. m + 1 \in 1 .. N /\ m + 1 \in 0 .. N /\ m \in 0 .. N /\ (m + 1) - 1 = m
      BY <1>1
    <3>2. CASE m + 1 < n
      BY <1>1, <3>1, <3>2
    <3>3. CASE m + 1 = n
      BY <2>1, <3>1, <3>3
    <3>4. CASE m >= n
      <4>1. Begins(m) /\ out[m] \in Seq(T) /\ out[m + 1] \in Seq(T)
        BY <1>5, <2>3, <3>1, <3>4
      <4>2. out[m + 1] = WithWord(out[m], taxonomy[m + 1])
        BY <1>5, <3>1
      <4>3. /\ Len(out[m]) \in 0 .. Len(out[m + 1])
            /\ \A i \in 1 .. Len(out[m]) : out[m + 1][i] = out[m][i]
        <5>1. CASE out[m + 1] = out[m]
          BY <4>1, <5>1
        <5>2. CASE out[m + 1] = Append(out[m], taxonomy[m + 1].word)
          <6>1. /\ Len(Append(out[m], taxonomy[m + 1].word)) = Len(out[m]) + 1
                /\ \A i \in 1 .. Len(out[m]) : Append(out[m], taxonomy[m + 1].word)[i] = out[m][i]
            BY <4>1
          <6> QED BY <4>1, <5>2, <6>1
        <5> QED BY <4>2, <5>1, <5>2 DEF WithWord
      <4>4. Begins(m + 1)
        <5>1. Len(out[n]) \in 0 .. Len(out[m]) /\ Len(out[m]) \in Nat /\ Len(out[m + 1]) \in Nat
          BY <4>1
        <5>2. Len(out[n]) \in 0 .. Len(out[m + 1])
          BY <4>3, <5>1
        <5>3. ASSUME NEW i \in 1 .. Len(out[n]) PROVE out[m + 1][i] = out[n][i]
          <6>1. i \in 1 .. Len(out[m]) /\ out[m][i] = out[n][i]
            BY <4>1, <5>1
          <6> QED BY <4>3, <6>1
        <5> QED BY <5>2, <5>3
      <4> QED BY <3>1, <4>4
    <3> QED BY <1>1, <3>1, <3>2, <3>3, <3>4
  <2> HIDE DEF Longer
  <2>4. \A m \in 0 .. N : m \in Longer
    BY <1>1, <2>2, <2>3, UpTo
  <2>5. N \in Longer /\ N >= n
    BY <1>1, <1>7, <2>4
  <2> QED BY <2>5 DEF Longer
<1>10. out[n] \in Seq(T) /\ out[N] \in Seq(T)
  BY <1>1, <1>5, <1>7
<1>11. out[n] = SubSeq(out[N], 1, Len(out[n]))
  BY <1>9, <1>10
<1> QED BY <1>5, <1>8, <1>9, <1>11 DEF words, broad, part

\* Whoever listens to the topic of the first parts of a taxonomy hears what is
\* published below them, whatever the taxonomy, unless the publisher's limit cuts
\* the list before that topic (TopicsFromTaxonomy).
THEOREM BroadTopicsHear == Spec => []NarrowReachesBroad
<1>1. WireInv => NarrowReachesBroad
  <2> SUFFICES ASSUME WireInv, sent # None, request.topics = <<>>,
                      NEW n \in 1 .. Len(request.taxonomy),
                      Words(SubSeq(request.taxonomy, 1, n)) # <<>>,
                      Len(Words(SubSeq(request.taxonomy, 1, n))) <= policy.topic_limit
               PROVE  Contains(sent.topics, Plain(Words(SubSeq(request.taxonomy, 1, n))))
    BY DEF NarrowReachesBroad, Out
  <2> DEFINE taxonomy == request.taxonomy
             N == Len(taxonomy)
             words == Words(taxonomy)
             broad == Words(SubSeq(taxonomy, 1, n))
             given == Given(request.topics, taxonomy)
             limit == policy.topic_limit
             out == FirstTopics(given, limit)
             T == {taxonomy[i].word : i \in 1 .. N}
             k == Len(broad)
  <2>1. taxonomy \in Seq(Range(taxonomy)) /\ limit \in Nat \ {0}
    BY SentSays, WireAssumption
  <2>2. N \in Nat /\ DOMAIN taxonomy = 1 .. N
    BY <2>1
  <2>3. words \in Seq(T)
    BY <2>2, WordsAreWords
  <2>4. k \in 0 .. Len(words) /\ broad = SubSeq(words, 1, k) /\ broad # <<>> /\ k <= limit
    BY <2>1, WordsOfFirstParts
  <2>5. given = IF words = <<>> THEN <<Plain(General)>> ELSE [i \in DOMAIN words |-> Plain(SubSeq(words, 1, i))]
    BY DEF Given, TopicsFromTaxonomy
  <2>6. sent.topics = IF out = <<>> THEN <<Plain(General)>> ELSE out
    BY SentSays DEF NormalizeTopics
  <2> HIDE DEF taxonomy, N, words, broad, given, limit, out, T, k
  <2>7. Len(words) \in Nat /\ DOMAIN words = 1 .. Len(words) /\ k \in 1 .. Len(words) /\ words # <<>>
    BY <2>3, <2>4 DEF k
  <2>8. DOMAIN given = 1 .. Len(words) /\ given[k].path = broad
    BY <2>4, <2>5, <2>7 DEF Plain
  <2>9. broad \in Asked(given)
    BY <2>4, <2>7, <2>8 DEF Asked
  <2>10. First(given, broad) \in 1 .. k
    BY <2>7, <2>8, <2>9, FirstMention
  <2>11. Rank(given, broad) <= k
    <3>1. Rank(given, broad) = Cardinality(SoFar(given, First(given, broad) - 1)) + 1
      BY <2>7, <2>8, <2>9, RankIs
    <3>2. First(given, broad) - 1 \in 0 .. Len(words)
      BY <2>7, <2>10
    <3>3. /\ Cardinality(SoFar(given, First(given, broad) - 1)) <= First(given, broad) - 1
          /\ Cardinality(SoFar(given, First(given, broad) - 1)) \in Nat
      BY <2>7, <2>8, <3>2, SoFarBounded, AskedIsFinite
    <3> QED BY <2>7, <2>10, <3>1, <3>3
  <2>12. HasSoFar(out, given, limit, Len(words)) /\ SoFar(given, Len(words)) = Asked(given)
    BY <2>1, <2>7, <2>8, FirstTopicsAre, AskedIsFinite DEF out
  <2>13. Rank(given, broad) \in 1 .. Len(out) /\ out[Rank(given, broad)] = Plain(broad)
    <3>1. Rank(given, broad) \in Nat
      BY <2>7, <2>8, <2>9, RankIs
    <3>2. Rank(given, broad) <= limit
      BY <2>1, <2>4, <2>7, <2>11, <3>1
    <3> QED BY <2>9, <2>12, <3>2 DEF HasSoFar
  <2>14. out # <<>>
    BY <2>13
  <2> QED BY <2>6, <2>13, <2>14 DEF Contains, broad, taxonomy
<1> QED BY <1>1, WireInvInductive, PTL DEF Spec

(***************************************************************************)
(* Detail references.                                                      *)
(***************************************************************************)
\* One step of Split.
SplitAt(parts, char) ==
  IF char = "/" THEN Append(parts, <<>>) ELSE [parts EXCEPT ![Len(parts)] = Append(@, char)]

\* The parts of a path after each of its N characters.
Splits(out, path, N) ==
  /\ out \in [0 .. N -> Seq(Seq({path[i] : i \in 1 .. N})) \ {<<>>}]
  /\ out[0] = << <<>> >>
  /\ \A n \in 1 .. N : out[n] = SplitAt(out[n - 1], path[n])
  /\ Split(path) = out[N]

\* Split is the run of its steps.
LEMMA SplitSteps ==
  ASSUME NEW path, NEW N \in Nat, DOMAIN path = 1 .. N
  PROVE  \E out : Splits(out, path, N)
<1> DEFINE T == {path[i] : i \in 1 .. N}
           V == Seq(Seq(T)) \ {<<>>}
           empty == << <<>> >>
           step == [p \in V \X (1 .. N) |-> SplitAt(p[1], path[p[2]])]
           fold == CHOOSE fold :
                     fold = [s \in SUBSET DOMAIN path |->
                               IF s = {} THEN << <<>> >> ELSE SplitAt(fold[s \ {Max(s)}], path[Max(s)])]
<1>1. \A v \in V, n \in 1 .. N : SplitAt(v, path[n]) \in V
  <2> SUFFICES ASSUME NEW v \in V, NEW n \in 1 .. N PROVE SplitAt(v, path[n]) \in V
    OBVIOUS
  <2>1. path[n] \in T
    OBVIOUS
  <2> HIDE DEF T
  <2>2. v \in Seq(Seq(T)) /\ Len(v) \in 1 .. Len(v)
    OBVIOUS
  <2>3. Append(v[Len(v)], path[n]) \in Seq(T)
    BY <2>1, <2>2
  <2>4. /\ [v EXCEPT ![Len(v)] = Append(@, path[n])] \in Seq(Seq(T))
        /\ Len([v EXCEPT ![Len(v)] = Append(@, path[n])]) = Len(v)
    BY <2>2, <2>3
  <2>5. /\ Append(v, <<>>) \in Seq(Seq(T)) /\ Append(v, <<>>) # <<>>
    BY <2>2
  <2> QED BY <2>2, <2>4, <2>5 DEF SplitAt
<1>2. step \in [V \X (1 .. N) -> V]
  BY <1>1
<1>3. \A v \in V, n \in 1 .. N : step[<<v, n>>] = SplitAt(v, path[n])
  OBVIOUS
<1>4. empty \in V
  OBVIOUS
<1>5. Split(path) = fold[DOMAIN path]
  BY Zenon DEF Split, FoldLeft, MapThenFoldSet, SplitAt
<1> HIDE DEF T, V, empty, step
<1>6. \E f : f = [s \in SUBSET DOMAIN path |->
                    IF s = {} THEN << <<>> >> ELSE SplitAt(f[s \ {Max(s)}], path[Max(s)])]
  <2>1. PICK f : FoldsPlaces(f, V, empty, N, step)
    BY <1>2, <1>4, FoldExists
  <2>2. ASSUME NEW s \in SUBSET (1 .. N), s # {}
        PROVE  step[<<f[s \ {Max(s)}], Max(s)>>] = SplitAt(f[s \ {Max(s)}], path[Max(s)])
    BY <1>3, <2>1, <2>2, MaxWithin DEF FoldsPlaces
  <2>3. f = [s \in SUBSET (1 .. N) |->
              IF s = {} THEN << <<>> >> ELSE SplitAt(f[s \ {Max(s)}], path[Max(s)])]
    BY <2>1, <2>2 DEF FoldsPlaces, empty
  <2> QED BY <2>3
<1>7. fold = [s \in SUBSET DOMAIN path |->
                IF s = {} THEN << <<>> >> ELSE SplitAt(fold[s \ {Max(s)}], path[Max(s)])]
  BY <1>6, Zenon
<1> HIDE DEF fold
<1>8. fold[{}] = empty
  BY <1>7 DEF empty
<1>9. ASSUME NEW n \in 1 .. N, fold[1 .. n - 1] \in V
      PROVE  fold[1 .. n] = step[<<fold[1 .. n - 1], n>>]
  <2>1. fold[1 .. n] = SplitAt(fold[1 .. n - 1], path[n])
    <3>1. /\ 1 .. n \in SUBSET DOMAIN path /\ 1 .. n # {}
          /\ Max(1 .. n) = n /\ (1 .. n) \ {n} = 1 .. n - 1
      BY FirstPlaces
    <3> QED BY <1>7, <3>1, Zenon
  <2> QED BY <1>3, <1>9, <2>1
<1>10. PICK out : RunsSteps(out, V, empty, N, step) /\ out[N] = fold[1 .. N]
  <2>1. StepsThrough(fold, V, empty, N, step)
    BY <1>2, <1>4, <1>8, <1>9 DEF StepsThrough
  <2> QED BY <2>1, FoldSteps
<1>11. \A n \in 1 .. N : out[n] = SplitAt(out[n - 1], path[n])
  <2>1. \A n \in 1 .. N : out[n - 1] \in V
    BY <1>10 DEF RunsSteps
  <2> QED BY <1>3, <1>10, <2>1 DEF RunsSteps
<1> QED BY <1>5, <1>10, <1>11 DEF RunsSteps, Splits, T, V, empty

\* One step of Clean.
Cleaned(out, part) ==
  CASE part \in {<<>>, <<".">>} -> out
    [] part = <<".", ".">> -> IF out = <<>> THEN out ELSE Front(out)
    [] OTHER -> Append(out, part)

\* What is left of N parts after each of them.
Cleans(out, parts, N) ==
  /\ out \in [0 .. N -> Seq({parts[i] : i \in 1 .. N})]
  /\ out[0] = <<>>
  /\ \A n \in 1 .. N : out[n] = Cleaned(out[n - 1], parts[n])
  /\ Clean(parts) = out[N]

\* Clean is the run of its steps.
LEMMA CleanSteps ==
  ASSUME NEW parts, NEW N \in Nat, DOMAIN parts = 1 .. N
  PROVE  \E out : Cleans(out, parts, N)
<1> DEFINE T == {parts[i] : i \in 1 .. N}
           V == Seq(T)
           empty == <<>>
           step == [p \in V \X (1 .. N) |-> Cleaned(p[1], parts[p[2]])]
           fold == CHOOSE fold :
                     fold = [s \in SUBSET DOMAIN parts |->
                               IF s = {} THEN <<>> ELSE Cleaned(fold[s \ {Max(s)}], parts[Max(s)])]
<1>1. \A v \in V, n \in 1 .. N : Cleaned(v, parts[n]) \in V
  BY DEF Cleaned, Front
<1>2. step \in [V \X (1 .. N) -> V]
  BY <1>1
<1>3. \A v \in V, n \in 1 .. N : step[<<v, n>>] = Cleaned(v, parts[n])
  OBVIOUS
<1>4. empty \in V
  OBVIOUS
<1>5. Clean(parts) = fold[DOMAIN parts]
  BY Zenon DEF Clean, FoldLeft, MapThenFoldSet, Cleaned
<1> HIDE DEF T, V, empty, step
<1>6. \E f : f = [s \in SUBSET DOMAIN parts |->
                    IF s = {} THEN <<>> ELSE Cleaned(f[s \ {Max(s)}], parts[Max(s)])]
  <2>1. PICK f : FoldsPlaces(f, V, empty, N, step)
    BY <1>2, <1>4, FoldExists
  <2>2. ASSUME NEW s \in SUBSET (1 .. N), s # {}
        PROVE  step[<<f[s \ {Max(s)}], Max(s)>>] = Cleaned(f[s \ {Max(s)}], parts[Max(s)])
    BY <1>3, <2>1, <2>2, MaxWithin DEF FoldsPlaces
  <2>3. f = [s \in SUBSET (1 .. N) |->
              IF s = {} THEN <<>> ELSE Cleaned(f[s \ {Max(s)}], parts[Max(s)])]
    BY <2>1, <2>2 DEF FoldsPlaces, empty
  <2> QED BY <2>3
<1>7. fold = [s \in SUBSET DOMAIN parts |->
                IF s = {} THEN <<>> ELSE Cleaned(fold[s \ {Max(s)}], parts[Max(s)])]
  BY <1>6, Zenon
<1> HIDE DEF fold
<1>8. fold[{}] = empty
  BY <1>7 DEF empty
<1>9. ASSUME NEW n \in 1 .. N, fold[1 .. n - 1] \in V
      PROVE  fold[1 .. n] = step[<<fold[1 .. n - 1], n>>]
  <2>1. fold[1 .. n] = Cleaned(fold[1 .. n - 1], parts[n])
    <3>1. /\ 1 .. n \in SUBSET DOMAIN parts /\ 1 .. n # {}
          /\ Max(1 .. n) = n /\ (1 .. n) \ {n} = 1 .. n - 1
      BY FirstPlaces
    <3> QED BY <1>7, <3>1, Zenon
  <2> QED BY <1>3, <1>9, <2>1
<1>10. PICK out : RunsSteps(out, V, empty, N, step) /\ out[N] = fold[1 .. N]
  <2>1. StepsThrough(fold, V, empty, N, step)
    BY <1>2, <1>4, <1>8, <1>9 DEF StepsThrough
  <2> QED BY <2>1, FoldSteps
<1>11. \A n \in 1 .. N : out[n] = Cleaned(out[n - 1], parts[n])
  <2>1. \A n \in 1 .. N : out[n - 1] \in V
    BY <1>10 DEF RunsSteps
  <2> QED BY <1>3, <1>10, <2>1 DEF RunsSteps
<1> QED BY <1>5, <1>10, <1>11 DEF RunsSteps, Cleans, T, V, empty

\* Short lists, and one more at their end.
LEMMA AppendToShort ==
  /\ \A a : Append(<<>>, a) = <<a>>
  /\ \A a, b : Append(<<a>>, b) = <<a, b>>
  /\ \A a, b, c : Append(<<a, b>>, c) = <<a, b, c>>
<1>1. ASSUME NEW a, NEW b PROVE Append(<<a>>, b) = <<a, b>>
  <2> DEFINE s == Append(<<a>>, b)
             t == <<a, b>>
  <2>1. s \in Seq({a, b}) /\ t \in Seq({a, b}) /\ Len(s) = Len(t) /\ \A i \in 1 .. Len(s) : s[i] = t[i]
    OBVIOUS
  <2> HIDE DEF s, t
  <2>2. s = t
    BY <2>1, SeqEqual
  <2> QED BY <2>2 DEF s, t
<1>2. ASSUME NEW a, NEW b, NEW c PROVE Append(<<a, b>>, c) = <<a, b, c>>
  <2> DEFINE s == Append(<<a, b>>, c)
             t == <<a, b, c>>
  <2>1. s \in Seq({a, b, c}) /\ t \in Seq({a, b, c}) /\ Len(s) = Len(t) /\ \A i \in 1 .. Len(s) : s[i] = t[i]
    OBVIOUS
  <2> HIDE DEF s, t
  <2>2. s = t
    BY <2>1, SeqEqual
  <2> QED BY <2>2 DEF s, t
<1> QED BY <1>1, <1>2

\* The path of a reference to an object whose id has no slash splits into its parts.
LEMMA SplitsIntoThree ==
  ASSUME NEW kind \in {"TaskSAE", "AgentFactSAE"}, NEW id, id \in Seq(Range(id)), "/" \notin Range(id)
  PROVE  Split(<<kind, "/">> \o id \o <<"/", "1">>) = <<<<kind>>, id, <<"1">>>>
<1> DEFINE L == Len(id)
           C == Range(id) \cup {kind, "/", "1"}
           path == <<kind, "/">> \o id \o <<"/", "1">>
           N == L + 4
<1>1. /\ L \in Nat /\ N \in Nat /\ id \in Seq(C) /\ DOMAIN id = 1 .. L
      /\ \A i \in 1 .. L : id[i] \in C /\ id[i] # "/"
  BY DEF Range
<1>2. /\ DOMAIN path = 1 .. N
      /\ path[1] = kind /\ path[2] = "/" /\ path[L + 3] = "/" /\ path[L + 4] = "1"
      /\ \A i \in 1 .. L : path[i + 2] = id[i]
  <2>1. <<kind, "/">> \in Seq(C) /\ <<"/", "1">> \in Seq(C)
    OBVIOUS
  <2> DEFINE head == <<kind, "/">> \o id
  <2>2. head \in Seq(C) /\ Len(head) = L + 2 /\ head[1] = kind /\ head[2] = "/"
        /\ \A i \in 1 .. L : head[i + 2] = id[i]
    BY <1>1, <2>1
  <2> HIDE DEF head, C
  <2>3. path = head \o <<"/", "1">>
    BY DEF head
  <2>4. Len(path) = L + 4 /\ path \in Seq(C)
    BY <1>1, <2>1, <2>2, <2>3
  <2>5. \A i \in 1 .. L + 2 : path[i] = head[i]
    BY <1>1, <2>1, <2>2, <2>3
  <2>6. path[L + 3] = "/" /\ path[L + 4] = "1"
    BY <1>1, <2>1, <2>2, <2>3
  <2> QED BY <1>1, <2>2, <2>4, <2>5, <2>6
<1> HIDE DEF path
<1>3. PICK out : Splits(out, path, N)
  BY <1>1, <1>2, SplitSteps
<1>4. /\ out[0] = << <<>> >> /\ Split(path) = out[N]
      /\ \A n \in 1 .. N : out[n] = SplitAt(out[n - 1], path[n])
  BY <1>3 DEF Splits
<1>5. out[2] = <<<<kind>>, <<>>>>
  <2>1. out[1] = SplitAt(out[0], kind) /\ out[2] = SplitAt(out[1], "/")
    BY <1>1, <1>2, <1>4
  <2>2. out[1] = <<<<kind>>>>
    BY <1>4, <2>1 DEF SplitAt
  <2> QED BY <2>1, <2>2, AppendToShort DEF SplitAt
<1> DEFINE Done == {m \in 0 .. L : out[m + 2] = <<<<kind>>, SubSeq(id, 1, m)>>}
<1>6. 0 \in Done
  <2>1. SubSeq(id, 1, 0) = <<>>
    OBVIOUS
  <2>2. out[2] = <<<<kind>>, SubSeq(id, 1, 0)>>
    BY <1>1, <1>5, <2>1, Zenon
  <2>3. 0 + 2 = 2 /\ 0 \in 0 .. L
    BY <1>1
  <2> QED BY <2>2, <2>3
<1>7. ASSUME NEW m \in 0 .. L - 1, m \in Done PROVE m + 1 \in Done
  <2>1. m + 1 \in 1 .. L /\ m + 1 \in 0 .. L /\ (m + 1) + 2 \in 1 .. N /\ ((m + 1) + 2) - 1 = m + 2
    BY <1>1
  <2>2. out[(m + 1) + 2] = SplitAt(out[m + 2], id[m + 1]) /\ id[m + 1] # "/"
    BY <1>1, <1>2, <1>4, <2>1
  <2>3. out[m + 2] = <<<<kind>>, SubSeq(id, 1, m)>>
    BY <1>7
  <2>4. out[(m + 1) + 2] = <<<<kind>>, Append(SubSeq(id, 1, m), id[m + 1])>>
    BY <2>2, <2>3 DEF SplitAt
  <2>5. Append(SubSeq(id, 1, m), id[m + 1]) = SubSeq(id, 1, m + 1)
    BY <1>1, <2>1
  <2> QED BY <2>1, <2>4, <2>5
<1> HIDE DEF Done
<1>8. \A m \in 0 .. L : m \in Done
  BY <1>1, <1>6, <1>7, UpTo
<1>9. out[L + 2] = <<<<kind>>, id>>
  <2>1. out[L + 2] = <<<<kind>>, SubSeq(id, 1, L)>>
    <3>1. L \in Done
      BY <1>1, <1>8
    <3> QED BY <3>1 DEF Done
  <2>2. SubSeq(id, 1, L) = id
    BY <1>1
  <2> QED BY <2>1, <2>2
<1>10. out[L + 3] = SplitAt(out[L + 2], "/") /\ out[L + 4] = SplitAt(out[L + 3], "1")
  <2>1. /\ L + 3 \in 1 .. N /\ L + 4 \in 1 .. N
        /\ (L + 3) - 1 = L + 2 /\ (L + 4) - 1 = L + 3
    BY <1>1
  <2> QED BY <1>2, <1>4, <2>1
<1>11. out[L + 3] = <<<<kind>>, id, <<>>>>
  BY <1>9, <1>10, AppendToShort DEF SplitAt
<1>12. out[L + 4] = <<<<kind>>, id, <<"1">>>>
  <2>1. [<<<<kind>>, id, <<>>>> EXCEPT ![3] = <<"1">>] = <<<<kind>>, id, <<"1">>>>
    OBVIOUS
  <2>2. Len(<<<<kind>>, id, <<>>>>) = 3 /\ <<<<kind>>, id, <<>>>>[3] = <<>> /\ Append(<<>>, "1") = <<"1">>
    BY AppendToShort
  <2> DEFINE parts == <<<<kind>>, id, <<>>>>
  <2>3. SplitAt(parts, "1") = [parts EXCEPT ![3] = <<"1">>]
    BY <2>2 DEF SplitAt
  <2> QED BY <1>10, <1>11, <2>1, <2>3
<1> QED BY <1>4, <1>12 DEF path

\* Cleaning leaves the three parts as they are unless the id is made of dots, which
\* takes parts away.
LEMMA CleansDotsOnly ==
  ASSUME NEW kind \in {"TaskSAE", "AgentFactSAE"}, NEW id, id # <<>>
  PROVE  LET parts == Clean(<<<<kind>>, id, <<"1">>>>)
         IN  IF id \in Dots THEN Len(parts) < 3 ELSE parts = <<<<kind>>, id, <<"1">>>>
<1> DEFINE all == <<<<kind>>, id, <<"1">>>>
<1>1. 3 \in Nat /\ DOMAIN all = 1 .. 3 /\ all[1] = <<kind>> /\ all[2] = id /\ all[3] = <<"1">>
  OBVIOUS
<1> HIDE DEF all
<1>2. PICK out : Cleans(out, all, 3)
  BY <1>1, CleanSteps
<1>3. /\ out[0] = <<>> /\ Clean(all) = out[3]
      /\ out[1] = Cleaned(out[0], <<kind>>) /\ out[2] = Cleaned(out[1], id)
      /\ out[3] = Cleaned(out[2], <<"1">>)
  BY <1>1, <1>2 DEF Cleans
<1>4. <<kind>> \notin {<<>>, <<".">>, <<".", ".">>} /\ <<"1">> \notin {<<>>, <<".">>, <<".", ".">>}
  OBVIOUS
<1>5. out[1] = <<<<kind>>>>
  BY <1>3, <1>4 DEF Cleaned
<1>6. \A v : Cleaned(v, <<"1">>) = Append(v, <<"1">>)
  BY <1>4 DEF Cleaned
<1>7. CASE id = <<".">>
  <2>1. out[2] = <<<<kind>>>>
    BY <1>3, <1>5, <1>7 DEF Cleaned
  <2>2. out[3] = <<<<kind>>, <<"1">>>>
    <3>1. out[3] = Append(<<<<kind>>>>, <<"1">>)
      BY <1>3, <1>6, <2>1
    <3> QED BY <3>1, AppendToShort, Zenon
  <2> QED BY <1>3, <1>7, <2>2 DEF Dots, all
<1>8. CASE id = <<".", ".">>
  <2>1. Front(<<<<kind>>>>) = <<>>
    BY DEF Front
  <2>2. out[2] = <<>>
    BY <1>3, <1>5, <1>8, <2>1 DEF Cleaned
  <2>3. out[3] = <<<<"1">>>>
    <3>1. out[3] = Append(<<>>, <<"1">>)
      BY <1>3, <1>6, <2>2
    <3> QED BY <3>1, AppendToShort, Zenon
  <2> QED BY <1>3, <1>8, <2>3 DEF Dots, all
<1>9. CASE id \notin Dots
  <2>1. out[2] = <<<<kind>>, id>>
    <3>1. out[2] = Append(<<<<kind>>>>, id)
      BY <1>3, <1>5, <1>9 DEF Cleaned, Dots
    <3> QED BY <3>1, AppendToShort, Zenon
  <2>2. out[3] = <<<<kind>>, id, <<"1">>>>
    <3>1. out[3] = Append(<<<<kind>>, id>>, <<"1">>)
      BY <1>3, <1>6, <2>1
    <3> QED BY <3>1, AppendToShort, Zenon
  <2> QED BY <1>3, <1>9, <2>2 DEF all
<1> QED BY <1>7, <1>8, <1>9 DEF Dots

\* Whatever id without slashes an object has, however long, its detail can be asked
\* for if and only if the id is not made of dots and url.PathUnescape takes it
\* (BuildDetailRef and ParseDetailRef).
THEOREM WhichDetailsAreFetchable == Spec => []PlainIdsAreFetchable
<1>1. WireInv => PlainIdsAreFetchable
  <2> SUFFICES ASSUME WireInv, sent # None, "/" \notin Range(request.id)
               PROVE  ParseDetailRefSucceeds(sent.detail_ref)
                        <=> request.id \notin Dots /\ Unescapes(request.id)
    BY DEF PlainIdsAreFetchable, Out
  <2> DEFINE kind == request.kind
             id == request.id
             all == <<<<kind>>, id, <<"1">>>>
             parts == Clean(all)
  <2>1. kind \in {"TaskSAE", "AgentFactSAE"} /\ id \in Seq(Range(id)) /\ id # <<>>
    BY SentSays, WireAssumption
  <2>2. sent.detail_ref.path = <<kind, "/">> \o id \o <<"/", "1">>
    BY SentSays DEF BuildDetailRef
  <2>3. Split(sent.detail_ref.path) = all
    BY <2>1, <2>2, SplitsIntoThree
  <2>4. ParseDetailRefSucceeds(sent.detail_ref) <=> Len(parts) >= 3 /\ Unescapes(parts[2])
    BY <2>3 DEF ParseDetailRefSucceeds
  <2>5. IF id \in Dots THEN Len(parts) < 3 ELSE parts = all
    BY <2>1, CleansDotsOnly
  <2>6. Len(all) = 3 /\ all[2] = id
    OBVIOUS
  <2> HIDE DEF parts, all
  <2>7. CASE id \in Dots
    <3>1. ~ (Len(parts) >= 3)
      BY <2>5, <2>7
    <3> QED BY <2>4, <2>7, <3>1
  <2>8. CASE id \notin Dots
    <3>1. Len(parts) >= 3 /\ parts[2] = id
      BY <2>5, <2>6, <2>8
    <3> QED BY <2>4, <2>8, <3>1
  <2> QED BY <2>7, <2>8
<1> QED BY <1>1, WireInvInductive, PTL DEF Spec
=============================================================================
