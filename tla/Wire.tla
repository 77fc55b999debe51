-------------------------------- MODULE Wire --------------------------------
(***************************************************************************)
(* One envelope from the request of a client to the nodes that get it: the *)
(* topics it goes out on (normalizeTopics and TopicsFromTaxonomy of        *)
(* internal/p2p/node.go), its validation, signature and size               *)
(* (internal/sae/envelope.go), the policy of either side                   *)
(* (enforceEnvelopePolicy), and its detail_ref (rpc_fetch.go).             *)
(*                                                                         *)
(* Strings are what the code tells apart.  A topic is its path below       *)
(* openagent/v1; as clients and envelopes write it, it may be padded with  *)
(* spaces, and the empty path is blank.  A taxonomy is its parts.  A       *)
(* summary is its size, 0 for a missing one, in units of which a topic     *)
(* takes one; an object id is its characters.  JSON (external) gives back  *)
(* what was encoded.  A signature is the key and what it was made of.      *)
(* Policies require signatures, as cmd/p2p.go configures them.             *)
(***************************************************************************)
EXTENDS SequencesExt, Integers

CONSTANTS Requests,      \* what clients ask for
          Policies,      \* as configured, of which zero values are none
          Publisher,     \* the peer that publishes; a peer's name is that of its key
          OtherPeer,
          Alternatives,  \* what may come instead in a field of an envelope
          Missing,       \* the value of an empty field
          MaxEnvelopeSize,
          DefaultPolicy,
          Second,        \* in ticks
          Half,          \* 2^63, of a duration: it is from -Half to Half - 1
          DefaultTTL,    \* a day in ticks
          Now            \* when NewTaskSAE or NewAgentFactSAE reads the clock

ASSUME WireAssumption ==
  /\ Publisher # OtherPeer
  /\ DefaultPolicy \in [{"conf_min", "topic_limit", "msg_size_limit"} -> Nat \ {0}]
  /\ \A p \in Policies : p \in [DOMAIN DefaultPolicy -> Int]
  \* Nobody but the publisher makes its signature.
  /\ "sig" \in DOMAIN Alternatives => Alternatives["sig"] \subseteq {Missing}
  /\ \A r \in Requests : r.ttl_sec \in Int /\ r.conf \in Int /\ r.summary \in Nat
  \* Lists are sequences, and an id has characters.
  /\ \A r \in Requests :
       /\ r.topics \in Seq(Range(r.topics))
       /\ r.taxonomy # Missing => r.taxonomy \in Seq(Range(r.taxonomy))
       /\ r.id # Missing => r.id \in Seq(Range(r.id)) /\ r.id # <<>>
  /\ {Second, Half, DefaultTTL, Now} \subseteq Nat \ {0}
  /\ DefaultTTL < Half

VARIABLES request,  \* what the client asked for
          policy,   \* the publisher's
          sent,     \* the envelope that went out, or None
          copy      \* what came to another node in its place, or None

vars == <<request, policy, sent, copy>>

None == [kind |-> "none"]

\* Policy.Normalize (the rate limit likewise)
Normalize(p) == [f \in DOMAIN p |-> IF p[f] <= 0 THEN DefaultPolicy[f] ELSE p[f]]

----------------------------------------------------------------------------
(***************************************************************************)
(* Topics.                                                                 *)
(***************************************************************************)
General == <<"general">>

Plain(path) == [path |-> path, padded |-> FALSE]

\* The parts of a taxonomy; blank ones do not count.
Words(taxonomy) ==
  FoldLeft(LAMBDA words, part : IF part.word = "" THEN words ELSE Append(words, part.word),
           <<>>, taxonomy)

PartsAsTopics(taxonomy) == [i \in DOMAIN Words(taxonomy) |-> Plain(<<Words(taxonomy)[i]>>)]

\* The topics of a taxonomy, the broadest first.
TopicsFromTaxonomy(taxonomy) ==
  LET words == Words(taxonomy)
  IN  IF words = <<>> THEN <<Plain(General)>>
                      ELSE [i \in DOMAIN words |-> Plain(SubSeq(words, 1, i))]

Given(topics, taxonomy) == IF topics = <<>> THEN TopicsFromTaxonomy(taxonomy) ELSE topics

\* A duplicate takes a place.
FirstWithDuplicates(given, limit) ==
  LET named == SelectSeq(given, LAMBDA topic : topic.path # <<>>)
  IN  [i \in 1 .. IF Len(named) < limit THEN Len(named) ELSE limit |-> Plain(named[i].path)]

\* The different topics of a list, trimmed, as many as the limit.
FirstTopics(given, limit) ==
  FoldLeft(LAMBDA out, topic :
             IF topic.path = <<>> \/ Contains(out, Plain(topic.path)) \/ Len(out) >= limit
               THEN out
               ELSE Append(out, Plain(topic.path)),
           <<>>, given)

\* Topics that are all blank give the general one, not those of the taxonomy.
NormalizeTopics(topics, taxonomy, limit) ==
  LET out == FirstTopics(Given(topics, taxonomy), limit)
  IN  IF out = <<>> THEN <<Plain(General)>> ELSE out

----------------------------------------------------------------------------
(***************************************************************************)
(* Times to live.                                                          *)
(***************************************************************************)
Wrapped(n) == ((n + Half) % (2 * Half)) - Half

\* ttlDuration multiplies in 64 bits.
Duration(seconds) == IF seconds <= 0 THEN DefaultTTL ELSE Wrapped(seconds * Second)

LifetimeOfADayOrMore(duration) == IF duration <= DefaultTTL THEN DefaultTTL ELSE duration

\* NewTaskSAE, NewAgentFactSAE
Lifetime(duration) == IF duration <= 0 THEN DefaultTTL ELSE duration

----------------------------------------------------------------------------
(***************************************************************************)
(* The envelope.  task_id and fact_id are one field: kind tells which.     *)
(***************************************************************************)
DID(peer) == <<"did:key", peer>>

Ops == {"UPSERT", "COMPLETE", "WITHDRAW"}

Size(env) == env.summary + Len(env.topics)

ValidUnsigned(env) ==
  /\ env.kind \in {"TaskSAE", "AgentFactSAE"}
  /\ \A field \in {"origin", "publisher", "detail_ref", "id", "taxonomy"} : env[field] # Missing
  /\ env.seq # 0
  /\ env.topics # <<>>
  /\ env.summary # 0
  /\ env.expires_at # 0
  /\ env.kind = "TaskSAE" => env.op \in Ops
  /\ env.kind = "AgentFactSAE" => env.fact_kind # Missing

\* Encode fits and there is a signature.
ValidSigned(env) ==
  /\ ValidUnsigned(env)
  /\ env.sig # Missing
  /\ Size(env) <= MaxEnvelopeSize

\* The topics of an envelope that are not blank, trimmed.
Named(topics) == SelectSeq([i \in DOMAIN topics |-> topics[i].path], LAMBDA path : path # <<>>)

CanonicalWithoutOp(env) == [env EXCEPT !.topics = Named(@), !.sig = Missing, !.op = Missing]

\* What is signed: every field but the signature, the topics trimmed.
Canonical(env) == [env EXCEPT !.topics = Named(@), !.sig = Missing]

Signed(env, key) == [env EXCEPT !.sig = <<key, Canonical(env)>>]

\* VerifyPublisher: the publisher's key, which is its peer id, verifies the
\* signature and gives the origin.
Verified(env) ==
  /\ ValidSigned(env)
  /\ env.sig = <<env.publisher, Canonical(env)>>
  /\ env.origin = DID(env.publisher)

\* enforceEnvelopePolicy, but for the rate (module Inbound), as run configures it.
Enforced(p, env) ==
  /\ Len(env.topics) <= p.topic_limit
  /\ env.conf >= p.conf_min
  /\ Size(env) <= MaxEnvelopeSize
  /\ Size(env) <= p.msg_size_limit
  /\ Verified(env)

----------------------------------------------------------------------------
(***************************************************************************)
(* Detail references.  BuildDetailRef escapes the id, which url.Parse      *)
(* undoes; ParseDetailRef cleans the path then, splits it at the slashes   *)
(* and unescapes the id once more.                                         *)
(***************************************************************************)
HexDigits == {"a"}

BuildDetailRef(peer, kind, id, version) ==
  [peer |-> peer, path |-> <<kind, "/">> \o id \o <<"/", version>>]

Split(path) ==
  FoldLeft(LAMBDA parts, char : IF char = "/" THEN Append(parts, <<>>)
                                ELSE [parts EXCEPT ![Len(parts)] = Append(@, char)],
           << <<>> >>, path)

\* path.Clean of a path that starts with a slash
Clean(parts) ==
  FoldLeft(LAMBDA out, part : CASE part \in {<<>>, <<".">>} -> out
                                [] part = <<".", ".">> -> IF out = <<>> THEN out ELSE Front(out)
                                [] OTHER -> Append(out, part),
           <<>>, parts)

\* url.PathUnescape wants two digits after each percent sign.
Unescapes(part) ==
  \A i \in DOMAIN part : part[i] = "%" =>
    i + 2 <= Len(part) /\ part[i + 1] \in HexDigits /\ part[i + 2] \in HexDigits

ParsesIfLonger(ref) ==
  LET parts == Clean(Split(ref.path))
  IN  Len(parts) > 3 /\ Unescapes(parts[2])

ParseDetailRefSucceeds(ref) ==
  LET parts == Clean(Split(ref.path))
  IN  Len(parts) >= 3 /\ Unescapes(parts[2])

----------------------------------------------------------------------------
EnvelopeOf(r) ==
  [kind       |-> r.kind,
   origin     |-> DID(Publisher),
   publisher  |-> Publisher,
   seq        |-> 1,
   topics     |-> NormalizeTopics(r.topics, r.taxonomy, policy.topic_limit),
   summary    |-> r.summary,
   detail_ref |-> BuildDetailRef(Publisher, r.kind, r.id, "1"),
   expires_at |-> Now + Lifetime(Duration(r.ttl_sec)),
   id         |-> r.id,
   op         |-> IF r.kind = "TaskSAE" /\ r.op = Missing THEN "UPSERT" ELSE r.op,
   taxonomy   |-> r.taxonomy,
   conf       |-> r.conf,
   fact_kind  |-> r.fact_kind,
   sig        |-> Missing]

Init ==
  /\ request \in Requests
  /\ policy \in {Normalize(p) : p \in Policies}
  /\ sent = None
  /\ copy = None

ChecksNothing(env) == TRUE

\* enforceEnvelopePolicy, outbound
Checks(env) == Enforced(policy, env)

\* PublishTask or PublishFact, as far as it may refuse the request.  It reads the
\* clock once, for the envelope: it goes out even if it has expired since.
Publish ==
  LET env == Signed(EnvelopeOf(request), Publisher)
  IN  /\ sent = None
      /\ request.taxonomy # Missing /\ request.summary # 0
      /\ request.kind = "AgentFactSAE" => request.fact_kind # Missing
      /\ ValidSigned(env)
      /\ Checks(env)
      /\ sent' = env
      /\ UNCHANGED <<request, policy, copy>>

\* Another node gets the envelope, or one with other values in up to two fields,
\* which another peer may have signed.
Arrive(env) ==
  /\ sent # None
  /\ copy = None
  /\ copy' = env
  /\ UNCHANGED <<request, policy, sent>>

\* DecodeEnvelope, then enforceEnvelopePolicy at a node with policy p.
Admits(p, env) == ValidSigned(env) /\ Enforced(p, env)

Next ==
  \/ Publish
  \/ Arrive(sent)
  \/ \E f, g \in DOMAIN Alternatives :
       \E v \in Alternatives[f], w \in Alternatives[g] :
         LET env == [sent EXCEPT ![f] = v, ![g] = w]
         IN  Arrive(env) \/ Arrive(Signed(env, OtherPeer))

Spec == Init /\ [][Next]_vars

----------------------------------------------------------------------------
\* The envelope has just left.
Out == sent # None /\ copy = None

\* The different topics that a list names, the place of the first mention of each,
\* and its rank among them.
Asked(given) == {given[i].path : i \in DOMAIN given} \ {<<>>}

First(given, path) ==
  CHOOSE i \in DOMAIN given : given[i].path = path /\ \A j \in 1 .. i - 1 : given[j].path # path

Rank(given, path) ==
  Cardinality({other \in Asked(given) : First(given, other) < First(given, path)}) + 1

\* Whatever list of topics a client gives, with blanks, spaces and topics given
\* twice in any place, its envelope goes out on the first of the different topics
\* in it, in their order, as many as the policy allows and none less; on those of
\* the taxonomy if the list is empty, and on the general one if it names none
\* (normalizeTopics cuts while it removes duplicates).
GoesOutWhereAsked ==
  Out =>
    LET given  == Given(request.topics, request.taxonomy)
        within == {path \in Asked(given) : Rank(given, path) <= policy.topic_limit}
    IN  {<<i, sent.topics[i].path>> : i \in DOMAIN sent.topics} =
          IF Asked(given) = {} THEN {<<1, General>>} ELSE {<<Rank(given, path), path>> : path \in within}

\* A node that listens to the topic of a taxonomy hears everything that is
\* published below it without topics of its own, unless the publisher's limit cuts
\* the list, which takes the narrowest topics away (TopicsFromTaxonomy).
NarrowReachesBroad ==
  Out /\ request.topics = <<>> =>
    \A n \in 1 .. Len(request.taxonomy) :
      LET broad == Words(SubSeq(request.taxonomy, 1, n))
      IN  broad # <<>> /\ Len(broad) <= policy.topic_limit => Contains(sent.topics, Plain(broad))

\* What leaves a node is admitted, as it left, by every node whose policy is no
\* stricter: no publication that its client was told has succeeded is refused for
\* its topics, size, confidence or signature (PublishTask and PublishFact sign,
\* then check with the function that the receivers use).
SentIsAdmitted ==
  Out => \A p \in {Normalize(q) : q \in Policies} :
           /\ p.topic_limit >= policy.topic_limit
           /\ p.msg_size_limit >= policy.msg_size_limit
           /\ p.conf_min <= policy.conf_min
           => Admits(p, sent)

\* An envelope about one of the publisher's objects that a node admits says what
\* the publisher signed, but for blank and padded topics, which the signature
\* leaves out (canonical); nor can another peer sign for these objects
\* (VerifyPublisher compares the key with the origin).
AdmittedIsAsSigned ==
  /\ copy # None
  /\ copy.origin = DID(Publisher)
  /\ \E p \in Policies : Admits(Normalize(p), copy)
  => /\ \A field \in DOMAIN sent \ {"topics"} : copy[field] = sent[field]
     /\ Named(copy.topics) = Named(sent.topics)

\* However long a client asks for, an envelope is not made for longer: where the
\* seconds overflow 64 bits as nanoseconds and come out as anything, or negative
\* and are replaced by the default, that is still less than was asked for; where
\* they fit it is exactly that (ttlDuration does not check the product, NewTaskSAE
\* and NewAgentFactSAE see only its sign).  It may be far less, down to nanoseconds
\* that are over before the envelope leaves.
NeverOutlivesRequest ==
  Out /\ request.ttl_sec > 0 =>
    LET asked == request.ttl_sec * Second
        life  == sent.expires_at - Now
    IN  0 < life /\ life <= asked /\ (asked < Half => life = asked)

Dots == {<<".">>, <<".", ".">>}

\* A detail can be asked for at its owner unless its object's id is made of dots
\* or has a percent sign that no two digits follow; so can every detail of an
\* object that the program named itself (BuildDetailRef and ParseDetailRef do not
\* undo each other for all ids: the id is unescaped twice, and the path cleaned in
\* between).  Ids with slashes are left out.
PlainIdsAreFetchable ==
  Out /\ "/" \notin Range(request.id)
    => (ParseDetailRefSucceeds(sent.detail_ref) <=> request.id \notin Dots /\ Unescapes(request.id))
=============================================================================
