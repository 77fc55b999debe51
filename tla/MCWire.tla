------------------------------- MODULE MCWire -------------------------------
(***************************************************************************)
(* Module Wire for TLC: requests that vary one aspect each, three policies,*)
(* and other values for each field of an envelope.                         *)
(***************************************************************************)
EXTENDS Wire

CONSTANTS other

Topic(path, padded) == [path |-> path, padded |-> padded]
Part(word, padded) == [word |-> word, padded |-> padded]

Blank == Topic(<<>>, TRUE)

TopicLists ==
  LET one == {Topic(<<"a">>, FALSE), Topic(<<"a">>, TRUE), Topic(<<"b">>, FALSE), Blank}
  IN  UNION {[1 .. n -> one] : n \in 0 .. 3}

Taxonomies ==
  LET one == {Part("a", FALSE), Part("a", TRUE), Part("b", FALSE), Part("", TRUE)}
  IN  UNION {[1 .. n -> one] : n \in 1 .. 3}

Ids == UNION {[1 .. n -> {"a", "/", ".", "%"}] : n \in 1 .. 3}

Task == [kind |-> "TaskSAE", id |-> <<"x">>, op |-> Missing, taxonomy |-> <<Part("a", FALSE), Part("b", FALSE)>>,
         topics |-> <<>>, summary |-> 1, conf |-> 700, ttl_sec |-> 1, fact_kind |-> Missing]

Fact == [Task EXCEPT !.kind = "AgentFactSAE", !.fact_kind = other]

MCRequests ==
       {[Task EXCEPT !.topics = list] : list \in TopicLists}
  \cup {[Fact EXCEPT !.taxonomy = taxonomy] : taxonomy \in Taxonomies}
  \cup {[Task EXCEPT !.id = id] : id \in Ids}
  \cup {[Fact EXCEPT !.summary = size, !.conf = conf] : size \in 0 .. 4, conf \in {0, 600, 700, 800}}
  \cup {[Task EXCEPT !.ttl_sec = seconds] : seconds \in 0 .. 20}
  \cup {[Task EXCEPT !.op = op] : op \in {"COMPLETE", "WITHDRAW", "CLOSE"}}
  \cup {[Task EXCEPT !.taxonomy = Missing], [Fact EXCEPT !.fact_kind = Missing]}

MCPolicies ==
  {[conf_min |-> 0, topic_limit |-> -1, msg_size_limit |-> 0],
   [conf_min |-> 650, topic_limit |-> 2, msg_size_limit |-> 5],
   [conf_min |-> 800, topic_limit |-> 1, msg_size_limit |-> 3]}

MCDefaultPolicy == [conf_min |-> 700, topic_limit |-> 3, msg_size_limit |-> 4]

MCAlternatives ==
  [kind |-> {"TaskSAE", "AgentFactSAE"}, origin |-> {DID(OtherPeer)}, publisher |-> {OtherPeer},
   seq |-> {0, 2}, topics |-> {<<Topic(<<"a">>, TRUE), Blank>>, <<Topic(<<"b">>, FALSE)>>},
   summary |-> {2}, detail_ref |-> {BuildDetailRef(OtherPeer, "TaskSAE", <<"x">>, "1")},
   expires_at |-> {20}, id |-> {<<"a">>}, op |-> {Missing, "WITHDRAW"},
   taxonomy |-> {<<Part("b", FALSE)>>}, conf |-> {900}, fact_kind |-> {Missing, other}, sig |-> {Missing}]
=============================================================================
