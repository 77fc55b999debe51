---------------------------- MODULE Negotiation ----------------------------
(***************************************************************************)
(* Negotiation between nodes: SendNegotiation and handleNegotiate of       *)
(* internal/p2p/node.go, the stream protocol of rpc_negotiate.go and       *)
(* RecordNegotiation of store.go.                                          *)
(*                                                                         *)
(* A request records its frame at the sender, is validated, goes over a    *)
(* stream of its own, is recorded at the receiver, answered, the answer    *)
(* recorded there and then at the sender: four locked steps on two nodes,  *)
(* with other requests, failed writes, broken streams, impatient callers   *)
(* and the end of either process in between.  A stream neither repeats nor *)
(* reorders.                                                               *)
(*                                                                         *)
(* A session is the sequence of its frames: its state and its peer are     *)
(* those of the last one.                                                  *)
(***************************************************************************)
EXTENDS Naturals, SequencesExt

CONSTANTS Nodes, Sessions,
          Requests,   \* the calls of the agents to /v1/negotiate
          Asked       \* the ops they ask for

Ops == {"offer", "accept", "reject", "cancel", "message", "complete"}

ASSUME NegotiationAssumption == Asked \subseteq STRING

VARIABLES mem,      \* the sessions in the memory of each node
          file,     \* its negotiations.json
          up,       \* the nodes that run
          frame,    \* the frame of each request
          pc,       \* how far its sender is
          handler,  \* how far its receiver is
          earlier   \* history: the requests answered when this one was made

vars == <<mem, file, up, frame, pc, handler, earlier>>

NoFrame == [kind |-> "none"]

FrameSet == [kind: {"request", "answer", "error"}, req: Requests, session: Sessions,
             op: Asked, from: Nodes, to: Nodes]

AnswersWithStatus(f, kind) == [f EXCEPT !.kind = kind, !.op = "received"]

Answer(f, kind) == [f EXCEPT !.kind = kind, !.from = f.to, !.to = f.from]

StateOf(session) == Last(session).op

Empty == [s \in Sessions |-> <<>>]

Init ==
  /\ mem = [n \in Nodes |-> Empty]
  /\ file = [n \in Nodes |-> Empty]
  /\ up = Nodes
  /\ frame = [r \in Requests |-> NoFrame]
  /\ pc = [r \in Requests |-> "idle"]
  /\ handler = [r \in Requests |-> "none"]
  /\ earlier = [r \in Requests |-> {}]

----------------------------------------------------------------------------
RecordsInFront(n, f, written) ==
  /\ n \in up
  /\ mem' = [mem EXCEPT ![n][f.session] = <<f>> \o @]
  /\ file' = IF written THEN [file EXCEPT ![n] = mem'[n]] ELSE file

RecordsThisSession(n, f, written) ==
  /\ n \in up
  /\ mem' = [mem EXCEPT ![n][f.session] = Append(@, f)]
  /\ file' = IF written THEN [file EXCEPT ![n] = [Empty EXCEPT ![f.session] = mem'[n][f.session]]]
                        ELSE file

\* RecordNegotiation: the memory first, then the file with every session.
Records(n, f, written) ==
  /\ n \in up
  /\ mem' = [mem EXCEPT ![n][f.session] = Append(@, f)]
  /\ file' = IF written THEN [file EXCEPT ![n] = mem'[n]] ELSE file

IgnoresFailure(written) == TRUE

\* A request whose frame cannot be written ends there.
MayProceed(written) == written

\* SendNegotiation, up to its record; nothing has looked at the op yet.
Send(r, n, m, s, op, written) ==
  /\ pc[r] = "idle"
  /\ LET f == [kind |-> "request", req |-> r, session |-> s, op |-> op, from |-> n, to |-> m]
     IN  /\ Records(n, f, written)
         /\ frame' = [frame EXCEPT ![r] = f]
  /\ pc' = [pc EXCEPT ![r] = IF MayProceed(written) THEN "recorded" ELSE "failed"]
  /\ earlier' = [earlier EXCEPT ![r] = {q \in Requests : pc[q] = "done"}]
  /\ UNCHANGED <<up, handler>>

SupportsAny(op) == TRUE

\* validateNegotiation
Supported(op) == op \in Ops

\* SendNegotiationFrame: a stream to another, running node, the validation, the
\* frame.
Transmit(r) ==
  /\ pc[r] = "recorded"
  /\ frame[r].to # frame[r].from
  /\ frame[r].to \in up
  /\ Supported(frame[r].op)
  /\ pc' = [pc EXCEPT ![r] = "sent"]
  /\ handler' = [handler EXCEPT ![r] = "arrived"]
  /\ UNCHANGED <<mem, file, up, frame, earlier>>

\* No stream, an op that is not supported, or a broken stream.  What was sent may
\* still arrive.
GiveUp(r) ==
  /\ pc[r] \in {"recorded", "sent"}
  /\ pc' = [pc EXCEPT ![r] = "failed"]
  /\ UNCHANGED <<mem, file, up, frame, handler, earlier>>

\* handleNegotiate, up to the record of the request.  What it validates the
\* sender has validated already.
Receive(r, written) ==
  /\ handler[r] = "arrived"
  /\ Records(frame[r].to, frame[r], written)
  /\ handler' = [handler EXCEPT ![r] = IF MayProceed(written) THEN "recorded" ELSE "errored"]
  /\ UNCHANGED <<up, frame, pc, earlier>>

\* The rest of handleNegotiate: the answer, recorded if it can be.
Reply(r, written) ==
  /\ handler[r] = "recorded"
  /\ Records(frame[r].to, Answer(frame[r], "answer"), written)
  /\ handler' = [handler EXCEPT ![r] = "answered"]
  /\ UNCHANGED <<up, frame, pc, earlier>>

\* The sender gets the answer, or the frame that stands for the receiver's
\* error, and records it if it can.
GetReply(r, written) ==
  /\ pc[r] = "sent"
  /\ handler[r] \in {"answered", "errored"}
  /\ Records(frame[r].from, Answer(frame[r], IF handler[r] = "answered" THEN "answer" ELSE "error"), written)
  /\ pc' = [pc EXCEPT ![r] = "done"]
  /\ UNCHANGED <<up, frame, handler, earlier>>

Stop(n) ==
  /\ n \in up
  /\ up' = up \ {n}
  /\ mem' = [mem EXCEPT ![n] = Empty]
  /\ pc' = [r \in Requests |-> IF pc[r] \in {"recorded", "sent"} /\ frame[r].from = n
                                 THEN "failed" ELSE pc[r]]
  /\ handler' = [r \in Requests |-> IF handler[r] \in {"arrived", "recorded"} /\ frame[r].to = n
                                      THEN "gone" ELSE handler[r]]
  /\ UNCHANGED <<file, frame, earlier>>

Start(n) ==
  /\ n \notin up
  /\ up' = up \cup {n}
  /\ mem' = [mem EXCEPT ![n] = file[n]]
  /\ UNCHANGED <<file, frame, pc, handler, earlier>>

Next ==
  \/ \E r \in Requests, n, m \in Nodes, s \in Sessions, op \in Asked, written \in BOOLEAN :
       Send(r, n, m, s, op, written)
  \/ \E r \in Requests : Transmit(r) \/ GiveUp(r)
  \/ \E r \in Requests, written \in BOOLEAN :
       Receive(r, written) \/ Reply(r, written) \/ GetReply(r, written)
  \/ \E n \in Nodes : Stop(n) \/ Start(n)

Spec == Init /\ [][Next]_vars

----------------------------------------------------------------------------
NegotiationTypeOK ==
  /\ mem \in [Nodes -> [Sessions -> Seq(FrameSet)]]
  /\ file \in [Nodes -> [Sessions -> Seq(FrameSet)]]
  /\ up \subseteq Nodes
  /\ frame \in [Requests -> FrameSet \cup {NoFrame}]
  /\ pc \in [Requests -> {"idle", "recorded", "sent", "done", "failed"}]
  /\ handler \in [Requests -> {"none", "arrived", "recorded", "answered", "errored", "gone"}]
  /\ earlier \in [Requests -> SUBSET Requests]

\* What a node has from its peer, the peer has on its own disk: a request before
\* it is received, so that the restart of a sender never leaves a negotiation
\* that only its partner knows of (SendNegotiation records before it sends).
SenderHasItFirst ==
  \A n \in Nodes, s \in Sessions : \A f \in ToSet(mem[n][s]) \cup ToSet(file[n][s]) :
     f.kind = "request" /\ f.to = n /\ f.from # n => f \in ToSet(file[f.from][s])

\* The operator manual: "one `negotiate` frame roundtrip is recorded in
\* `/v1/sessions`".  A request that was answered, other than with an error, is on
\* the disks of both nodes, whatever write failed after (handleNegotiate records
\* before it answers).
RoundTripIsRecorded ==
  \A n \in Nodes, s \in Sessions : \A f \in ToSet(mem[n][s]) :
     f.kind = "answer" => /\ frame[f.req] \in ToSet(file[f.from][s])
                          /\ frame[f.req] \in ToSet(file[f.to][s])

\* negotiations.json only grows, one session at its end: a write replaces the
\* whole file with the memory, and never loses a frame that was on disk, nor
\* changes their order, although the memory may have missed writes or be reloaded.
DiskOnlyGrows ==
  [][\A n \in Nodes, s \in Sessions : IsPrefix(file[n][s], file'[n][s])]_vars

Position(session, r) ==
  CHOOSE i \in DOMAIN session : session[i].req = r /\ session[i].kind = "request"

Has(session, r) == \E i \in DOMAIN session : session[i].req = r /\ session[i].kind = "request"

\* A request that was made after another was answered comes after it in the
\* session of both nodes, through restarts, late frames and crossing requests.
AnsweredComesFirst ==
  \A r \in Requests : \A q \in earlier[r] : \A n \in Nodes, s \in Sessions :
     Has(mem[n][s], q) /\ Has(mem[n][s], r) => Position(mem[n][s], q) < Position(mem[n][s], r)

\* The operator manual: "Supported ops: `offer`, `accept`, `reject`, `cancel`,
\* `message`, `complete`".  A frame with another op is recorded before anything
\* looks at the op, and stays; but it stays with its sender: no node ever gets it
\* from another, nor an answer to it, so that the mistake of one agent is not in
\* its partner's session (SendNegotiationFrame, handleNegotiate).
UnsupportedStaysHome ==
  \A n \in Nodes, s \in Sessions : \A f \in ToSet(mem[n][s]) \cup ToSet(file[n][s]) :
     f.op \notin Ops => f.kind = "request" /\ f.from = n
=============================================================================
