------------------------- MODULE NegotiationProofs -------------------------
(***************************************************************************)
(* What module Negotiation promises, for any nodes, sessions, requests and *)
(* ops.                                                                    *)
(***************************************************************************)
EXTENDS Negotiation, TLAPS

(***************************************************************************)
(* Prefixes and members of sessions.                                       *)
(***************************************************************************)

\* A frame at the end of a session keeps what was before it.
LEMMA PrefixOfAppend ==
  ASSUME NEW S, NEW a \in Seq(S), NEW b \in Seq(S), NEW f \in S, IsPrefix(a, b)
  PROVE  IsPrefix(a, Append(b, f))
  BY DEF IsPrefix

\* Every session is a prefix of itself.
LEMMA PrefixOfItself == ASSUME NEW S, NEW a \in Seq(S) PROVE IsPrefix(a, a)
  BY DEF IsPrefix

\* What is in a prefix is in the whole.
LEMMA PrefixMembers ==
  ASSUME NEW S, NEW a \in Seq(S), NEW b \in Seq(S), IsPrefix(a, b)
  PROVE  ToSet(a) \subseteq ToSet(b)
  BY DEF IsPrefix, ToSet

\* The members of a session that got another frame.
LEMMA AppendMembers ==
  ASSUME NEW S, NEW a \in Seq(S), NEW f \in S
  PROVE  ToSet(Append(a, f)) = ToSet(a) \cup {f}
<1> DEFINE b == Append(a, f)
<1>1. Len(b) = Len(a) + 1 /\ b[Len(a) + 1] = f /\ \A i \in 1 .. Len(a) : b[i] = a[i]
  OBVIOUS
<1>2. DOMAIN a = 1 .. Len(a) /\ DOMAIN b = 1 .. Len(a) + 1 /\ Len(a) \in Nat
  BY <1>1
<1> HIDE DEF b
<1>3. ASSUME NEW x \in ToSet(b) PROVE x \in ToSet(a) \cup {f}
  <2>1. PICK i \in DOMAIN b : x = b[i]
    BY <1>3 DEF ToSet
  <2>2. CASE i = Len(a) + 1
    BY <1>1, <2>1, <2>2
  <2>3. CASE i \in DOMAIN a
    BY <1>1, <1>2, <2>1, <2>3 DEF ToSet
  <2> QED BY <1>2, <2>1, <2>2, <2>3
<1>4. ASSUME NEW x \in ToSet(a) PROVE x \in ToSet(b)
  <2>1. PICK i \in DOMAIN a : x = a[i]
    BY <1>4 DEF ToSet
  <2> QED BY <1>1, <1>2, <2>1 DEF ToSet
<1>5. f \in ToSet(b)
  BY <1>1, <1>2 DEF ToSet
<1> QED BY <1>3, <1>4, <1>5 DEF b

(***************************************************************************)
(* Types.                                                                  *)
(***************************************************************************)

\* The frame of a request, and its answers, are frames.
LEMMA FrameTypes ==
  ASSUME NEW f \in FrameSet, NEW kind \in {"answer", "error"}
  PROVE  Answer(f, kind) \in FrameSet /\ Answer(f, kind).kind = kind
  BY DEF Answer, FrameSet

\* RecordNegotiation keeps the types of both tables.
LEMMA RecordsTypes ==
  ASSUME NEW n \in Nodes, NEW f \in FrameSet, NEW written \in BOOLEAN,
         mem \in [Nodes -> [Sessions -> Seq(FrameSet)]],
         file \in [Nodes -> [Sessions -> Seq(FrameSet)]],
         Records(n, f, written)
  PROVE  /\ mem' \in [Nodes -> [Sessions -> Seq(FrameSet)]]
         /\ file' \in [Nodes -> [Sessions -> Seq(FrameSet)]]
<1>1. f.session \in Sessions
  BY DEF FrameSet
<1>2. mem' \in [Nodes -> [Sessions -> Seq(FrameSet)]]
  BY <1>1 DEF Records
<1> QED BY <1>2 DEF Records

\* A request that was made has a frame.
MadeHaveFrames == \A r \in Requests :
  pc[r] # "idle" \/ handler[r] # "none" =>
    /\ frame[r] \in FrameSet /\ frame[r].kind = "request" /\ frame[r].req = r
    /\ pc[r] # "idle"

TypeInv == NegotiationTypeOK /\ MadeHaveFrames

\* Every step of the requests keeps the types.
LEMMA TypeInductive == TypeInv /\ [Next]_vars => TypeInv'
<1> SUFFICES ASSUME TypeInv, [Next]_vars PROVE TypeInv'
  OBVIOUS
<1> USE DEF TypeInv, NegotiationTypeOK, MadeHaveFrames
<1>1. CASE \E r \in Requests, n, m \in Nodes, s \in Sessions, op \in Asked, written \in BOOLEAN :
             Send(r, n, m, s, op, written)
  <2> PICK r \in Requests, n \in Nodes, m \in Nodes, s \in Sessions, op \in Asked, written \in BOOLEAN :
             Send(r, n, m, s, op, written)
    BY <1>1
  <2> DEFINE f == [kind |-> "request", req |-> r, session |-> s, op |-> op, from |-> n, to |-> m]
  <2>1. f \in FrameSet /\ f.kind = "request" /\ f.req = r
    BY DEF FrameSet
  <2>2. Records(n, f, written) /\ frame' = [frame EXCEPT ![r] = f]
    BY DEF Send
  <2> HIDE DEF f
  <2>3. /\ mem' \in [Nodes -> [Sessions -> Seq(FrameSet)]]
        /\ file' \in [Nodes -> [Sessions -> Seq(FrameSet)]]
    BY <2>1, <2>2, RecordsTypes
  <2>4. /\ pc' \in [Requests -> {"idle", "recorded", "sent", "done", "failed"}]
        /\ earlier' \in [Requests -> SUBSET Requests]
        /\ up' \subseteq Nodes
        /\ handler' \in [Requests -> {"none", "arrived", "recorded", "answered", "errored", "gone"}]
    BY DEF Send
  <2>5. frame' \in [Requests -> FrameSet \cup {NoFrame}]
    BY <2>1, <2>2
  <2>6. MadeHaveFrames'
    BY <2>1, <2>2 DEF Send, MayProceed
  <2> QED BY <2>3, <2>4, <2>5, <2>6
<1>2. CASE \E r \in Requests : Transmit(r) \/ GiveUp(r)
  <2> PICK r \in Requests : Transmit(r) \/ GiveUp(r)
    BY <1>2
  <2>1. CASE Transmit(r)
    <3>1. NegotiationTypeOK'
      BY <2>1 DEF Transmit
    <3>2. MadeHaveFrames'
      BY <2>1 DEF Transmit
    <3> QED BY <3>1, <3>2
  <2>2. CASE GiveUp(r)
    <3>1. NegotiationTypeOK'
      BY <2>2 DEF GiveUp
    <3>2. MadeHaveFrames'
      BY <2>2 DEF GiveUp
    <3> QED BY <3>1, <3>2
  <2> QED BY <2>1, <2>2
<1>3. CASE \E r \in Requests, written \in BOOLEAN : Receive(r, written)
  <2> PICK r \in Requests, written \in BOOLEAN : Receive(r, written)
    BY <1>3
  <2>1. frame[r] \in FrameSet /\ frame[r].to \in Nodes
    BY DEF Receive, FrameSet
  <2>2. /\ mem' \in [Nodes -> [Sessions -> Seq(FrameSet)]]
        /\ file' \in [Nodes -> [Sessions -> Seq(FrameSet)]]
    BY <2>1, RecordsTypes DEF Receive
  <2> QED BY <2>2 DEF Receive
<1>4. CASE \E r \in Requests, written \in BOOLEAN : Reply(r, written)
  <2> PICK r \in Requests, written \in BOOLEAN : Reply(r, written)
    BY <1>4
  <2>1. frame[r] \in FrameSet /\ frame[r].to \in Nodes
    BY DEF Reply, FrameSet
  <2>2. /\ mem' \in [Nodes -> [Sessions -> Seq(FrameSet)]]
        /\ file' \in [Nodes -> [Sessions -> Seq(FrameSet)]]
    BY <2>1, FrameTypes, RecordsTypes DEF Reply
  <2> QED BY <2>2 DEF Reply
<1>5. CASE \E r \in Requests, written \in BOOLEAN : GetReply(r, written)
  <2> PICK r \in Requests, written \in BOOLEAN : GetReply(r, written)
    BY <1>5
  <2>1. frame[r] \in FrameSet /\ frame[r].from \in Nodes
    BY DEF GetReply, FrameSet
  <2> DEFINE f == Answer(frame[r], IF handler[r] = "answered" THEN "answer" ELSE "error")
  <2>3. f \in FrameSet /\ Records(frame[r].from, f, written)
    BY <2>1, FrameTypes DEF GetReply
  <2> HIDE DEF f
  <2>2. /\ mem' \in [Nodes -> [Sessions -> Seq(FrameSet)]]
        /\ file' \in [Nodes -> [Sessions -> Seq(FrameSet)]]
    BY <2>1, <2>3, RecordsTypes
  <2> QED BY <2>2 DEF GetReply
<1>6. CASE \E n \in Nodes : Stop(n)
  <2> PICK n \in Nodes : Stop(n)
    BY <1>6
  <2>1. Empty \in [Sessions -> Seq(FrameSet)]
    BY DEF Empty
  <2>2. mem' \in [Nodes -> [Sessions -> Seq(FrameSet)]]
    BY <2>1 DEF Stop
  <2>3. /\ pc' \in [Requests -> {"idle", "recorded", "sent", "done", "failed"}]
        /\ handler' \in [Requests -> {"none", "arrived", "recorded", "answered", "errored", "gone"}]
    BY DEF Stop
  <2>4. MadeHaveFrames'
    BY DEF Stop
  <2> QED BY <2>2, <2>3, <2>4 DEF Stop
<1>8. CASE \E n \in Nodes : Start(n)
  BY <1>8 DEF Start
<1>7. CASE UNCHANGED vars
  BY <1>7 DEF vars
<1> QED BY <1>1, <1>2, <1>3, <1>4, <1>5, <1>6, <1>7, <1>8 DEF Next

\* The initial state is well typed.
LEMMA TypeInitial == Init => TypeInv
  BY DEF Init, Empty, TypeInv, NegotiationTypeOK, MadeHaveFrames

\* Every reachable state of the negotiations is well typed.
THEOREM NegotiationTypeCorrect == Spec => []NegotiationTypeOK
<1>1. Spec => []TypeInv
  BY TypeInitial, TypeInductive, PTL DEF Spec
<1> QED BY <1>1, PTL DEF TypeInv

(***************************************************************************)
(* The file only grows.                                                    *)
(***************************************************************************)

\* What a step may do to the tables: record one frame at one running node, end
\* or start a node, or nothing.  A request is recorded by the node that makes it
\* or by the one at which it arrived.
LEMMA StepKinds ==
  ASSUME TypeInv, [Next]_vars
  PROVE  \/ \E n \in Nodes, f \in FrameSet, written \in BOOLEAN :
              /\ Records(n, f, written)
              /\ up' = up
              /\ \/ f.kind # "request"
                 \/ f.from = n
                 \/ \E r \in Requests : f = frame[r] /\ handler[r] # "none"
         \/ UNCHANGED <<mem, file>> /\ up' = up
         \/ \E n \in Nodes : Stop(n) \/ Start(n)
<1> USE DEF TypeInv, NegotiationTypeOK, MadeHaveFrames
<1>1. CASE \E r \in Requests, n, m \in Nodes, s \in Sessions, op \in Asked, written \in BOOLEAN :
             Send(r, n, m, s, op, written)
  <2> PICK r \in Requests, n \in Nodes, m \in Nodes, s \in Sessions, op \in Asked, written \in BOOLEAN :
             Send(r, n, m, s, op, written)
    BY <1>1
  <2> DEFINE f == [kind |-> "request", req |-> r, session |-> s, op |-> op, from |-> n, to |-> m]
  <2>1. f \in FrameSet /\ f.from = n
    BY DEF FrameSet
  <2>2. Records(n, f, written) /\ up' = up
    BY DEF Send
  <2> QED BY <2>1, <2>2
<1>2. CASE \E r \in Requests : Transmit(r) \/ GiveUp(r)
  BY <1>2 DEF Transmit, GiveUp
<1>3. CASE \E r \in Requests, written \in BOOLEAN : Receive(r, written)
  <2> PICK r \in Requests, written \in BOOLEAN : Receive(r, written)
    BY <1>3
  <2>1. frame[r] \in FrameSet /\ frame[r].to \in Nodes /\ handler[r] # "none"
    BY DEF Receive, FrameSet
  <2>2. Records(frame[r].to, frame[r], written) /\ up' = up
    BY DEF Receive
  <2> QED BY <2>1, <2>2
<1>4. CASE \E r \in Requests, written \in BOOLEAN : Reply(r, written)
  <2> PICK r \in Requests, written \in BOOLEAN : Reply(r, written)
    BY <1>4
  <2> DEFINE f == Answer(frame[r], "answer")
  <2>1. frame[r] \in FrameSet /\ frame[r].to \in Nodes
    BY DEF Reply, FrameSet
  <2>2. f \in FrameSet /\ f.kind # "request"
    BY <2>1, FrameTypes
  <2>3. Records(frame[r].to, f, written) /\ up' = up
    BY DEF Reply
  <2> QED BY <2>1, <2>2, <2>3
<1>5. CASE \E r \in Requests, written \in BOOLEAN : GetReply(r, written)
  <2> PICK r \in Requests, written \in BOOLEAN : GetReply(r, written)
    BY <1>5
  <2> DEFINE f == Answer(frame[r], IF handler[r] = "answered" THEN "answer" ELSE "error")
  <2>1. frame[r] \in FrameSet /\ frame[r].from \in Nodes
    BY DEF GetReply, FrameSet
  <2>2. f \in FrameSet /\ f.kind # "request"
    BY <2>1, FrameTypes
  <2>3. Records(frame[r].from, f, written) /\ up' = up
    BY DEF GetReply
  <2> QED BY <2>1, <2>2, <2>3
<1>6. CASE \E n \in Nodes : Stop(n) \/ Start(n)
  BY <1>6
<1>7. CASE UNCHANGED vars
  BY <1>7 DEF vars
<1> QED BY <1>1, <1>2, <1>3, <1>4, <1>5, <1>6, <1>7 DEF Next

\* The file of a running node lags behind its memory by frames at the end.
MemoryAhead == \A n \in up, s \in Sessions : IsPrefix(file[n][s], mem[n][s])

FilesGrow == \A n \in Nodes, s \in Sessions : IsPrefix(file[n][s], file'[n][s])

\* RecordNegotiation appends in memory, and puts what is there on disk or nothing.
LEMMA RecordsGrow ==
  ASSUME TypeInv, MemoryAhead, up' = up,
         NEW n \in Nodes, NEW f \in FrameSet, NEW written \in BOOLEAN, Records(n, f, written)
  PROVE  FilesGrow /\ MemoryAhead'
<1>1. /\ mem \in [Nodes -> [Sessions -> Seq(FrameSet)]]
      /\ file \in [Nodes -> [Sessions -> Seq(FrameSet)]]
      /\ n \in up /\ up \subseteq Nodes /\ f.session \in Sessions
  BY DEF TypeInv, NegotiationTypeOK, Records, FrameSet
<1>2. mem' \in [Nodes -> [Sessions -> Seq(FrameSet)]] /\ file' \in [Nodes -> [Sessions -> Seq(FrameSet)]]
  BY <1>1, RecordsTypes
<1>3. ASSUME NEW m \in up, NEW s \in Sessions PROVE IsPrefix(file[m][s], mem'[m][s])
  <2>1. IsPrefix(file[m][s], mem[m][s]) /\ file[m][s] \in Seq(FrameSet) /\ mem[m][s] \in Seq(FrameSet)
    BY <1>1 DEF MemoryAhead
  <2>2. mem'[m][s] = mem[m][s] \/ mem'[m][s] = Append(mem[m][s], f)
    BY <1>1 DEF Records
  <2> QED BY <2>1, <2>2, PrefixOfAppend
<1>4. ASSUME NEW m \in Nodes PROVE file'[m] = file[m] \/ (m \in up /\ file'[m] = mem'[m])
  BY <1>1 DEF Records
<1>5. FilesGrow
  BY <1>1, <1>3, <1>4, PrefixOfItself DEF FilesGrow
<1>6. MemoryAhead'
  <2> SUFFICES ASSUME NEW m \in up, NEW s \in Sessions PROVE IsPrefix(file'[m][s], mem'[m][s])
    BY DEF MemoryAhead
  <2>1. mem'[m][s] \in Seq(FrameSet)
    BY <1>1, <1>2
  <2> QED BY <1>1, <1>3, <1>4, <2>1, PrefixOfItself
<1> QED BY <1>5, <1>6

\* Every step lets the files grow and keeps the memory ahead.
LEMMA StepsGrow ==
  ASSUME TypeInv, MemoryAhead, [Next]_vars
  PROVE  FilesGrow /\ MemoryAhead'
<1> USE DEF TypeInv, NegotiationTypeOK
<1>1. CASE \E n \in Nodes, f \in FrameSet, written \in BOOLEAN : Records(n, f, written) /\ up' = up
  BY <1>1, RecordsGrow
<1>2. CASE UNCHANGED <<mem, file>> /\ up' = up
  BY <1>2, PrefixOfItself DEF FilesGrow, MemoryAhead
<1>3. CASE \E n \in Nodes : Stop(n)
  <2> PICK n \in Nodes : Stop(n)
    BY <1>3
  <2>1. FilesGrow
    BY PrefixOfItself DEF Stop, FilesGrow
  <2>2. MemoryAhead'
    BY DEF Stop, MemoryAhead
  <2> QED BY <2>1, <2>2
<1>4. CASE \E n \in Nodes : Start(n)
  <2> PICK n \in Nodes : Start(n)
    BY <1>4
  <2>1. FilesGrow
    BY PrefixOfItself DEF Start, FilesGrow
  <2>2. MemoryAhead'
    BY PrefixOfItself DEF Start, MemoryAhead
  <2> QED BY <2>1, <2>2
<1> QED BY <1>1, <1>2, <1>3, <1>4, StepKinds

\* At first nothing is recorded anywhere.
LEMMA AheadInitial == Init => MemoryAhead
<1> SUFFICES ASSUME Init PROVE MemoryAhead
  OBVIOUS
<1>1. IsPrefix(<<>>, <<>>)
  BY DEF IsPrefix
<1> QED BY <1>1 DEF Init, Empty, MemoryAhead

\* negotiations.json never loses a frame that it had nor changes their order,
\* whatever writes RecordNegotiation missed and wherever nodes are restarted.
THEOREM FilesOnlyGrow == Spec => DiskOnlyGrows
<1>1. Init => TypeInv /\ MemoryAhead
  BY TypeInitial, AheadInitial
<1>2. TypeInv /\ MemoryAhead /\ [Next]_vars => TypeInv' /\ MemoryAhead'
  BY TypeInductive, StepsGrow
<1>3. TypeInv /\ MemoryAhead /\ [Next]_vars => [\A n \in Nodes, s \in Sessions : IsPrefix(file[n][s], file'[n][s])]_vars
  BY StepsGrow DEF FilesGrow
<1> QED BY <1>1, <1>2, <1>3, PTL DEF Spec, DiskOnlyGrows

(***************************************************************************)
(* The sender has it first.                                                *)
(***************************************************************************)

Written(f) == f \in ToSet(file[f.from][f.session])

\* Requests that are on their way, or have arrived, are on their sender's disk.
SentAreWritten == \A r \in Requests : pc[r] = "recorded" \/ handler[r] # "none" => Written(frame[r])

\* What a node may hold in a session: a frame of that session which, if it is a
\* request of another node, is on that node's disk.
MayHold(n, s, f) ==
  /\ f.session = s
  /\ f.kind = "request" /\ f.from # n => Written(f)

HeldAreWritten ==
  \A n \in Nodes, s \in Sessions : \A f \in ToSet(mem[n][s]) \cup ToSet(file[n][s]) : MayHold(n, s, f)

\* What is on disk stays there.
LEMMA WrittenStays ==
  ASSUME TypeInv, TypeInv', FilesGrow, NEW f \in FrameSet, Written(f)
  PROVE  Written(f)'
<1>1. f.from \in Nodes /\ f.session \in Sessions
  BY DEF FrameSet
<1>2. /\ file[f.from][f.session] \in Seq(FrameSet)
      /\ file'[f.from][f.session] \in Seq(FrameSet)
  BY <1>1 DEF TypeInv, NegotiationTypeOK
<1>3. IsPrefix(file[f.from][f.session], file'[f.from][f.session])
  BY <1>1 DEF FilesGrow
<1> QED BY <1>2, <1>3, PrefixMembers DEF Written

\* A frame whose record succeeded is on disk.
LEMMA RecordedIsOnDisk ==
  ASSUME TypeInv, NEW n \in Nodes, NEW f \in FrameSet, Records(n, f, TRUE)
  PROVE  f \in ToSet(file'[n][f.session])
<1>1. /\ mem \in [Nodes -> [Sessions -> Seq(FrameSet)]]
      /\ file \in [Nodes -> [Sessions -> Seq(FrameSet)]]
      /\ f.session \in Sessions
  BY DEF TypeInv, NegotiationTypeOK, FrameSet
<1>2. file'[n][f.session] = Append(mem[n][f.session], f)
  BY <1>1 DEF Records
<1>3. f \in ToSet(Append(mem[n][f.session], f))
  BY <1>1, AppendMembers
<1> QED BY <1>2, <1>3

\* At its sender, that is where it should be first.
LEMMA RecordedIsWritten ==
  ASSUME TypeInv, NEW n \in Nodes, NEW f \in FrameSet, Records(n, f, TRUE), f.from = n
  PROVE  Written(f)'
  BY RecordedIsOnDisk DEF Written

\* A request leaves its node once it is written, and nothing takes it back.
LEMMA SentInductive ==
  ASSUME TypeInv, TypeInv', FilesGrow, SentAreWritten, [Next]_vars
  PROVE  SentAreWritten'
<1> SUFFICES ASSUME NEW r \in Requests, (pc[r] = "recorded" \/ handler[r] # "none")'
             PROVE  Written(frame[r])'
  BY DEF SentAreWritten
<1>1. CASE (pc[r] = "recorded" \/ handler[r] # "none") /\ frame'[r] = frame[r]
  <2>1. frame[r] \in FrameSet
    BY <1>1 DEF TypeInv, NegotiationTypeOK, MadeHaveFrames
  <2>2. Written(frame[r])
    BY <1>1 DEF SentAreWritten
  <2>3. file'[frame'[r].from][frame'[r].session] = file'[frame[r].from][frame[r].session]
    BY <1>1
  <2> QED BY <1>1, <2>1, <2>2, <2>3, WrittenStays DEF Written
<1>2. CASE \E n, m \in Nodes, s \in Sessions, op \in Asked, written \in BOOLEAN : Send(r, n, m, s, op, written)
  <2> PICK n \in Nodes, m \in Nodes, s \in Sessions, op \in Asked, written \in BOOLEAN :
             Send(r, n, m, s, op, written)
    BY <1>2
  <2> DEFINE f == [kind |-> "request", req |-> r, session |-> s, op |-> op, from |-> n, to |-> m]
  <2>1. f \in FrameSet /\ f.from = n
    BY DEF FrameSet
  <2>2. Records(n, f, written) /\ frame' = [frame EXCEPT ![r] = f]
    BY DEF Send
  <2>3. written
    BY DEF Send, MayProceed, TypeInv, NegotiationTypeOK, MadeHaveFrames
  <2>4. frame'[r] = f
    BY <2>2 DEF TypeInv, NegotiationTypeOK
  <2> HIDE DEF f
  <2>5. Records(n, f, TRUE)
    BY <2>2, <2>3
  <2>6. Written(f)'
    BY <2>1, <2>5, RecordedIsWritten
  <2> QED BY <2>4, <2>6 DEF Written
<1>3. CASE ~ \E n, m \in Nodes, s \in Sessions, op \in Asked, written \in BOOLEAN : Send(r, n, m, s, op, written)
  <2> USE DEF TypeInv, NegotiationTypeOK
  <2>1. CASE \E q \in Requests, n, m \in Nodes, s \in Sessions, op \in Asked, written \in BOOLEAN :
               Send(q, n, m, s, op, written)
    <3> PICK q \in Requests, n \in Nodes, m \in Nodes, s \in Sessions, op \in Asked, written \in BOOLEAN :
               Send(q, n, m, s, op, written)
      BY <2>1
    <3>1. q # r
      BY <1>3
    <3>2. pc'[r] = pc[r] /\ handler'[r] = handler[r] /\ frame'[r] = frame[r]
      BY <3>1 DEF Send
    <3> QED BY <1>1, <3>2
  <2>2. CASE \E q \in Requests : Transmit(q) \/ GiveUp(q)
    BY <1>1, <2>2 DEF Transmit, GiveUp
  <2>3. CASE \E q \in Requests, written \in BOOLEAN :
               Receive(q, written) \/ Reply(q, written) \/ GetReply(q, written)
    BY <1>1, <2>3 DEF Receive, Reply, GetReply
  <2>4. CASE \E n \in Nodes : Stop(n) \/ Start(n)
    <3>1. PICK n \in Nodes : Stop(n) \/ Start(n)
      BY <2>4
    <3>2. CASE Stop(n)
      BY <1>1, <3>2 DEF Stop
    <3>3. CASE Start(n)
      BY <1>1, <3>3 DEF Start
    <3> QED BY <3>1, <3>2, <3>3
  <2>5. CASE UNCHANGED vars
    BY <1>1, <2>5 DEF vars
  <2> QED BY <2>1, <2>2, <2>3, <2>4, <2>5 DEF Next
<1> QED BY <1>2, <1>3

\* Whatever gets into a session may be held there.
LEMMA HeldInductive ==
  ASSUME TypeInv, TypeInv', FilesGrow, SentAreWritten, HeldAreWritten, [Next]_vars
  PROVE  HeldAreWritten'
<1> USE DEF TypeInv, NegotiationTypeOK
<1>1. ASSUME NEW n \in Nodes, NEW s \in Sessions, NEW f \in ToSet(mem[n][s]) \cup ToSet(file[n][s])
      PROVE  MayHold(n, s, f)'
  <2>1. f \in FrameSet
    <3>1. mem[n][s] \in Seq(FrameSet) /\ file[n][s] \in Seq(FrameSet)
      OBVIOUS
    <3> QED BY <3>1 DEF ToSet
  <2> QED BY <2>1, WrittenStays DEF HeldAreWritten, MayHold
<1>2. CASE \E n \in Nodes, f \in FrameSet, written \in BOOLEAN :
             /\ Records(n, f, written)
             /\ up' = up
             /\ \/ f.kind # "request"
                \/ f.from = n
                \/ \E r \in Requests : f = frame[r] /\ handler[r] # "none"
  <2> PICK n \in Nodes, f \in FrameSet, written \in BOOLEAN :
             /\ Records(n, f, written)
             /\ \/ f.kind # "request"
                \/ f.from = n
                \/ \E r \in Requests : f = frame[r] /\ handler[r] # "none"
    BY <1>2
  <2>1. MayHold(n, f.session, f)'
    <3>1. CASE f.kind # "request" \/ f.from = n
      BY <3>1 DEF MayHold
    <3>2. CASE \E r \in Requests : f = frame[r] /\ handler[r] # "none"
      BY <3>2, WrittenStays DEF SentAreWritten, MayHold
    <3> QED BY <3>1, <3>2
  <2>2. ASSUME NEW m \in Nodes, NEW s \in Sessions, NEW g \in ToSet(mem'[m][s])
        PROVE  MayHold(m, s, g)'
    <3>1. CASE m = n /\ s = f.session
      <4>1. mem[m][s] \in Seq(FrameSet) /\ mem'[m][s] = Append(mem[m][s], f)
        BY <3>1 DEF Records, FrameSet
      <4>2. g \in ToSet(mem[m][s]) \/ g = f
        BY <2>2, <4>1, AppendMembers
      <4> QED BY <1>1, <2>1, <3>1, <4>2
    <3>2. CASE ~ (m = n /\ s = f.session)
      <4>1. mem'[m][s] = mem[m][s]
        BY <3>2 DEF Records
      <4> QED BY <1>1, <2>2, <4>1
    <3> QED BY <3>1, <3>2
  <2>3. ASSUME NEW m \in Nodes, NEW s \in Sessions, NEW g \in ToSet(file'[m][s])
        PROVE  MayHold(m, s, g)'
    <3>1. file'[m][s] = file[m][s] \/ file'[m][s] = mem'[m][s]
      BY DEF Records
    <3> QED BY <1>1, <2>2, <2>3, <3>1
  <2> QED BY <2>2, <2>3 DEF HeldAreWritten
<1>3. CASE UNCHANGED <<mem, file>> /\ up' = up
  BY <1>1, <1>3 DEF HeldAreWritten
<1>4. CASE \E n \in Nodes : Stop(n) \/ Start(n)
  <2> SUFFICES ASSUME NEW m \in Nodes, NEW s \in Sessions, NEW g \in ToSet(mem'[m][s]) \cup ToSet(file'[m][s])
               PROVE  MayHold(m, s, g)'
    BY DEF HeldAreWritten
  <2>1. file' = file /\ mem'[m][s] \in {mem[m][s], file[m][s], <<>>}
    <3>1. CASE \E n \in Nodes : Stop(n)
      BY <3>1 DEF Stop, Empty
    <3>2. CASE \E n \in Nodes : Start(n)
      BY <3>2 DEF Start
    <3> QED BY <1>4, <3>1, <3>2
  <2>2. ToSet(<<>>) = {}
    BY DEF ToSet
  <2> QED BY <1>1, <2>1, <2>2
<1> QED BY <1>2, <1>3, <1>4, StepKinds

ReceivedInv == TypeInv /\ MemoryAhead /\ SentAreWritten /\ HeldAreWritten

\* At first nothing is sent and nothing held.
LEMMA ReceivedInitial == Init => ReceivedInv
<1> SUFFICES ASSUME Init PROVE ReceivedInv
  OBVIOUS
<1>1. SentAreWritten
  BY DEF Init, SentAreWritten
<1>2. ToSet(<<>>) = {}
  BY DEF ToSet
<1>3. HeldAreWritten
  BY <1>2 DEF Init, Empty, HeldAreWritten
<1> QED BY <1>1, <1>3, TypeInitial, AheadInitial DEF ReceivedInv

\* A request that a node holds of another is on that one's disk: a restart of its
\* sender leaves no negotiation that only the partner knows of.
THEOREM SenderFirst == Spec => []SenderHasItFirst
<1>1. ReceivedInv /\ [Next]_vars => ReceivedInv'
  BY TypeInductive, StepsGrow, SentInductive, HeldInductive DEF ReceivedInv
<1>2. ReceivedInv => SenderHasItFirst
  BY DEF ReceivedInv, HeldAreWritten, MayHold, Written, SenderHasItFirst
<1> QED BY <1>1, <1>2, ReceivedInitial, PTL DEF Spec

(***************************************************************************)
(* Where the frames in a session come from.                                *)
(***************************************************************************)

Held(n, s) == ToSet(mem[n][s]) \cup ToSet(file[n][s])

\* A frame that a step adds to a session of a node: the request that the node
\* makes or that arrived there, its answer, or what its sender made of that.
IsNew(n, s, g) ==
  /\ g.session = s
  /\ \E r \in Requests :
       \/ pc[r] = "idle" /\ g = frame'[r] /\ g.kind = "request" /\ g.req = r /\ g.from = n /\ pc'[r] # "idle"
       \/ handler[r] = "arrived" /\ g = frame[r] /\ handler'[r] # "none"
       \/ handler[r] = "recorded" /\ g = Answer(frame[r], "answer") /\ handler'[r] = "answered"
       \/ handler[r] = "answered" /\ g = Answer(frame[r], "answer")
       \/ handler[r] = "errored" /\ g = Answer(frame[r], "error")

\* What a step makes of one session of one node.
OneStep(m, s) ==
  /\ \/ mem'[m][s] \in {mem[m][s], file[m][s], <<>>}
     \/ \E g \in FrameSet : IsNew(m, s, g) /\ mem'[m][s] = Append(mem[m][s], g)
  /\ file'[m][s] \in {file[m][s], mem'[m][s]}

\* RecordNegotiation changes one session of one node.
LEMMA RecordsOneStep ==
  ASSUME TypeInv, NEW n \in Nodes, NEW f \in FrameSet, NEW written \in BOOLEAN, Records(n, f, written),
         IsNew(n, f.session, f),
         NEW m \in Nodes, NEW s \in Sessions
  PROVE  OneStep(m, s)
<1>1. /\ mem \in [Nodes -> [Sessions -> Seq(FrameSet)]]
      /\ file \in [Nodes -> [Sessions -> Seq(FrameSet)]]
  BY DEF TypeInv, NegotiationTypeOK
<1>2. mem'[m][s] = IF m = n /\ s = f.session THEN Append(mem[m][s], f) ELSE mem[m][s]
  BY <1>1 DEF Records
<1>3. file'[m][s] \in {file[m][s], mem'[m][s]}
  BY <1>1 DEF Records
<1>4. CASE m = n /\ s = f.session
  BY <1>2, <1>3, <1>4 DEF OneStep
<1>5. CASE ~ (m = n /\ s = f.session)
  BY <1>2, <1>3, <1>5 DEF OneStep
<1> QED BY <1>4, <1>5

\* The same of every step of the requests and of the nodes.
LEMMA EveryStep ==
  ASSUME TypeInv, [Next]_vars, NEW m \in Nodes, NEW s \in Sessions
  PROVE  OneStep(m, s)
<1> USE DEF TypeInv, NegotiationTypeOK, MadeHaveFrames
<1>1. CASE \E r \in Requests, n, k \in Nodes, t \in Sessions, op \in Asked, written \in BOOLEAN :
             Send(r, n, k, t, op, written)
  <2> PICK r \in Requests, n \in Nodes, k \in Nodes, t \in Sessions, op \in Asked, written \in BOOLEAN :
             Send(r, n, k, t, op, written)
    BY <1>1
  <2> DEFINE f == [kind |-> "request", req |-> r, session |-> t, op |-> op, from |-> n, to |-> k]
  <2>1. f \in FrameSet /\ f.kind = "request" /\ f.req = r /\ f.from = n /\ f.session = t
    BY DEF FrameSet
  <2>2. Records(n, f, written) /\ frame' = [frame EXCEPT ![r] = f] /\ pc[r] = "idle" /\ pc'[r] # "idle"
    BY DEF Send
  <2> HIDE DEF f
  <2>3. IsNew(n, f.session, f)
    BY <2>1, <2>2 DEF IsNew
  <2> QED BY <2>1, <2>2, <2>3, RecordsOneStep
<1>2. CASE \E r \in Requests : Transmit(r) \/ GiveUp(r)
  BY <1>2 DEF Transmit, GiveUp, OneStep
<1>3. CASE \E r \in Requests, written \in BOOLEAN : Receive(r, written)
  <2> PICK r \in Requests, written \in BOOLEAN : Receive(r, written)
    BY <1>3
  <2>1. frame[r] \in FrameSet /\ frame[r].to \in Nodes /\ handler[r] = "arrived" /\ handler'[r] # "none"
    BY DEF Receive, FrameSet
  <2>2. IsNew(frame[r].to, frame[r].session, frame[r])
    BY <2>1 DEF IsNew
  <2> QED BY <2>1, <2>2, RecordsOneStep DEF Receive
<1>4. CASE \E r \in Requests, written \in BOOLEAN : Reply(r, written)
  <2> PICK r \in Requests, written \in BOOLEAN : Reply(r, written)
    BY <1>4
  <2> DEFINE f == Answer(frame[r], "answer")
  <2>1. frame[r] \in FrameSet /\ frame[r].to \in Nodes /\ handler[r] = "recorded" /\ handler'[r] = "answered"
    BY DEF Reply, FrameSet
  <2>2. f \in FrameSet /\ Records(frame[r].to, f, written)
    BY <2>1, FrameTypes DEF Reply
  <2>3. IsNew(frame[r].to, f.session, f)
    BY <2>1 DEF IsNew
  <2> QED BY <2>1, <2>2, <2>3, RecordsOneStep
<1>5. CASE \E r \in Requests, written \in BOOLEAN : GetReply(r, written)
  <2> PICK r \in Requests, written \in BOOLEAN : GetReply(r, written)
    BY <1>5
  <2> DEFINE f == Answer(frame[r], IF handler[r] = "answered" THEN "answer" ELSE "error")
  <2>1. frame[r] \in FrameSet /\ frame[r].from \in Nodes /\ handler[r] \in {"answered", "errored"}
    BY DEF GetReply, FrameSet
  <2>2. f \in FrameSet /\ Records(frame[r].from, f, written)
    BY <2>1, FrameTypes DEF GetReply
  <2>3. IsNew(frame[r].from, f.session, f)
    BY <2>1 DEF IsNew
  <2> QED BY <2>1, <2>2, <2>3, RecordsOneStep
<1>6. CASE \E n \in Nodes : Stop(n)
  BY <1>6 DEF Stop, Empty, OneStep
<1>7. CASE \E n \in Nodes : Start(n)
  BY <1>7 DEF Start, OneStep
<1>8. CASE UNCHANGED vars
  BY <1>8 DEF vars, OneStep
<1> QED BY <1>1, <1>2, <1>3, <1>4, <1>5, <1>6, <1>7, <1>8 DEF Next

\* What is in a session was there before the step, or is new.
LEMMA NewOrHeld ==
  ASSUME TypeInv, [Next]_vars, NEW m \in Nodes, NEW s \in Sessions, NEW g \in Held(m, s)'
  PROVE  g \in FrameSet /\ (g \in Held(m, s) \/ IsNew(m, s, g))
<1>1. mem[m][s] \in Seq(FrameSet) /\ file[m][s] \in Seq(FrameSet)
  BY DEF TypeInv, NegotiationTypeOK
<1>2. Held(m, s) \subseteq FrameSet /\ ToSet(<<>>) = {}
  BY <1>1 DEF Held, ToSet
<1>3. OneStep(m, s)
  BY EveryStep
<1>4. g \in ToSet(mem'[m][s]) \/ g \in ToSet(file[m][s])
  BY <1>3 DEF Held, OneStep
<1>5. CASE g \in ToSet(mem'[m][s])
  <2>1. CASE mem'[m][s] \in {mem[m][s], file[m][s], <<>>}
    BY <1>2, <1>5, <2>1 DEF Held
  <2>2. CASE \E f \in FrameSet : IsNew(m, s, f) /\ mem'[m][s] = Append(mem[m][s], f)
    <3> PICK f \in FrameSet : IsNew(m, s, f) /\ mem'[m][s] = Append(mem[m][s], f)
      BY <2>2
    <3> QED BY <1>1, <1>2, <1>5, AppendMembers DEF Held
  <2> QED BY <1>3, <2>1, <2>2 DEF OneStep
<1> QED BY <1>2, <1>4, <1>5 DEF Held

\* What was not sent has no handler.
NotYetSent == \A r \in Requests : pc[r] = "recorded" => handler[r] = "none"

\* A handler starts with the sending.
LEMMA NotYetSentInductive ==
  ASSUME TypeInv, NotYetSent, [Next]_vars
  PROVE  NotYetSent'
<1> SUFFICES ASSUME NEW r \in Requests, pc'[r] = "recorded" PROVE handler'[r] = "none"
  BY DEF NotYetSent
<1> USE DEF TypeInv, NegotiationTypeOK, NotYetSent
<1>1. CASE \E q \in Requests, n, k \in Nodes, t \in Sessions, op \in Asked, written \in BOOLEAN :
             Send(q, n, k, t, op, written)
  <2> PICK q \in Requests, n \in Nodes, k \in Nodes, t \in Sessions, op \in Asked, written \in BOOLEAN :
             Send(q, n, k, t, op, written)
    BY <1>1
  <2> QED BY DEF Send, MadeHaveFrames
<1>2. CASE \E q \in Requests : Transmit(q)
  BY <1>2 DEF Transmit
<1>3. CASE \E q \in Requests : GiveUp(q)
  BY <1>3 DEF GiveUp
<1>4. CASE \E q \in Requests, written \in BOOLEAN : Receive(q, written)
  BY <1>4 DEF Receive
<1>5. CASE \E q \in Requests, written \in BOOLEAN : Reply(q, written)
  BY <1>5 DEF Reply
<1>6. CASE \E q \in Requests, written \in BOOLEAN : GetReply(q, written)
  BY <1>6 DEF GetReply
<1>7. CASE \E n \in Nodes : Stop(n)
  BY <1>7 DEF Stop
<1>8. CASE \E n \in Nodes : Start(n)
  BY <1>8 DEF Start
<1>9. CASE UNCHANGED vars
  BY <1>9 DEF vars
<1> QED BY <1>1, <1>2, <1>3, <1>4, <1>5, <1>6, <1>7, <1>8, <1>9 DEF Next

\* What a request has reached it does not lose.
LEMMA RequestsGoOn ==
  ASSUME TypeInv, NotYetSent, [Next]_vars, NEW r \in Requests
  PROVE  /\ pc[r] # "idle" => /\ pc'[r] # "idle"
                              /\ frame'[r] = frame[r]
                              /\ earlier'[r] = earlier[r]
         /\ pc[r] = "done" => pc'[r] = "done"
         /\ handler[r] # "none" => handler'[r] # "none"
         /\ handler[r] \in {"answered", "errored"} => handler'[r] = handler[r]
<1> USE DEF TypeInv, NegotiationTypeOK, MadeHaveFrames
<1>1. CASE \E q \in Requests, n, k \in Nodes, t \in Sessions, op \in Asked, written \in BOOLEAN :
             Send(q, n, k, t, op, written)
  <2> PICK q \in Requests, n \in Nodes, k \in Nodes, t \in Sessions, op \in Asked, written \in BOOLEAN :
             Send(q, n, k, t, op, written)
    BY <1>1
  <2> QED BY DEF Send
<1>2. CASE \E q \in Requests : Transmit(q)
  <2> PICK q \in Requests : Transmit(q)
    BY <1>2
  <2>1. pc'[r] = IF r = q THEN "sent" ELSE pc[r]
    BY DEF Transmit
  <2>2. handler'[r] = IF r = q THEN "arrived" ELSE handler[r]
    BY DEF Transmit
  <2> QED BY <2>1, <2>2 DEF Transmit, NotYetSent
<1>3. CASE \E q \in Requests : GiveUp(q)
  BY <1>3 DEF GiveUp
<1>4. CASE \E q \in Requests, written \in BOOLEAN : Receive(q, written)
  BY <1>4 DEF Receive
<1>5. CASE \E q \in Requests, written \in BOOLEAN : Reply(q, written)
  BY <1>5 DEF Reply
<1>6. CASE \E q \in Requests, written \in BOOLEAN : GetReply(q, written)
  BY <1>6 DEF GetReply
<1>7. CASE \E n \in Nodes : Stop(n)
  BY <1>7 DEF Stop
<1>8. CASE \E n \in Nodes : Start(n)
  BY <1>8 DEF Start
<1>9. CASE UNCHANGED vars
  BY <1>9 DEF vars
<1> QED BY <1>1, <1>2, <1>3, <1>4, <1>5, <1>6, <1>7, <1>8, <1>9 DEF Next

(***************************************************************************)
(* What was answered is on both disks, what nobody supports stays home.    *)
(***************************************************************************)

\* A held frame is the frame of its request or an answer to it; an answer, and a
\* request that another node made, have gone through a handler.
Known(n, f) ==
  /\ pc[f.req] # "idle"
  /\ f = IF f.kind = "request" THEN frame[f.req] ELSE Answer(frame[f.req], f.kind)
  /\ f.kind = "answer" => handler[f.req] = "answered"
  /\ f.kind # "request" \/ f.from # n => handler[f.req] # "none"

HeldAreKnown == \A n \in Nodes, s \in Sessions : \A f \in Held(n, s) : Known(n, f)

\* The fields of an answer that come from its request.
LEMMA AnswerFields ==
  ASSUME NEW f \in FrameSet, NEW kind \in {"answer", "error"}
  PROVE  /\ Answer(f, kind).req = f.req
         /\ Answer(f, kind).session = f.session
         /\ Answer(f, kind).op = f.op
         /\ Answer(f, kind).from = f.to
         /\ Answer(f, kind).to = f.from
  BY DEF Answer, FrameSet

\* What is known of a frame remains true of it.
LEMMA KnownStays ==
  ASSUME TypeInv, NotYetSent, [Next]_vars, NEW n \in Nodes, NEW f \in FrameSet, Known(n, f)
  PROVE  Known(n, f)'
<1>1. f.req \in Requests
  BY DEF FrameSet
<1>2. PICK r \in Requests : r = f.req
  BY <1>1
<1>3. /\ pc'[r] # "idle" /\ frame'[r] = frame[r]
      /\ handler[r] # "none" => handler'[r] # "none"
      /\ handler[r] = "answered" => handler'[r] = "answered"
  BY <1>2, RequestsGoOn DEF Known
<1> QED BY <1>2, <1>3 DEF Known, Answer

\* What a step adds is known.
LEMMA NewIsKnown ==
  ASSUME TypeInv, NotYetSent, [Next]_vars,
         NEW n \in Nodes, NEW s \in Sessions, NEW g \in FrameSet, IsNew(n, s, g)
  PROVE  Known(n, g)'
<1>1. PICK r \in Requests :
       \/ pc[r] = "idle" /\ g = frame'[r] /\ g.kind = "request" /\ g.req = r /\ g.from = n /\ pc'[r] # "idle"
       \/ handler[r] = "arrived" /\ g = frame[r] /\ handler'[r] # "none"
       \/ handler[r] = "recorded" /\ g = Answer(frame[r], "answer") /\ handler'[r] = "answered"
       \/ handler[r] = "answered" /\ g = Answer(frame[r], "answer")
       \/ handler[r] = "errored" /\ g = Answer(frame[r], "error")
  BY DEF IsNew
<1>2. CASE pc[r] = "idle" /\ g = frame'[r] /\ g.kind = "request" /\ g.req = r /\ g.from = n /\ pc'[r] # "idle"
  BY <1>2 DEF Known
<1>3. CASE handler[r] # "none"
  <2>1. frame[r] \in FrameSet /\ frame[r].req = r /\ frame[r].kind = "request" /\ pc[r] # "idle"
    BY <1>3 DEF TypeInv, MadeHaveFrames
  <2>2. /\ pc'[r] # "idle" /\ frame'[r] = frame[r] /\ handler'[r] # "none"
        /\ handler[r] \in {"answered", "errored"} => handler'[r] = handler[r]
    BY <1>3, <2>1, RequestsGoOn
  <2>3. CASE g = frame[r]
    BY <2>1, <2>2, <2>3 DEF Known
  <2>4. CASE g = Answer(frame[r], "answer") /\ handler'[r] = "answered"
    <3>1. g.req = r /\ g.kind = "answer"
      BY <2>1, <2>4, FrameTypes, AnswerFields
    <3> QED BY <2>2, <2>4, <3>1 DEF Known, Answer
  <2>5. CASE g = Answer(frame[r], "error")
    <3>1. g.req = r /\ g.kind = "error"
      BY <2>1, <2>5, FrameTypes, AnswerFields
    <3> QED BY <2>2, <2>5, <3>1 DEF Known, Answer
  <2>6. g = frame[r] \/ (g = Answer(frame[r], "answer") /\ handler'[r] = "answered") \/ g = Answer(frame[r], "error")
    <3>1. CASE pc[r] = "idle"
      BY <2>1, <3>1
    <3>2. CASE pc[r] # "idle"
      BY <1>1, <2>2, <3>2
    <3> QED BY <3>1, <3>2
  <2> QED BY <2>3, <2>4, <2>5, <2>6
<1> QED BY <1>1, <1>2, <1>3

\* So every held frame is known after a step.
LEMMA KnownInductive ==
  ASSUME TypeInv, NotYetSent, HeldAreKnown, [Next]_vars
  PROVE  HeldAreKnown'
<1> SUFFICES ASSUME NEW n \in Nodes, NEW s \in Sessions, NEW f \in Held(n, s)'
             PROVE  Known(n, f)'
  BY DEF HeldAreKnown
<1>1. f \in FrameSet /\ (f \in Held(n, s) \/ IsNew(n, s, f))
  BY NewOrHeld
<1> QED BY <1>1, KnownStays, NewIsKnown DEF HeldAreKnown

\* What has arrived somewhere was validated by its sender.
ArrivedAreSupported == \A r \in Requests : handler[r] # "none" => frame[r].op \in Ops

\* What was recorded by its handler is on the disk there.
HandledAreWritten == \A r \in Requests :
  handler[r] \in {"recorded", "answered"} => frame[r] \in ToSet(file[frame[r].to][frame[r].session])

\* How a request gets to a handler, and past its record.
LEMMA HandlerSteps ==
  ASSUME TypeInv, [Next]_vars, NEW r \in Requests
  PROVE  /\ handler'[r] # "none" => handler[r] # "none" \/ (pc[r] # "idle" /\ Supported(frame[r].op))
         /\ handler'[r] \in {"recorded", "answered"} =>
              handler[r] \in {"recorded", "answered"} \/ (handler[r] = "arrived" /\ Receive(r, TRUE))
<1> USE DEF TypeInv, NegotiationTypeOK
<1>1. CASE \E q \in Requests, n, k \in Nodes, t \in Sessions, op \in Asked, written \in BOOLEAN :
             Send(q, n, k, t, op, written)
  BY <1>1 DEF Send
<1>2. CASE \E q \in Requests : Transmit(q)
  BY <1>2 DEF Transmit
<1>3. CASE \E q \in Requests : GiveUp(q)
  BY <1>3 DEF GiveUp
<1>4. CASE \E q \in Requests, written \in BOOLEAN : Receive(q, written)
  <2> PICK q \in Requests, written \in BOOLEAN : Receive(q, written)
    BY <1>4
  <2>1. handler'[r] = IF r = q THEN IF written THEN "recorded" ELSE "errored" ELSE handler[r]
    BY DEF Receive, MayProceed
  <2>2. handler[q] = "arrived"
    BY DEF Receive
  <2>3. CASE r = q /\ written
    <3>1. Receive(r, TRUE)
      BY <2>3
    <3> QED BY <2>1, <2>2, <2>3, <3>1
  <2> QED BY <2>1, <2>2, <2>3
<1>5. CASE \E q \in Requests, written \in BOOLEAN : Reply(q, written)
  BY <1>5 DEF Reply
<1>6. CASE \E q \in Requests, written \in BOOLEAN : GetReply(q, written)
  BY <1>6 DEF GetReply
<1>7. CASE \E n \in Nodes : Stop(n)
  BY <1>7 DEF Stop
<1>8. CASE \E n \in Nodes : Start(n)
  BY <1>8 DEF Start
<1>9. CASE UNCHANGED vars
  BY <1>9 DEF vars
<1> QED BY <1>1, <1>2, <1>3, <1>4, <1>5, <1>6, <1>7, <1>8, <1>9 DEF Next

\* Validation comes before the stream, the record before the answer.
LEMMA HandledInductive ==
  ASSUME TypeInv, TypeInv', NotYetSent, FilesGrow, ArrivedAreSupported, HandledAreWritten, [Next]_vars
  PROVE  ArrivedAreSupported' /\ HandledAreWritten'
<1> USE DEF TypeInv, NegotiationTypeOK, MadeHaveFrames
<1>1. ASSUME NEW r \in Requests, handler'[r] # "none" PROVE frame'[r].op \in Ops
  <2>1. handler[r] # "none" \/ (pc[r] # "idle" /\ Supported(frame[r].op))
    BY <1>1, HandlerSteps
  <2>2. frame'[r] = frame[r]
    BY <2>1, RequestsGoOn
  <2> QED BY <2>1, <2>2 DEF ArrivedAreSupported, Supported
<1>2. ASSUME NEW r \in Requests, handler'[r] \in {"recorded", "answered"}
      PROVE  frame'[r] \in ToSet(file'[frame'[r].to][frame'[r].session])
  <2>1. handler[r] \in {"recorded", "answered"} \/ (handler[r] = "arrived" /\ Receive(r, TRUE))
    BY <1>2, HandlerSteps
  <2>2. frame'[r] = frame[r]
    BY <2>1, RequestsGoOn
  <2>3. frame[r] \in FrameSet /\ frame[r].to \in Nodes /\ frame[r].session \in Sessions
    BY <2>1 DEF FrameSet
  <2>4. CASE handler[r] \in {"recorded", "answered"}
    <3>1. /\ file[frame[r].to][frame[r].session] \in Seq(FrameSet)
          /\ file'[frame[r].to][frame[r].session] \in Seq(FrameSet)
      BY <2>3
    <3>2. IsPrefix(file[frame[r].to][frame[r].session], file'[frame[r].to][frame[r].session])
      BY <2>3 DEF FilesGrow
    <3>3. frame[r] \in ToSet(file[frame[r].to][frame[r].session])
      BY <2>4 DEF HandledAreWritten
    <3> QED BY <2>2, <3>1, <3>2, <3>3, PrefixMembers
  <2>5. CASE Receive(r, TRUE)
    <3>1. Records(frame[r].to, frame[r], TRUE)
      BY <2>5 DEF Receive
    <3> QED BY <2>2, <2>3, <3>1, RecordedIsOnDisk
  <2> QED BY <2>1, <2>4, <2>5
<1> QED BY <1>1, <1>2 DEF ArrivedAreSupported, HandledAreWritten

RoundTripInv == ReceivedInv /\ NotYetSent /\ HeldAreKnown /\ ArrivedAreSupported /\ HandledAreWritten

\* At first there is nothing to know.
LEMMA RoundTripInitial == Init => RoundTripInv
<1> SUFFICES ASSUME Init PROVE RoundTripInv
  OBVIOUS
<1>1. ToSet(<<>>) = {}
  BY DEF ToSet
<1>2. HeldAreKnown
  BY <1>1 DEF Init, Empty, Held, HeldAreKnown
<1> QED BY <1>2, ReceivedInitial DEF Init, RoundTripInv, NotYetSent, ArrivedAreSupported, HandledAreWritten

\* Every step keeps all of it.
LEMMA RoundTripInductive == RoundTripInv /\ [Next]_vars => RoundTripInv'
<1>1. ReceivedInv /\ [Next]_vars => ReceivedInv' /\ FilesGrow /\ TypeInv'
  BY TypeInductive, StepsGrow, SentInductive, HeldInductive DEF ReceivedInv
<1>2. RoundTripInv /\ [Next]_vars => NotYetSent' /\ HeldAreKnown'
  BY NotYetSentInductive, KnownInductive DEF RoundTripInv, ReceivedInv
<1>3. RoundTripInv /\ [Next]_vars => ArrivedAreSupported' /\ HandledAreWritten'
  BY <1>1, HandledInductive DEF RoundTripInv, ReceivedInv
<1> QED BY <1>1, <1>2, <1>3 DEF RoundTripInv

\* A request that was answered, other than with an error, is on the disks of both
\* nodes, whatever write failed after: handleNegotiate records before it answers.
THEOREM RoundTripsAreRecorded == Spec => []RoundTripIsRecorded
<1>1. ASSUME RoundTripInv, NEW n \in Nodes, NEW s \in Sessions, NEW f \in ToSet(mem[n][s]), f.kind = "answer"
      PROVE  frame[f.req] \in ToSet(file[f.from][s]) /\ frame[f.req] \in ToSet(file[f.to][s])
  <2>1. f \in FrameSet /\ f.req \in Requests
    <3>1. mem[n][s] \in Seq(FrameSet)
      BY <1>1 DEF RoundTripInv, ReceivedInv, TypeInv, NegotiationTypeOK
    <3>2. f \in FrameSet
      BY <1>1, <3>1 DEF ToSet
    <3> QED BY <3>2 DEF FrameSet
  <2>2. Known(n, f) /\ f.session = s
    BY <1>1 DEF RoundTripInv, HeldAreKnown, Held, ReceivedInv, HeldAreWritten, MayHold
  <2>3. handler[f.req] = "answered" /\ f = Answer(frame[f.req], "answer")
    BY <1>1, <2>2 DEF Known
  <2>4. frame[f.req] \in FrameSet
    BY <1>1, <2>1, <2>3 DEF RoundTripInv, ReceivedInv, TypeInv, MadeHaveFrames
  <2>5. frame[f.req].session = s /\ frame[f.req].to = f.from /\ frame[f.req].from = f.to
    BY <2>2, <2>3, <2>4, AnswerFields
  <2>6. Written(frame[f.req])
    BY <1>1, <2>1, <2>3 DEF RoundTripInv, ReceivedInv, SentAreWritten
  <2>7. frame[f.req] \in ToSet(file[frame[f.req].to][frame[f.req].session])
    BY <1>1, <2>1, <2>3 DEF RoundTripInv, HandledAreWritten
  <2> QED BY <2>5, <2>6, <2>7 DEF Written
<1>2. RoundTripInv => RoundTripIsRecorded
  BY <1>1 DEF RoundTripIsRecorded
<1> QED BY <1>2, RoundTripInitial, RoundTripInductive, PTL DEF Spec

\* A frame with an op that is not supported is never in the session of another
\* node than its sender, nor is there an answer to it anywhere.
THEOREM UnsupportedStays == Spec => []UnsupportedStaysHome
<1>1. ASSUME RoundTripInv, NEW n \in Nodes, NEW s \in Sessions, NEW f \in Held(n, s), f.op \notin Ops
      PROVE  f.kind = "request" /\ f.from = n
  <2>1. f \in FrameSet /\ f.req \in Requests
    <3>1. mem[n][s] \in Seq(FrameSet) /\ file[n][s] \in Seq(FrameSet)
      BY <1>1 DEF RoundTripInv, ReceivedInv, TypeInv, NegotiationTypeOK
    <3>2. f \in FrameSet
      BY <1>1, <3>1 DEF Held, ToSet
    <3> QED BY <3>2 DEF FrameSet
  <2>2. Known(n, f)
    BY <1>1 DEF RoundTripInv, HeldAreKnown
  <2> SUFFICES ASSUME f.kind # "request" \/ f.from # n PROVE FALSE
    OBVIOUS
  <2>3. handler[f.req] # "none"
    BY <2>2 DEF Known
  <2>4. frame[f.req] \in FrameSet /\ frame[f.req].op \in Ops
    BY <1>1, <2>1, <2>3 DEF RoundTripInv, ArrivedAreSupported, ReceivedInv, TypeInv, MadeHaveFrames
  <2>5. f.kind \in {"request", "answer", "error"}
    BY <2>1 DEF FrameSet
  <2>6. f.op = frame[f.req].op
    BY <2>2, <2>4, <2>5, AnswerFields DEF Known
  <2> QED BY <1>1, <2>4, <2>6
<1>2. RoundTripInv => UnsupportedStaysHome
  BY <1>1 DEF UnsupportedStaysHome, Held
<1> QED BY <1>2, RoundTripInitial, RoundTripInductive, PTL DEF Spec

(***************************************************************************)
(* What was answered comes first.                                          *)
(***************************************************************************)

IsRequestOf(f, r) == f.req = r /\ f.kind = "request"

\* What was answered when a request was made stays answered, and has had its
\* handler.
EarlierAreDone == \A r \in Requests :
  /\ pc[r] = "done" => handler[r] \in {"answered", "errored"}
  /\ \A q \in earlier[r] : pc[q] = "done"

\* The requests of a session are in the order of the answers before them.
InOrder(session) ==
  \A r \in Requests : \A q \in earlier[r] : \A i, j \in DOMAIN session :
     IsRequestOf(session[i], q) /\ IsRequestOf(session[j], r) => i < j

HeldInOrder == \A n \in Nodes, s \in Sessions : InOrder(mem[n][s]) /\ InOrder(file[n][s])

\* How a request gets done, and what it finds answered when it is made.
LEMMA DoneSteps ==
  ASSUME TypeInv, [Next]_vars, NEW r \in Requests
  PROVE  /\ pc'[r] = "done" => pc[r] = "done" \/ handler[r] \in {"answered", "errored"}
         /\ earlier'[r] = earlier[r] \/ (pc[r] = "idle" /\ earlier'[r] = {q \in Requests : pc[q] = "done"})
<1> USE DEF TypeInv, NegotiationTypeOK
<1>1. CASE \E q \in Requests, n, k \in Nodes, t \in Sessions, op \in Asked, written \in BOOLEAN :
             Send(q, n, k, t, op, written)
  <2> PICK q \in Requests, n \in Nodes, k \in Nodes, t \in Sessions, op \in Asked, written \in BOOLEAN :
             Send(q, n, k, t, op, written)
    BY <1>1
  <2>1. pc'[r] = "done" => pc[r] = "done"
    BY DEF Send
  <2>2. pc[q] = "idle" /\ earlier' = [earlier EXCEPT ![q] = {x \in Requests : pc[x] = "done"}]
    BY DEF Send
  <2> QED BY <2>1, <2>2
<1>2. CASE \E q \in Requests : Transmit(q)
  BY <1>2 DEF Transmit
<1>3. CASE \E q \in Requests : GiveUp(q)
  BY <1>3 DEF GiveUp
<1>4. CASE \E q \in Requests, written \in BOOLEAN : Receive(q, written)
  BY <1>4 DEF Receive
<1>5. CASE \E q \in Requests, written \in BOOLEAN : Reply(q, written)
  BY <1>5 DEF Reply
<1>6. CASE \E q \in Requests, written \in BOOLEAN : GetReply(q, written)
  BY <1>6 DEF GetReply
<1>7. CASE \E n \in Nodes : Stop(n)
  BY <1>7 DEF Stop
<1>8. CASE \E n \in Nodes : Start(n)
  BY <1>8 DEF Start
<1>9. CASE UNCHANGED vars
  BY <1>9 DEF vars
<1> QED BY <1>1, <1>2, <1>3, <1>4, <1>5, <1>6, <1>7, <1>8, <1>9 DEF Next

\* Whatever a request found answered was answered already.
LEMMA FoundWasDone ==
  ASSUME TypeInv, EarlierAreDone, [Next]_vars, NEW r \in Requests, NEW q \in earlier'[r]
  PROVE  q \in Requests /\ pc[q] = "done"
  BY DoneSteps DEF TypeInv, NegotiationTypeOK, EarlierAreDone

\* It stays answered.
LEMMA EarlierInductive ==
  ASSUME TypeInv, NotYetSent, EarlierAreDone, [Next]_vars
  PROVE  EarlierAreDone'
<1> SUFFICES ASSUME NEW r \in Requests
             PROVE  /\ pc'[r] = "done" => handler'[r] \in {"answered", "errored"}
                    /\ \A q \in earlier'[r] : pc'[q] = "done"
  BY DEF EarlierAreDone
<1>1. pc'[r] = "done" => handler[r] \in {"answered", "errored"}
  BY DoneSteps DEF EarlierAreDone
<1>2. handler[r] \in {"answered", "errored"} => handler'[r] = handler[r]
  BY RequestsGoOn
<1>3. ASSUME NEW q \in earlier'[r] PROVE pc'[q] = "done"
  BY FoundWasDone, RequestsGoOn
<1> QED BY <1>1, <1>2, <1>3

\* A request that a step records was not answered before.
LEMMA NewIsNotDone ==
  ASSUME TypeInv, EarlierAreDone,
         NEW n \in Nodes, NEW s \in Sessions, NEW g \in FrameSet, IsNew(n, s, g),
         NEW r \in Requests, IsRequestOf(g, r)
  PROVE  pc[r] # "done"
<1>1. PICK x \in Requests :
       \/ pc[x] = "idle" /\ g = frame'[x] /\ g.kind = "request" /\ g.req = x /\ g.from = n /\ pc'[x] # "idle"
       \/ handler[x] = "arrived" /\ g = frame[x] /\ handler'[x] # "none"
       \/ handler[x] = "recorded" /\ g = Answer(frame[x], "answer") /\ handler'[x] = "answered"
       \/ handler[x] = "answered" /\ g = Answer(frame[x], "answer")
       \/ handler[x] = "errored" /\ g = Answer(frame[x], "error")
  BY DEF IsNew
<1>2. CASE pc[x] = "idle" /\ g.req = x
  BY <1>2 DEF IsRequestOf
<1>3. CASE handler[x] # "none"
  <2>1. frame[x] \in FrameSet /\ frame[x].req = x
    BY <1>3 DEF TypeInv, MadeHaveFrames
  <2>2. CASE handler[x] = "arrived" /\ g = frame[x]
    BY <2>1, <2>2 DEF EarlierAreDone, IsRequestOf
  <2>3. CASE g \in {Answer(frame[x], "answer"), Answer(frame[x], "error")}
    BY <2>1, <2>3, FrameTypes DEF IsRequestOf
  <2>4. CASE pc[x] = "idle" /\ g.req = x
    BY <2>4 DEF IsRequestOf
  <2> QED BY <1>1, <2>2, <2>3, <2>4
<1> QED BY <1>1, <1>2, <1>3

\* A session of known frames stays in order: a request that is made now has no
\* frame in it yet.
LEMMA OrderStays ==
  ASSUME TypeInv, NotYetSent, EarlierAreDone, [Next]_vars,
         NEW n \in Nodes, NEW session \in Seq(FrameSet), InOrder(session),
         \A i \in DOMAIN session : Known(n, session[i])
  PROVE  InOrder(session)'
<1> SUFFICES ASSUME NEW r \in Requests, NEW q \in earlier'[r], NEW i \in DOMAIN session, NEW j \in DOMAIN session,
                    IsRequestOf(session[i], q), IsRequestOf(session[j], r)
             PROVE  i < j
  BY DEF InOrder, IsRequestOf
<1>1. pc[r] # "idle"
  BY DEF Known, IsRequestOf
<1>2. q \in earlier[r]
  BY <1>1, RequestsGoOn
<1> QED BY <1>2 DEF InOrder

\* A new frame comes last, and is not of a request that another one follows.
LEMMA OrderOfAppend ==
  ASSUME TypeInv, EarlierAreDone, [Next]_vars,
         NEW n \in Nodes, NEW s \in Sessions, NEW session \in Seq(FrameSet), InOrder(session)',
         NEW g \in FrameSet, IsNew(n, s, g)
  PROVE  InOrder(Append(session, g))'
<1> DEFINE longer == Append(session, g)
<1>1. Len(longer) = Len(session) + 1 /\ longer[Len(session) + 1] = g /\ \A i \in 1 .. Len(session) : longer[i] = session[i]
  OBVIOUS
<1>2. DOMAIN session = 1 .. Len(session) /\ DOMAIN longer = 1 .. Len(session) + 1 /\ Len(session) \in Nat
  BY <1>1
<1> HIDE DEF longer
<1>3. ASSUME NEW r \in Requests, NEW q \in earlier'[r], NEW i \in DOMAIN longer, NEW j \in DOMAIN longer,
             IsRequestOf(longer[i], q), IsRequestOf(longer[j], r)
      PROVE  i < j
  <2>1. q \in Requests /\ pc[q] = "done"
    BY FoundWasDone
  <2>2. i # Len(session) + 1
    BY <1>1, <1>3, <2>1, NewIsNotDone
  <2>3. CASE j = Len(session) + 1
    BY <1>2, <2>2, <2>3
  <2>4. CASE j # Len(session) + 1
    <3>1. i \in DOMAIN session /\ j \in DOMAIN session /\ longer[i] = session[i] /\ longer[j] = session[j]
      BY <1>1, <1>2, <2>2, <2>4
    <3> QED BY <1>3, <3>1 DEF InOrder, IsRequestOf
  <2> QED BY <2>3, <2>4
<1> QED BY <1>3 DEF InOrder, IsRequestOf, longer

\* So every session keeps its order.
LEMMA OrderInductive ==
  ASSUME TypeInv, NotYetSent, HeldAreKnown, EarlierAreDone, HeldInOrder, [Next]_vars
  PROVE  HeldInOrder'
<1> SUFFICES ASSUME NEW n \in Nodes, NEW s \in Sessions
             PROVE  InOrder(mem[n][s])' /\ InOrder(file[n][s])'
  BY DEF HeldInOrder
<1>1. PICK m \in Seq(FrameSet) : m = mem[n][s]
  BY DEF TypeInv, NegotiationTypeOK
<1>2. PICK d \in Seq(FrameSet) : d = file[n][s]
  BY DEF TypeInv, NegotiationTypeOK
<1>3. (\A i \in DOMAIN m : Known(n, m[i])) /\ (\A i \in DOMAIN d : Known(n, d[i]))
  BY <1>1, <1>2 DEF HeldAreKnown, Held, ToSet
<1>4. InOrder(m) /\ InOrder(d)
  BY <1>1, <1>2 DEF HeldInOrder
<1>5. InOrder(m)' /\ InOrder(d)'
  BY <1>3, <1>4, OrderStays
<1>6. InOrder(<<>>)'
  BY DEF InOrder
<1>7. OneStep(n, s)
  BY EveryStep
<1>8. InOrder(mem[n][s])'
  <2>1. CASE mem'[n][s] \in {mem[n][s], file[n][s], <<>>}
    <3>1. mem'[n][s] = m \/ mem'[n][s] = d \/ mem'[n][s] = <<>>
      BY <1>1, <1>2, <2>1
    <3> QED BY <1>5, <1>6, <3>1 DEF InOrder
  <2>2. CASE \E g \in FrameSet : IsNew(n, s, g) /\ mem'[n][s] = Append(mem[n][s], g)
    <3> PICK g \in FrameSet : IsNew(n, s, g) /\ mem'[n][s] = Append(mem[n][s], g)
      BY <2>2
    <3>1. mem'[n][s] = Append(m, g)
      BY <1>1
    <3>2. InOrder(Append(m, g))'
      BY <1>5, OrderOfAppend
    <3> QED BY <3>1, <3>2 DEF InOrder
  <2> QED BY <1>7, <2>1, <2>2 DEF OneStep
<1>9. InOrder(file[n][s])'
  <2>1. file'[n][s] = d \/ file'[n][s] = mem'[n][s]
    BY <1>2, <1>7 DEF OneStep
  <2> QED BY <1>5, <1>8, <2>1 DEF InOrder
<1> QED BY <1>8, <1>9

OrderInv == RoundTripInv /\ EarlierAreDone /\ HeldInOrder

\* At first there is nothing to order.
LEMMA OrderInitial == Init => OrderInv
<1> SUFFICES ASSUME Init PROVE OrderInv
  OBVIOUS
<1>1. EarlierAreDone
  BY DEF Init, EarlierAreDone
<1>2. HeldInOrder
  BY DEF Init, Empty, HeldInOrder, InOrder
<1> QED BY <1>1, <1>2, RoundTripInitial DEF OrderInv

\* A request made after another was answered comes after it in the session of
\* both nodes, through restarts, missed writes, late frames and crossing requests.
THEOREM AnswersOrder == Spec => []AnsweredComesFirst
<1>1. OrderInv /\ [Next]_vars => OrderInv'
  BY RoundTripInductive, EarlierInductive, OrderInductive DEF OrderInv, RoundTripInv, ReceivedInv
<1>2. OrderInv => AnsweredComesFirst
  <2> SUFFICES ASSUME OrderInv, NEW r \in Requests, NEW q \in earlier[r], NEW n \in Nodes, NEW s \in Sessions,
                      Has(mem[n][s], q), Has(mem[n][s], r)
               PROVE  Position(mem[n][s], q) < Position(mem[n][s], r)
    BY DEF AnsweredComesFirst
  <2> DEFINE i == Position(mem[n][s], q)
             j == Position(mem[n][s], r)
  <2>1. i \in DOMAIN mem[n][s] /\ IsRequestOf(mem[n][s][i], q)
    BY DEF Has, Position, IsRequestOf
  <2>2. j \in DOMAIN mem[n][s] /\ IsRequestOf(mem[n][s][j], r)
    BY DEF Has, Position, IsRequestOf
  <2> HIDE DEF i, j
  <2>3. i < j
    BY <2>1, <2>2 DEF OrderInv, HeldInOrder, InOrder
  <2> QED BY <2>3 DEF i, j
<1> QED BY <1>1, <1>2, OrderInitial, PTL DEF Spec
=============================================================================
