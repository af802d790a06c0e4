-------------------------- MODULE IpcClientProofs --------------------------
(***************************************************************************)
(* Theorems about IpcClient, for any set of calls and streams and any      *)
(* capacities: no caller is forgotten or told an untruth, an answer that   *)
(* is read reaches the caller who waits for it, and what the consumer of a *)
(* stream gets is what the peer sent.                                      *)
(*                                                                         *)
(* The argument follows each request on its way, through the queue, the    *)
(* writer and the socket to the peer, and its answer on the way back.      *)
(***************************************************************************)
EXTENDS IpcClient, SequenceTheorems, TLAPS

Ids == Calls \union Streams

Commands ==
    [kind : {"call"}, id : Calls] \union [kind : {"stream"}, id : Streams]
        \union [kind : {"envelope", "shutdown"}, id : {"none"}]

StreamFrames == [kind : {"stream"}, id : Streams, n : Nat, final : BOOLEAN]

Frames ==
    [kind : Answers \union {"bad"}, id : Calls, n : {0}, final : {FALSE}]
        \union [kind : {"refused"}, id : Streams, n : {0}, final : {FALSE}]
        \union [kind : {"push", "bad", "limit", "denied"}, id : {"none"}, n : {0}, final : {FALSE}]
        \union StreamFrames

(* The kind of every variable, and what goes with the state of a task.     *)
CallTypes ==
    /\ call \in [Calls -> {"idle", "waiting"} \union Outcomes]
    /\ slot \in [Calls -> {"none", "open", "dropped", "abandoned"} \union Outcomes]
    /\ strm \in [Streams -> {"idle", "inserted", "open", "refused"}]
    /\ listening \in [Streams -> BOOLEAN]
    /\ rejection \in {"none", "limit", "denied"}
    /\ disc \in {"no", "unsub", "shutdown", "joining", "done", "dropped"}

TaskTypes ==
    /\ wq \in Seq(Commands) /\ Len(wq) <= WriteCap
    /\ writer \in [at : {"idle", "writing", "exiting", "clearing", "leaving", "gone"},
                   cmd : Commands \union {NoCmd}]
    /\ writer.cmd.id # "none" => writer.at = "writing"
    /\ writer.at = "writing" => writer.cmd \in Commands
    /\ reader \in [at : {"reading", "handing", "exiting", "clearing", "gone"},
                   frame : StreamFrames \union {NoFrame}]
    /\ reader.at = "handing" <=> reader.frame \in StreamFrames
    /\ pending \in SUBSET Calls /\ active \in SUBSET Streams

ChannelTypes ==
    /\ chan \in [Streams -> Seq(StreamFrames)] /\ out \in [Streams -> Seq(StreamFrames)]
    /\ got \in [Streams -> Seq(StreamFrames)]
    /\ \A s \in Streams : Len(chan[s]) <= FrameCap /\ Len(out[s]) <= FrameCap
    /\ fwd \in [Streams -> [at : {"none", "waiting", "handing", "done"},
                            frame : StreamFrames \union {NoFrame}]]
    /\ \A s \in Streams : fwd[s].at = "handing" <=> fwd[s].frame \in StreamFrames

SocketTypes ==
    /\ up \in Seq(Commands) /\ down \in Seq(Frames)
    /\ peer \in [at : {"open", "refusing", "refused", "closed"}, hand : Commands \union {NoCmd},
                 sent : [Streams -> Nat], ran : SUBSET Calls]

ClientTypes == CallTypes /\ TaskTypes /\ ChannelTypes /\ SocketTypes

(* A caller waits while its reply channel is open or says something; a     *)
(* stream has a forwarder once its request is sent.                        *)
CallersWait ==
    /\ \A c \in Calls :
        /\ call[c] = "idle" => slot[c] = "none"
        /\ call[c] = "waiting" => slot[c] \notin {"none", "abandoned"}
        /\ slot[c] = "open" => call[c] = "waiting"
    /\ \A s \in Streams : strm[s] # "open" => fwd[s].at = "none"

-----------------------------------------------------------------------------
(* A request on its way.                                                   *)

Holds(q, x) == \E i \in 1..Len(q) : q[i].id = x
Once(q, x) == \A i, j \in 1..Len(q) : q[i].id = x /\ q[j].id = x => i = j

(* In the queue, with the writer, in the socket, or with the peer.         *)
Travels(x) == Holds(wq, x) \/ writer.cmd.id = x \/ Holds(up, x) \/ peer.hand.id = x

(* Not yet put on the queue. *)
Unsent(x) == IF x \in Calls THEN call[x] = "idle" ELSE strm[x] # "open"

(* Not yet seen by the peer. *)
Early(x) == Unsent(x) \/ Holds(wq, x) \/ writer.cmd.id = x \/ Holds(up, x)

TravelsOnce(x) ==
    /\ Holds(wq, x) => writer.cmd.id # x /\ ~Holds(up, x) /\ peer.hand.id # x
    /\ writer.cmd.id = x => ~Holds(up, x) /\ peer.hand.id # x
    /\ Holds(up, x) => peer.hand.id # x
    /\ Once(wq, x) /\ Once(up, x)
    /\ Unsent(x) => ~Travels(x)

RequestsTravelOnce == \A x \in Ids : TravelsOnce(x)

(* Whoever has heard nothing is still to be told, by the writer at the     *)
(* latest.                                                                 *)
OpenCallsAreKept ==
    \A c \in Calls : slot[c] = "open" =>
        /\ c \in pending \/ Holds(wq, c)
        /\ writer.at # "gone"
        /\ writer.at \in {"clearing", "leaving"} => Holds(wq, c)

-----------------------------------------------------------------------------
(* What callers are told.                                                  *)

(* Said of a call, `word` is the truth. *)
Truthful(word, c) ==
    /\ word \in {"refused", "unencodable"} => c \notin peer.ran /\ ~Travels(c)
    /\ word \in {"reply", "no_reply"} => c \in peer.ran
    /\ word = "limit" => rejection = "limit"

AnswersAreTrue ==
    \A c \in Calls :
        /\ Truthful(slot[c], c) /\ Truthful(call[c], c)
        /\ \A i \in 1..Len(down) : down[i].id = c =>
            ~Travels(c) /\ ~Unsent(c) /\ Truthful(down[i].kind, c)
        /\ Early(c) => c \notin peer.ran

Refused(f) == f.kind \in {"limit", "denied"}

(* A peer that refused the connection never serves it.                     *)
RefusalIsFinal ==
    /\ peer.at # "open" => peer.hand = NoCmd
    /\ peer.at \in {"refusing", "refused"} => peer.ran = {}
    /\ rejection # "none" \/ (\E i \in 1..Len(down) : Refused(down[i]))
        => peer.at \in {"refused", "closed"} /\ peer.ran = {}

(* The streams routed after the writer cleared the map.                    *)
LateStreams ==
    writer.at \in {"leaving", "gone"} =>
        \A s \in active : peer.sent[s] = 0 /\ ~Holds(up, s) /\ peer.hand.id # s

-----------------------------------------------------------------------------
(* A stream on its way.                                                    *)

(* The frame a stream shows for what came in under its id.                 *)
Shown(f) == IF f.kind = "stream" THEN f ELSE Termination(f)

(* Sent on s, and if it is the last, all that will be. *)
SentFrames(s) ==
    {f \in StreamFrames :
        /\ f.id = s /\ f.n \in 1..peer.sent[s]
        /\ f.final => f.n = peer.sent[s] /\ ~Travels(s)}

FramesWereSent ==
    \A s \in Streams :
        /\ got[s] \in Seq(SentFrames(s)) /\ out[s] \in Seq(SentFrames(s))
        /\ chan[s] \in Seq(SentFrames(s))
        /\ fwd[s].at = "handing" => fwd[s].frame \in SentFrames(s)
        /\ reader.frame.id = s => reader.frame \in SentFrames(s)
        /\ \A i \in 1..Len(down) : down[i].id = s => Shown(down[i]) \in SentFrames(s)
        /\ Unsent(s) => peer.sent[s] = 0

(* The frames that came as far as the consumer's channel, the forwarder's  *)
(* and the reader.                                                         *)
Size(q) == Len(q)
Delivered(s) == Size(got[s]) + Size(out[s])
Forwarded(s) == Delivered(s) + (IF fwd[s].at = "handing" THEN 1 ELSE 0)
Routed(s) == Forwarded(s) + Size(chan[s])
Read(s) == Routed(s) + (IF reader.frame.id = s THEN 1 ELSE 0)

(* Numbered from the consumer back to the peer, without a gap, as long as  *)
(* what is on the way can still reach the consumer.                        *)
Heard(s) == listening[s] /\ fwd[s].at # "done"

Numbered(q, after) == \A i \in 1..Len(q) : q[i].n = after + i

InOrder(s) ==
    /\ Numbered(got[s], 0) /\ Numbered(out[s], Size(got[s]))
    /\ Heard(s) =>
        /\ fwd[s].at = "handing" => fwd[s].frame.n = Delivered(s) + 1
        /\ Numbered(chan[s], Forwarded(s))
        /\ reader.frame.id = s => reader.frame.n = Routed(s) + 1

(* The frames still in the socket are those that follow. *)
Follow(s) ==
    /\ Read(s) <= peer.sent[s]
    /\ \A i \in 1..Len(down) : down[i].id = s => Shown(down[i]).n > Read(s)
    /\ \A i, j \in 1..Len(down) : i < j /\ down[i].id = s /\ down[j].id = s
                                    => Shown(down[i]).n < Shown(down[j]).n
    /\ \A n \in Nat : Read(s) < n /\ n <= peer.sent[s] =>
        \E i \in 1..Len(down) : down[i].id = s /\ Shown(down[i]).n = n

FramesAreInOrder ==
    \A s \in Streams : InOrder(s) /\ (Heard(s) /\ s \in active => Follow(s))

ClientInv ==
    /\ ClientTypes /\ CallersWait /\ RequestsTravelOnce /\ OpenCallsAreKept
    /\ AnswersAreTrue /\ RefusalIsFinal /\ LateStreams
    /\ FramesWereSent /\ FramesAreInOrder

-----------------------------------------------------------------------------
(* Queues, requests and frames.                                            *)

LEMMA Appended ==
    ASSUME NEW S, NEW q \in Seq(S), NEW m \in S, NEW r, r = Append(q, m)
    PROVE  /\ r \in Seq(S) /\ Len(r) = Len(q) + 1 /\ Len(q) \in Nat
           /\ r[Len(q) + 1] = m /\ \A i \in 1..Len(q) : r[i] = q[i]
OBVIOUS

LEMMA Tailed ==
    ASSUME NEW S, NEW q \in Seq(S), q # <<>>, NEW r, r = Tail(q)
    PROVE  /\ r \in Seq(S) /\ Len(r) = Len(q) - 1 /\ Len(q) \in Nat /\ Len(q) >= 1
           /\ Head(q) = q[1] /\ q[1] \in S
           /\ \A i \in 1..Len(r) : r[i] = q[i + 1]
OBVIOUS

LEMMA Emptied ==
    ASSUME NEW S, NEW r, r = <<>>
    PROVE  r \in Seq(S) /\ Len(r) = 0
OBVIOUS

LEMMA AppendedHolds ==
    ASSUME NEW S, NEW q \in Seq(S), NEW m \in S, NEW r, r = Append(q, m), NEW x
    PROVE  /\ Holds(r, x) <=> Holds(q, x) \/ m.id = x
           /\ Once(q, x) /\ (m.id = x => ~Holds(q, x)) => Once(r, x)
<1>1. Len(r) = Len(q) + 1 /\ Len(q) \in Nat /\ r[Len(q) + 1] = m /\ \A i \in 1..Len(q) : r[i] = q[i]
  BY Appended
<1>2. \A i \in 1..Len(r) : i \in 1..Len(q) \/ i = Len(q) + 1
  BY <1>1
<1>3. 1..Len(q) \subseteq 1..Len(r) /\ Len(q) + 1 \in 1..Len(r)
  BY <1>1
<1> QED
  BY <1>1, <1>2, <1>3 DEF Holds, Once

LEMMA TailedHolds ==
    ASSUME NEW S, NEW q \in Seq(S), q # <<>>, NEW r, r = Tail(q), NEW x
    PROVE  /\ Holds(q, x) <=> Holds(r, x) \/ Head(q).id = x
           /\ Once(q, x) => Once(r, x) /\ (Head(q).id = x => ~Holds(r, x))
<1>1. /\ Len(r) = Len(q) - 1 /\ Len(q) \in Nat /\ Len(q) >= 1 /\ Head(q) = q[1]
      /\ \A i \in 1..Len(r) : r[i] = q[i + 1]
  BY Tailed
<1>2. \A i \in 1..Len(q) : i = 1 \/ (i - 1 \in 1..Len(r) /\ r[i - 1] = q[i])
  BY <1>1
<1>3. \A i \in 1..Len(r) : i + 1 \in 1..Len(q) /\ i + 1 # 1
  BY <1>1
<1>4. 1 \in 1..Len(q)
  BY <1>1
<1>5. Holds(q, x) <=> Holds(r, x) \/ Head(q).id = x
  BY <1>1, <1>2, <1>3, <1>4 DEF Holds
<1>6. ASSUME Once(q, x) PROVE Once(r, x)
  <2> SUFFICES ASSUME NEW i \in 1..Len(r), NEW j \in 1..Len(r), r[i].id = x, r[j].id = x PROVE i = j
    BY DEF Once
  <2>1. i + 1 \in 1..Len(q) /\ j + 1 \in 1..Len(q) /\ q[i + 1].id = x /\ q[j + 1].id = x
    BY <1>1, <1>3
  <2>2. i + 1 = j + 1
    BY <1>6, <2>1 DEF Once
  <2> QED
    BY <1>1, <2>2
<1>7. ASSUME Once(q, x), Head(q).id = x, NEW i \in 1..Len(r), r[i].id = x PROVE FALSE
  <2>1. i + 1 \in 1..Len(q) /\ q[i + 1].id = x /\ q[1].id = x /\ i + 1 # 1
    BY <1>1, <1>3, <1>7
  <2> QED
    BY <1>4, <1>7, <2>1 DEF Once
<1> QED
  BY <1>5, <1>6, <1>7 DEF Holds

LEMMA EmptiedHolds ==
    ASSUME NEW r, r = <<>>, NEW x
    PROVE  ~Holds(r, x) /\ Once(r, x)
BY DEF Holds, Once

LEMMA CommandFields ==
    ASSUME NEW m \in Commands \union {NoCmd}
    PROVE  /\ m.kind \in {"call", "stream", "envelope", "shutdown", "none"}
           /\ m.kind = "call" <=> m.id \in Calls
           /\ m.kind = "stream" <=> m.id \in Streams
           /\ m.kind \in {"envelope", "shutdown", "none"} <=> m.id = "none"
           /\ m.kind = "none" <=> m = NoCmd
BY ClientAssumption DEF Commands, NoCmd, Cmd

LEMMA CommandsMade ==
    /\ \A c \in Calls : Cmd("call", c) \in Commands /\ Cmd("call", c).id = c
    /\ \A s \in Streams : Cmd("stream", s) \in Commands /\ Cmd("stream", s).id = s
    /\ \A kind \in {"envelope", "shutdown"} :
         Cmd(kind, "none") \in Commands /\ Cmd(kind, "none").id = "none"
    /\ NoCmd.id = "none" /\ NoCmd.kind = "none"
    /\ "none" \notin Ids /\ \A c \in Calls : c \notin Streams
BY ClientAssumption DEF Commands, NoCmd, Cmd, Ids

LEMMA FrameFields ==
    ASSUME NEW f \in Frames
    PROVE  /\ f.kind \in Answers \union {"bad", "push", "limit", "denied", "stream"}
           /\ f.kind = "stream" => f \in StreamFrames
           /\ f.id \in Calls => f.kind \in Answers \union {"bad"}
           /\ f.id \in Streams => f.kind \in {"refused", "stream"}
           /\ f.kind \in {"push", "limit", "denied"} => f.id = "none"
           /\ f.id = "none" => f.kind \in {"push", "bad", "limit", "denied"}
           /\ f.id \in Calls \union Streams \union {"none"}
           /\ f.kind \in Answers /\ f.kind # "refused" => f.id \in Calls
           /\ f.kind = "refused" => f.id \in Calls \union Streams
BY ClientAssumption DEF Frames, StreamFrames, Answers

LEMMA StreamFrameFields ==
    /\ \A f \in StreamFrames :
         /\ f.kind = "stream" /\ f.id \in Streams /\ f.n \in Nat /\ f.final \in BOOLEAN
         /\ f.id # "none" /\ f \in Frames
    /\ NoFrame \notin StreamFrames /\ NoFrame.id = "none"
BY ClientAssumption DEF Frames, StreamFrames, Frame, NoFrame

LEMMA RefusalMade ==
    ASSUME NEW s \in Streams, NEW f, f = Frame("refused", s, 0, FALSE)
    PROVE  f \in Frames /\ f.id = s /\ f.kind = "refused"
BY DEF Frames, Frame

LEMMA NoticeMade ==
    ASSUME NEW kind \in {"push", "bad", "limit", "denied"}, NEW f, f = Frame(kind, "none", 0, FALSE)
    PROVE  f \in Frames /\ f.id = "none" /\ f.kind = kind
BY DEF Frames, Frame

(* A push is a frame of nobody's. *)
LEMMA HowThePeerPushes ==
    ASSUME PeerPushes
    PROVE  \E f \in Frames :
             /\ f.kind \in {"push", "bad"} /\ f.id = "none"
             /\ down' = Append(down, f) /\ up' = up /\ peer' = peer
<1>1. PICK kind \in {"push", "bad"} : PeerSends(Frame(kind, "none", 0, FALSE), peer)
  BY DEF PeerPushes
<1>2. PICK f : f = Frame(kind, "none", 0, FALSE)
  OBVIOUS
<1>3. f \in Frames /\ f.id = "none" /\ f.kind = kind
  BY <1>2, NoticeMade
<1> QED
  BY <1>1, <1>2, <1>3 DEF PeerSends

-----------------------------------------------------------------------------
(* Types.                                                                  *)

LEMMA PeersOwn ==
    ASSUME PeerSteps
    PROVE  /\ UNCHANGED <<call, slot, strm, wq, pending, active, writer, reader>>
           /\ UNCHANGED <<chan, fwd, out, got, listening, rejection, disc>>
<1>1. PeerReads \/ PeerDispatches \/ PeerCloses => UNCHANGED local
  BY DEF PeerReads, PeerDispatches, PeerCloses
<1>2. PeerAnswers \/ PeerStreams \/ PeerPushes \/ PeerRefuses => UNCHANGED local
  <2>1. PeerAnswers => UNCHANGED local
    BY DEF PeerAnswers, PeerSends
  <2>2. PeerStreams => UNCHANGED local
    BY DEF PeerStreams, PeerSends
  <2>3. PeerPushes \/ PeerRefuses => UNCHANGED local
    BY DEF PeerPushes, PeerRefuses, PeerSends
  <2> QED
    BY <2>1, <2>2, <2>3
<1> QED
  BY <1>1, <1>2 DEF PeerSteps, PeerServes, local, queues, ends

LEMMA ToldType ==
    ASSUME CallTypes, NEW set, NEW why \in Outcomes \union {"dropped"}
    PROVE  Told(set, why) \in [Calls -> {"none", "open", "dropped", "abandoned"} \union Outcomes]
BY DEF CallTypes, Told

LEMMA CallTypesStep ==
    ASSUME CallTypes, CallersWait, Next
    PROVE  CallTypes'
<1> USE DEF ends
<1>1. ASSUME NEW c \in Calls, StartCall(c) \/ CallRefused(c) PROVE CallTypes'
  BY <1>1 DEF StartCall, CallRefused, CallTypes, ConnectionError, Outcomes
<1>2. ASSUME NEW c \in Calls, CallResolves(c) PROVE CallTypes'
  BY <1>2 DEF CallResolves, CallTypes, CallersWait, ConnectionError, Outcomes
<1>3. ASSUME NEW c \in Calls, CallTimesOut(c) PROVE CallTypes'
  BY <1>3 DEF CallTimesOut, CallTypes, Outcomes
<1>4. ASSUME NEW s \in Streams, InsertStream(s) \/ SendStream(s) \/ StreamRefused(s)
      PROVE  CallTypes'
  BY <1>4 DEF InsertStream, SendStream, StreamRefused, CallTypes
<1>5. ASSUME NEW s \in Streams, Consume(s) \/ CancelStream(s) \/ Forwarder(s)
      PROVE  CallTypes'
  <2>1. CASE Consume(s) \/ CancelStream(s)
    BY <2>1 DEF Consume, CancelStream, CallTypes
  <2>2. CASE Forwarder(s)
    <3>1. UNCHANGED <<call, slot, strm, listening, rejection, disc>>
      BY <2>2 DEF Forwarder, ForwarderTakes, ForwarderHands, ForwarderSeesEnd, ForwarderTimesOut
    <3> QED
      BY <3>1 DEF CallTypes
  <2> QED
    BY <1>5, <2>1, <2>2
<1>6. CASE BeginDisconnect \/ Disconnecting \/ DropClient
  BY <1>6 DEF BeginDisconnect, Disconnecting, DisconnectSends, FinishDisconnect, DropClient,
     CallTypes
<1>7. CASE WriterTakes \/ WriterClears \/ HandFrame \/ ReadEnd \/ ReaderClears \/ PeerSteps
  <2>1. UNCHANGED <<call, slot, strm, listening, rejection, disc>>
    <3>1. CASE WriterTakes \/ WriterClears \/ HandFrame \/ ReadEnd \/ ReaderClears
      BY <3>1 DEF WriterTakes, WriterClears, HandFrame, ReadEnd, ReaderClears
    <3>2. CASE PeerSteps
      BY <3>2, PeersOwn
    <3> QED
      BY <1>7, <3>1, <3>2
  <2> QED
    BY <2>1 DEF CallTypes
<1>8. ASSUME NEW set, NEW why \in Outcomes \union {"dropped"}, slot' = Told(set, why),
             UNCHANGED <<call, strm, listening, rejection, disc>>
      PROVE  CallTypes'
  BY <1>8, ToldType DEF CallTypes
<1>9. CASE WriterWrites \/ WriterCannotEncode
  BY <1>8, <1>9 DEF WriterWrites, WriterCannotEncode, Undone, CallTypes, Outcomes
<1>10. CASE WriterFails \/ ReaderFails \/ WriterGone
  <2>1. ConnectionError \in Outcomes
    BY DEF CallTypes, ConnectionError, Outcomes
  <2> QED
    BY <1>8, <1>10, <2>1 DEF WriterFails, ReaderFails, WriterGone, FailPending, CallTypes
<1>11. CASE ReadFrame
  <2>1. UNCHANGED <<call, strm, listening, disc>>
    BY <1>11 DEF ReadFrame
  <2>2. rejection' \in {"none", "limit", "denied"}
    BY <1>11 DEF ReadFrame, ResponseFrame, StreamFrame, PushFrame, BadFrame, RecordRejection,
       CallTypes
  <2> PICK f : f = Head(down)
    OBVIOUS
  <2>3. CASE slot' = slot
    BY <2>1, <2>2, <2>3 DEF CallTypes
  <2>4. CASE f.kind \in Answers /\ slot' = Told({f.id}, f.kind)
    BY <2>1, <2>2, <2>4, ToldType DEF CallTypes, Outcomes
  <2> QED
    BY <1>11, <2>3, <2>4 DEF ReadFrame, ResponseFrame, StreamFrame, PushFrame, BadFrame
<1> QED
  BY <1>1, <1>2, <1>3, <1>4, <1>5, <1>6, <1>7, <1>9, <1>10, <1>11
     DEF Next, CallerSteps, Writer, Reader

LEMMA TaskTypesStep ==
    ASSUME ClientTypes, Next
    PROVE  TaskTypes'
<1> USE DEF queues
<1>1. ASSUME NEW q, q \in Seq(Commands), NEW m \in Commands, Len(q) < WriteCap,
             NEW r, r = Append(q, m)
      PROVE  r \in Seq(Commands) /\ Len(r) <= WriteCap
  BY <1>1, Appended, ClientAssumption
<1>2. ASSUME NEW c \in Calls, StartCall(c) PROVE TaskTypes'
  <2>1. wq' \in Seq(Commands) /\ Len(wq') <= WriteCap
    BY <1>1, <1>2, CommandsMade DEF StartCall, Room, ClientTypes, TaskTypes
  <2> QED
    BY <1>2, <2>1 DEF StartCall, ClientTypes, TaskTypes
<1>3. ASSUME NEW s \in Streams, SendStream(s) PROVE TaskTypes'
  <2>1. wq' \in Seq(Commands) /\ Len(wq') <= WriteCap
    BY <1>1, <1>3, CommandsMade DEF SendStream, Room, ClientTypes, TaskTypes
  <2> QED
    BY <1>3, <2>1 DEF SendStream, ClientTypes, TaskTypes
<1>4. CASE Disconnecting
  <2>1. ASSUME NEW from, NEW kind \in {"envelope", "shutdown"}, NEW to, DisconnectSends(from,
               kind, to)
        PROVE  TaskTypes'
    <3>1. wq' \in Seq(Commands) /\ Len(wq') <= WriteCap
      BY <1>1, <2>1, CommandsMade DEF DisconnectSends, Room, ClientTypes, TaskTypes
    <3> QED
      BY <2>1, <3>1 DEF DisconnectSends, ClientTypes, TaskTypes
  <2>2. CASE FinishDisconnect
    BY <2>2, StreamFrameFields DEF FinishDisconnect, ClientTypes, TaskTypes
  <2> QED
    BY <1>4, <2>1, <2>2 DEF Disconnecting
<1>5. CASE DropClient
  BY <1>5, StreamFrameFields, CommandsMade, Emptied, ClientAssumption
     DEF DropClient, ClientTypes, TaskTypes
<1>6. CASE WriterTakes
  <2> PICK m : m = Head(wq)
    OBVIOUS
  <2>1. m \in Commands /\ wq' \in Seq(Commands) /\ Len(wq') <= WriteCap
    BY <1>6, Tailed, ClientAssumption DEF WriterTakes, ClientTypes, TaskTypes
  <2>2. writer' = [at |-> IF m.kind = "shutdown" THEN "exiting" ELSE "writing", cmd |-> m]
        /\ pending' = (IF m.kind = "call" THEN pending \union {m.id} ELSE pending)
        /\ UNCHANGED <<reader, active>>
    BY <1>6 DEF WriterTakes
  <2> QED
    BY <2>1, <2>2, CommandFields DEF ClientTypes, TaskTypes
<1>7. CASE WriterWrites \/ WriterCannotEncode \/ WriterFails \/ WriterClears
  BY <1>7, CommandsMade DEF WriterWrites, WriterCannotEncode, Undone, WriterFails, FailPending,
     WriterClears, ClientTypes, TaskTypes
<1>8. CASE WriterGone
  BY <1>8, Emptied, ClientAssumption DEF WriterGone, ClientTypes, TaskTypes
<1>9. CASE ReadFrame
  <2> PICK f : f = Head(down)
    OBVIOUS
  <2>1. f \in Frames
    BY <1>9, Tailed DEF ReadFrame, ClientTypes, SocketTypes
  <2>2. UNCHANGED <<wq, writer, active>> /\ pending' \in SUBSET Calls
    BY <1>9 DEF ReadFrame, ResponseFrame, StreamFrame, PushFrame, BadFrame, ClientTypes, TaskTypes
  <2>3. ASSUME NEW g \in StreamFrames, reader' = Hand(g) PROVE TaskTypes'
    BY <2>2, <2>3 DEF Hand, ClientTypes, TaskTypes
  <2>4. CASE reader' = Reading \/ reader' = [at |-> "exiting", frame |-> NoFrame]
    BY <2>2, <2>4, StreamFrameFields DEF Reading, ClientTypes, TaskTypes
  <2>5. f.kind = "stream" => f \in StreamFrames
    BY <2>1, FrameFields
  <2> PICK g : g = Termination(f)
    OBVIOUS
  <2>6. f.id \in active => g \in StreamFrames
    BY DEF Termination, Frame, StreamFrames, ClientTypes, TaskTypes
  <2> QED
    BY <1>9, <2>3, <2>4, <2>5, <2>6 DEF ReadFrame, ResponseFrame, StreamFrame, PushFrame, BadFrame
<1>10. CASE ReadEnd \/ HandFrame \/ ReaderFails \/ ReaderClears
  BY <1>10, StreamFrameFields
     DEF ReadEnd, HandFrame, ReaderFails, FailPending, ReaderClears, Reading, ClientTypes, TaskTypes
<1>11. ASSUME NEW s \in Streams, InsertStream(s) \/ StreamRefused(s)
       PROVE  TaskTypes'
  BY <1>11 DEF InsertStream, StreamRefused, ClientTypes, TaskTypes
<1>12. ASSUME NEW s \in Streams, Forwarder(s)
       PROVE  TaskTypes'
  <2>1. UNCHANGED <<wq, writer, reader, pending>> /\ active' \in SUBSET active
    BY <1>12 DEF Forwarder, ForwarderTakes, ForwarderHands, ForwarderSeesEnd,
                 ForwarderTimesOut, ForwarderEnds
  <2> QED
    BY <2>1 DEF ClientTypes, TaskTypes
<1>13. CASE \/ BeginDisconnect \/ PeerSteps
            \/ \E c \in Calls : CallRefused(c) \/ CallResolves(c) \/ CallTimesOut(c)
            \/ \E s \in Streams : Consume(s) \/ CancelStream(s)
  <2>1. UNCHANGED <<wq, writer, reader, pending, active>>
    BY <1>13, PeersOwn DEF CallRefused, CallResolves, CallTimesOut, Consume, CancelStream,
       BeginDisconnect
  <2> QED
    BY <2>1 DEF ClientTypes, TaskTypes
<1> QED
  BY <1>2, <1>3, <1>4, <1>5, <1>6, <1>7, <1>8, <1>9, <1>10, <1>11, <1>12, <1>13
     DEF Next, CallerSteps, Writer, Reader

LEMMA ChannelTypesStep ==
    ASSUME ClientTypes, CallersWait, Next
    PROVE  ChannelTypes'
<1> USE DEF ends
<1>1. FrameCap \in Nat /\ FrameCap >= 1
  BY ClientAssumption
<1>2. ASSUME NEW s \in Streams, SendStream(s) PROVE ChannelTypes'
  <2>1. UNCHANGED <<chan, out, got>> /\ fwd' = [fwd EXCEPT ![s].at = "waiting"]
    BY <1>2 DEF SendStream
  <2>2. fwd[s].at = "none" /\ fwd[s].frame \notin StreamFrames
    BY <1>2 DEF SendStream, CallersWait, ClientTypes, ChannelTypes
  <2> QED
    BY <2>1, <2>2 DEF ClientTypes, ChannelTypes
<1>3. ASSUME NEW s \in Streams, Consume(s) PROVE ChannelTypes'
  <2> PICK f : f = Head(out[s])
    OBVIOUS
  <2> PICK o : o = Tail(out[s])
    OBVIOUS
  <2> PICK g : g = Append(got[s], f)
    OBVIOUS
  <2>1. o \in Seq(StreamFrames) /\ Len(o) <= FrameCap /\ f \in StreamFrames
    BY <1>1, <1>3, Tailed DEF Consume, ClientTypes, ChannelTypes
  <2>2. g \in Seq(StreamFrames)
    BY <2>1, Appended DEF ClientTypes, ChannelTypes
  <2>3. /\ out' = [out EXCEPT ![s] = o] /\ got' = [got EXCEPT ![s] = g]
        /\ UNCHANGED <<chan, fwd>>
    BY <1>3 DEF Consume
  <2> QED
    BY <2>1, <2>2, <2>3 DEF ClientTypes, ChannelTypes
<1>4. ASSUME NEW s \in Streams, CancelStream(s) PROVE ChannelTypes'
  BY <1>1, <1>4, Emptied DEF CancelStream, ClientTypes, ChannelTypes
<1>5. CASE HandFrame
  <2> PICK f : f = reader.frame
    OBVIOUS
  <2> PICK s : s = f.id
    OBVIOUS
  <2> PICK q : q = Append(chan[s], f)
    OBVIOUS
  <2>1. f \in StreamFrames /\ s \in Streams
    BY <1>5, StreamFrameFields DEF HandFrame, ClientTypes, TaskTypes
  <2>2. CASE Len(chan[s]) < FrameCap /\ chan' = [chan EXCEPT ![s] = q] /\ UNCHANGED <<fwd, out, got>>
    <3>1. q \in Seq(StreamFrames) /\ Len(q) <= FrameCap
      BY <1>1, <2>1, <2>2, Appended DEF ClientTypes, ChannelTypes
    <3> QED
      BY <2>1, <2>2, <3>1 DEF ClientTypes, ChannelTypes
  <2>3. CASE UNCHANGED <<chan, fwd, out, got>>
    BY <2>3 DEF ClientTypes, ChannelTypes
  <2> QED
    BY <1>5, <2>2, <2>3 DEF HandFrame
<1>6. ASSUME NEW s \in Streams, ForwarderTakes(s) PROVE ChannelTypes'
  <2> PICK f : f = Head(chan[s])
    OBVIOUS
  <2> PICK q : q = Tail(chan[s])
    OBVIOUS
  <2>1. q \in Seq(StreamFrames) /\ Len(q) <= FrameCap /\ f \in StreamFrames
    BY <1>1, <1>6, Tailed DEF ForwarderTakes, ClientTypes, ChannelTypes
  <2>2. /\ chan' = [chan EXCEPT ![s] = q] /\ fwd' = [fwd EXCEPT ![s] = [at |-> "handing", frame |-> f]]
        /\ UNCHANGED <<out, got>>
    BY <1>6 DEF ForwarderTakes, Hand
  <2> QED
    BY <2>1, <2>2 DEF ClientTypes, ChannelTypes
<1>7. ASSUME NEW s \in Streams, NEW at \in {"waiting", "done"},
             fwd' = [fwd EXCEPT ![s] = [at |-> at, frame |-> NoFrame]]
      PROVE  /\ fwd' \in [Streams -> [at : {"none", "waiting", "handing", "done"},
                                      frame : StreamFrames \union {NoFrame}]]
             /\ \A z \in Streams : fwd'[z].at = "handing" <=> fwd'[z].frame \in StreamFrames
  BY <1>7, StreamFrameFields DEF ClientTypes, ChannelTypes
<1>8. ASSUME NEW s \in Streams, ForwarderHands(s) PROVE ChannelTypes'
  <2> PICK f : f = fwd[s].frame
    OBVIOUS
  <2> PICK q : q = Append(out[s], f)
    OBVIOUS
  <2>1. UNCHANGED <<chan, got>>
    BY <1>8 DEF ForwarderHands
  <2>2. \E at \in {"waiting", "done"} : fwd' = [fwd EXCEPT ![s] = [at |-> at, frame |-> NoFrame]]
    BY <1>8 DEF ForwarderHands, ForwarderEnds
  <2>3. f \in StreamFrames
    BY <1>8 DEF ForwarderHands, ClientTypes, ChannelTypes
  <2>4. CASE out' = out
    BY <1>7, <2>1, <2>2, <2>4 DEF ClientTypes, ChannelTypes
  <2>5. CASE Len(out[s]) < FrameCap /\ out' = [out EXCEPT ![s] = q]
    <3>1. q \in Seq(StreamFrames) /\ Len(q) <= FrameCap
      BY <1>1, <2>3, <2>5, Appended DEF ClientTypes, ChannelTypes
    <3> QED
      BY <1>7, <2>1, <2>2, <2>5, <3>1 DEF ClientTypes, ChannelTypes
  <2> QED
    BY <1>8, <2>4, <2>5 DEF ForwarderHands
<1>9. ASSUME NEW s \in Streams, ForwarderSeesEnd(s) \/ ForwarderTimesOut(s) PROVE ChannelTypes'
  BY <1>7, <1>9 DEF ForwarderSeesEnd, ForwarderTimesOut, ForwarderEnds, ClientTypes, ChannelTypes
<1>10. CASE UNCHANGED <<chan, fwd, out, got>>
  BY <1>10 DEF ClientTypes, ChannelTypes
<1>11. (\E c \in Calls : StartCall(c) \/ CallRefused(c) \/ CallResolves(c) \/ CallTimesOut(c))
         \/ (\E s \in Streams : InsertStream(s) \/ StreamRefused(s))
         => UNCHANGED <<chan, fwd, out, got>>
  BY DEF StartCall, CallRefused, CallResolves, CallTimesOut, InsertStream, StreamRefused
<1>12. BeginDisconnect \/ Disconnecting \/ DropClient \/ Writer => UNCHANGED <<chan, fwd, out, got>>
  BY DEF BeginDisconnect, Disconnecting, DisconnectSends, FinishDisconnect, DropClient,
     Writer, WriterTakes, WriterWrites, WriterCannotEncode, WriterFails, WriterClears, WriterGone
<1>13. ReadFrame \/ ReadEnd \/ ReaderFails \/ ReaderClears => UNCHANGED <<chan, fwd, out, got>>
  BY DEF ReadFrame, ReadEnd, ReaderFails, ReaderClears
<1> QED
  BY <1>2, <1>3, <1>4, <1>5, <1>6, <1>8, <1>9, <1>10, <1>11, <1>12, <1>13, PeersOwn
     DEF Next, CallerSteps, Reader, Forwarder

(* The peer's answer to a call. *)
LEMMA HowThePeerAnswers ==
    ASSUME TaskTypes, SocketTypes, PeerAnswers
    PROVE  \E c \in Calls, f \in Frames :
             /\ peer.hand.id = c /\ f.id = c /\ down' = Append(down, f) /\ up' = up
             /\ f.kind \in {"refused", "fault"} => c \notin peer.ran
             /\ f.kind \in {"reply", "no_reply"} => c \in peer.ran
             /\ f.kind \in Answers \union {"bad"}
             /\ peer' = [peer EXCEPT !.hand = NoCmd]
<1> PICK c : c = peer.hand.id
  OBVIOUS
<1>1. c \in Calls
  BY CommandFields DEF PeerAnswers, SocketTypes
<1>2. PICK kind \in {"bad"} \union (IF c \in peer.ran THEN {"reply", "no_reply", "late"}
                                                   ELSE {"refused", "fault"}) :
        /\ down' = Append(down, Frame(kind, c, 0, FALSE)) /\ up' = up
        /\ peer' = [peer EXCEPT !.hand = NoCmd]
  BY DEF PeerAnswers, PeerSends
<1> PICK f : f = Frame(kind, c, 0, FALSE)
  OBVIOUS
<1>3. f \in Frames /\ f.id = c /\ f.kind = kind /\ kind \in Answers \union {"bad"}
  BY <1>1 DEF Answers, Frame, Frames
<1>4. /\ kind \in {"refused", "fault"} => c \notin peer.ran
      /\ kind \in {"reply", "no_reply"} => c \in peer.ran
  OBVIOUS
<1> QED
  BY <1>1, <1>2, <1>3, <1>4

(* Its next frame on a stream. *)
LEMMA HowThePeerStreams ==
    ASSUME SocketTypes, PeerStreams
    PROVE  \E z \in Streams, k \in Nat, f \in Frames :
             /\ peer.hand.id = z /\ k = peer.sent[z] + 1
             /\ f.id = z /\ Shown(f) \in StreamFrames /\ Shown(f).id = z /\ Shown(f).n = k
             /\ down' = Append(down, f) /\ up' = up
             /\ peer'.hand = NoCmd \/ (~Shown(f).final /\ peer'.hand = peer.hand)
             /\ peer'.sent[z] = k /\ \A y \in Streams : y # z => peer'.sent[y] = peer.sent[y]
             /\ peer' \in [at : {peer.at}, hand : {peer.hand, NoCmd},
                           sent : [Streams -> Nat], ran : {peer.ran}]
<1> PICK z : z = peer.hand.id
  OBVIOUS
<1> PICK k : k = peer.sent[z] + 1
  OBVIOUS
<1>1. z \in Streams /\ k \in Nat /\ 1 \in Nat
  <2>1. peer.hand.kind = "stream" /\ peer.hand \in Commands \union {NoCmd}
    BY DEF PeerStreams, SocketTypes
  <2>2. z \in Streams
    BY <2>1, CommandFields
  <2> QED
    BY <2>2 DEF SocketTypes
<1>2. CASE down' = Append(down, Frame("stream", z, k, FALSE)) /\ up' = up
           /\ peer' = [peer EXCEPT !.sent[z] = k]
  <2> PICK f : f = Frame("stream", z, k, FALSE)
    OBVIOUS
  <2>1. /\ f \in StreamFrames /\ f \in Frames /\ f.id = z /\ f.kind = "stream"
        /\ f.n = k /\ f.final = FALSE
    BY <1>1 DEF Frame, Frames, StreamFrames
  <2>2. Shown(f) = f
    BY <2>1 DEF Shown
  <2>3. /\ peer'.hand = peer.hand
        /\ peer'.sent[z] = k /\ \A y \in Streams : y # z => peer'.sent[y] = peer.sent[y]
        /\ peer' \in [at : {peer.at}, hand : {peer.hand, NoCmd},
                      sent : [Streams -> Nat], ran : {peer.ran}]
    BY <1>1, <1>2 DEF SocketTypes
  <2>4. /\ peer.hand.id = z /\ k = peer.sent[z] + 1
        /\ f.id = z /\ Shown(f) \in StreamFrames /\ Shown(f).id = z /\ Shown(f).n = k
        /\ down' = Append(down, f) /\ up' = up
        /\ peer'.hand = NoCmd \/ (~Shown(f).final /\ peer'.hand = peer.hand)
    BY <1>2, <2>1, <2>2, <2>3
  <2> QED
    BY <1>1, <2>1, <2>3, <2>4
<1>3. ASSUME NEW f \in {Frame("stream", z, k, TRUE)}
                          \union (IF k = 1 THEN {Frame("refused", z, 0, FALSE)} ELSE {}),
             down' = Append(down, f), up' = up,
             peer' = [peer EXCEPT !.sent[z] = k, !.hand = NoCmd]
      PROVE  f \in Frames /\ f.id = z /\ Shown(f) = Frame("stream", z, k, TRUE)
  <2>1. CASE f = Frame("stream", z, k, TRUE)
    BY <1>1, <2>1 DEF Shown, Frame, Frames, StreamFrames
  <2>2. CASE k = 1 /\ f = Frame("refused", z, 0, FALSE)
    BY <1>1, <2>2, RefusalMade DEF Shown, Termination
  <2> QED
    BY <1>3, <2>1, <2>2
<1>4. CASE \E f \in {Frame("stream", z, k, TRUE)}
                      \union (IF k = 1 THEN {Frame("refused", z, 0, FALSE)} ELSE {}) :
             /\ down' = Append(down, f) /\ up' = up
             /\ peer' = [peer EXCEPT !.sent[z] = k, !.hand = NoCmd]
  <2>1. PICK f \in {Frame("stream", z, k, TRUE)}
                      \union (IF k = 1 THEN {Frame("refused", z, 0, FALSE)} ELSE {}) :
             /\ down' = Append(down, f) /\ up' = up
             /\ peer' = [peer EXCEPT !.sent[z] = k, !.hand = NoCmd]
    BY <1>4
  <2> PICK g : g = Frame("stream", z, k, TRUE)
    OBVIOUS
  <2>2. g \in StreamFrames /\ g.id = z /\ g.n = k
    BY <1>1 DEF Frame, Frames, StreamFrames
  <2>3. f \in Frames /\ f.id = z /\ Shown(f) = g
    BY <1>3, <2>1
  <2>4. /\ peer'.hand = NoCmd
        /\ peer'.sent[z] = k /\ \A y \in Streams : y # z => peer'.sent[y] = peer.sent[y]
        /\ peer' \in [at : {peer.at}, hand : {peer.hand, NoCmd},
                      sent : [Streams -> Nat], ran : {peer.ran}]
    BY <1>1, <2>1 DEF SocketTypes
  <2>5. /\ peer.hand.id = z /\ k = peer.sent[z] + 1
        /\ f.id = z /\ Shown(f) \in StreamFrames /\ Shown(f).id = z /\ Shown(f).n = k
        /\ down' = Append(down, f) /\ up' = up
        /\ peer'.hand = NoCmd \/ (~Shown(f).final /\ peer'.hand = peer.hand)
    BY <2>1, <2>2, <2>3, <2>4
  <2> QED
    BY <1>1, <2>3, <2>4, <2>5
<1> QED
  BY <1>2, <1>4 DEF PeerStreams, PeerSends

LEMMA SocketTypesStep ==
    ASSUME ClientTypes, Next
    PROVE  SocketTypes'
<1>1. CASE WriterWrites
  <2> PICK m : m = writer.cmd
    OBVIOUS
  <2>1. m \in Commands
    BY <1>1 DEF WriterWrites, ClientTypes, TaskTypes
  <2>2. up' = up \/ up' = Append(up, m)
    BY <1>1 DEF WriterWrites
  <2>3. up' \in Seq(Commands)
    BY <2>1, <2>2, Appended DEF ClientTypes, SocketTypes
  <2> QED
    BY <1>1, <2>3 DEF WriterWrites, ClientTypes, SocketTypes
<1>2. CASE ReadFrame
  BY <1>2, Tailed DEF ReadFrame, ClientTypes, SocketTypes
<1>3. CASE PeerReads
  <2> PICK m : m = Head(up)
    OBVIOUS
  <2>1. m \in Commands /\ up' \in Seq(Commands)
    BY <1>3, Tailed DEF PeerReads, ClientTypes, SocketTypes
  <2>2. /\ peer' = [peer EXCEPT !.hand = IF m.kind = "envelope" THEN NoCmd ELSE m]
        /\ UNCHANGED down
    BY <1>3 DEF PeerReads
  <2> QED
    BY <2>1, <2>2 DEF ClientTypes, SocketTypes
<1>4. CASE PeerDispatches
  <2>1. peer.hand.id \in Calls
    BY <1>4, CommandFields DEF PeerDispatches, ClientTypes, SocketTypes
  <2> QED
    BY <1>4, <2>1 DEF PeerDispatches, ClientTypes, SocketTypes
<1>5. CASE PeerCloses
  BY <1>5, Emptied DEF PeerCloses, ClientTypes, SocketTypes
<1>6. ASSUME NEW f \in Frames, down' = Append(down, f) PROVE down' \in Seq(Frames)
  BY <1>6, Appended DEF ClientTypes, SocketTypes
<1>7. CASE PeerAnswers
  <2>1. PICK f \in Frames :
          down' = Append(down, f) /\ up' = up /\ peer' = [peer EXCEPT !.hand = NoCmd]
    BY <1>7, HowThePeerAnswers DEF ClientTypes
  <2> QED
    BY <1>6, <2>1 DEF ClientTypes, SocketTypes
<1>8. CASE PeerStreams
  <2>1. PICK z \in Streams, k \in Nat, f \in Frames :
          /\ down' = Append(down, f) /\ up' = up
          /\ peer' \in [at : {peer.at}, hand : {peer.hand, NoCmd},
                        sent : [Streams -> Nat], ran : {peer.ran}]
    BY <1>8, HowThePeerStreams DEF ClientTypes
  <2> QED
    BY <1>6, <2>1 DEF ClientTypes, SocketTypes
<1>9. CASE PeerPushes
  <2>1. PICK f \in Frames : down' = Append(down, f) /\ up' = up /\ peer' = peer
    BY <1>9, HowThePeerPushes
  <2> QED
    BY <1>6, <2>1 DEF ClientTypes, SocketTypes
<1>10. CASE PeerRefuses
  <2>1. PICK why \in {"limit", "denied"} :
          /\ down' = Append(down, Frame(why, "none", 0, FALSE))
          /\ up' = up /\ peer' = [peer EXCEPT !.at = "refused"]
    BY <1>10 DEF PeerRefuses, PeerSends
  <2> PICK f : f = Frame(why, "none", 0, FALSE)
    OBVIOUS
  <2>2. f \in Frames /\ down' = Append(down, f)
    BY <2>1, NoticeMade
  <2> QED
    BY <1>6, <2>1, <2>2 DEF ClientTypes, SocketTypes
<1>11. CASE UNCHANGED <<up, down, peer>>
  BY <1>11 DEF ClientTypes, SocketTypes
<1>12. CallerSteps \/ BeginDisconnect \/ Disconnecting \/ DropClient => UNCHANGED <<up, down, peer>>
  BY DEF CallerSteps, StartCall, CallRefused, CallResolves, CallTimesOut, InsertStream, SendStream,
     StreamRefused, Consume, CancelStream, BeginDisconnect, Disconnecting, DisconnectSends,
     FinishDisconnect, DropClient
<1>13. \/ WriterTakes \/ WriterCannotEncode \/ WriterFails \/ WriterClears \/ WriterGone
       \/ ReadEnd \/ HandFrame \/ ReaderFails \/ ReaderClears
       => UNCHANGED <<up, down, peer>>
  BY DEF WriterTakes, WriterCannotEncode, WriterFails, WriterClears, WriterGone,
     ReadEnd, HandFrame, ReaderFails, ReaderClears
<1>14. (\E s \in Streams : Forwarder(s)) => UNCHANGED <<up, down, peer>>
  BY DEF Forwarder, ForwarderTakes, ForwarderHands, ForwarderSeesEnd, ForwarderTimesOut
<1> QED
  BY <1>1, <1>2, <1>3, <1>4, <1>5, <1>7, <1>8, <1>9, <1>10, <1>11, <1>12, <1>13, <1>14
     DEF Next, Writer, Reader, PeerSteps, PeerServes

LEMMA TypesStep ==
    ASSUME ClientTypes, CallersWait, [Next]_vars
    PROVE  ClientTypes'
<1>1. CASE Next
  BY <1>1, CallTypesStep, TaskTypesStep, ChannelTypesStep, SocketTypesStep DEF ClientTypes
<1>2. CASE UNCHANGED vars
  BY <1>2 DEF vars, queues, ends, ClientTypes, CallTypes, TaskTypes, ChannelTypes, SocketTypes
<1> QED
  BY <1>1, <1>2

-----------------------------------------------------------------------------
(* What happens to a call.                                                 *)

(* It is told something. *)
Hears(c) ==
    /\ call'[c] = call[c] /\ slot[c] = "open"
    /\ \/ slot'[c] \in {"io", "dropped", ConnectionError}
       \/ slot'[c] = "unencodable" /\ WriterCannotEncode /\ writer.cmd.id = c
       \/ /\ ReadFrame /\ Head(down).id = c /\ Head(down).kind \in Answers
          /\ slot'[c] = Head(down).kind

(* It begins, fails to begin, ends by what it was told or by its deadline. *)
Begins(c) ==
    /\ call[c] = "idle" /\ call'[c] = "waiting" /\ slot'[c] = "open"
    /\ StartCall(c)

Ends(c) ==
    \/ call[c] = "idle" /\ call'[c] = ConnectionError /\ slot'[c] = slot[c]
    \/ /\ call[c] = "waiting" /\ slot[c] # "open" /\ slot'[c] = slot[c]
       /\ call'[c] = IF slot[c] = "dropped" THEN ConnectionError ELSE slot[c]
    \/ call[c] = "waiting" /\ call'[c] = "timeout" /\ slot'[c] = "abandoned"

LEMMA CallSteps ==
    ASSUME ClientTypes, [Next]_vars, NEW c \in Calls
    PROVE  \/ Begins(c) \/ Ends(c) \/ Hears(c)
           \/ call'[c] = call[c] /\ slot'[c] = slot[c]
<1> USE DEF ClientTypes
<1>1. ASSUME NEW d \in Calls, StartCall(d)
      PROVE  Begins(c) \/ (call'[c] = call[c] /\ slot'[c] = slot[c])
  BY <1>1 DEF StartCall, Begins, CallTypes
<1>2. ASSUME NEW d \in Calls, CallRefused(d) \/ CallResolves(d) \/ CallTimesOut(d)
      PROVE  Ends(c) \/ (call'[c] = call[c] /\ slot'[c] = slot[c])
  BY <1>2 DEF CallRefused, CallResolves, CallTimesOut, Ends, CallTypes
<1>3. ASSUME NEW set, NEW why, slot' = Told(set, why)
      PROVE  slot'[c] = slot[c] \/ (slot[c] = "open" /\ c \in set /\ slot'[c] = why)
  BY <1>3 DEF Told
<1>4. CASE WriterWrites
  <2>1. call' = call /\ (slot' = slot \/ slot' = Told(pending \intersect {writer.cmd.id}, "io"))
    BY <1>4 DEF WriterWrites, Undone
  <2> QED
    BY <1>3, <2>1 DEF Hears
<1>5. CASE WriterCannotEncode
  <2>1. call' = call /\ slot' = Told(pending \intersect {writer.cmd.id}, "unencodable")
    BY <1>5 DEF WriterCannotEncode, Undone
  <2> QED
    BY <1>3, <1>5, <2>1 DEF Hears
<1>6. CASE WriterFails \/ ReaderFails
  <2>1. call' = call /\ slot' = Told(pending, ConnectionError)
    BY <1>6 DEF WriterFails, ReaderFails, FailPending
  <2> QED
    BY <1>3, <2>1 DEF Hears
<1>7. CASE WriterGone
  <2>1. call' = call /\ slot' = Told({wq[i].id : i \in 1..Len(wq)}, "dropped")
    BY <1>7 DEF WriterGone
  <2> QED
    BY <1>3, <2>1 DEF Hears
<1>8. CASE ReadFrame
  <2> PICK f : f = Head(down)
    OBVIOUS
  <2>1. call' = call
        /\ (slot' = slot \/ (f.kind \in Answers /\ slot' = Told({f.id}, f.kind)))
    BY <1>8 DEF ReadFrame, ResponseFrame, StreamFrame, PushFrame, BadFrame
  <2> QED
    BY <1>3, <1>8, <2>1 DEF Hears
<1>9. CASE UNCHANGED <<call, slot>>
  BY <1>9
<1>10. ASSUME NEW s \in Streams,
              \/ InsertStream(s) \/ SendStream(s) \/ StreamRefused(s) \/ Consume(s) \/ CancelStream(s)
              \/ Forwarder(s)
       PROVE  UNCHANGED <<call, slot>>
  BY <1>10 DEF InsertStream, SendStream, StreamRefused, Consume, CancelStream, Forwarder,
     ForwarderTakes, ForwarderHands, ForwarderSeesEnd, ForwarderTimesOut
<1>11. CASE \/ BeginDisconnect \/ Disconnecting \/ DropClient \/ WriterTakes \/ WriterClears
            \/ ReadEnd \/ HandFrame \/ ReaderClears
  BY <1>11 DEF BeginDisconnect, Disconnecting, DisconnectSends, FinishDisconnect, DropClient,
     WriterTakes, WriterClears, ReadEnd, HandFrame, ReaderClears
<1>12. CASE UNCHANGED vars
  BY <1>12 DEF vars
<1> QED
  BY <1>1, <1>2, <1>4, <1>5, <1>6, <1>7, <1>8, <1>9, <1>10, <1>11, <1>12, PeersOwn
     DEF Next, CallerSteps, Writer, Reader

LEMMA CallersWaitStep ==
    ASSUME ClientTypes, CallersWait, [Next]_vars
    PROVE  CallersWait'
<1>1. ASSUME NEW c \in Calls
      PROVE  /\ call'[c] = "idle" => slot'[c] = "none"
             /\ call'[c] = "waiting" => slot'[c] \notin {"none", "abandoned"}
             /\ slot'[c] = "open" => call'[c] = "waiting"
  <2>1. ConnectionError \in {"closed", "limit", "denied"}
    BY DEF ConnectionError, ClientTypes, CallTypes
  <2>2. /\ call[c] = "idle" => slot[c] = "none"
        /\ call[c] = "waiting" => slot[c] \notin {"none", "abandoned"}
        /\ slot[c] = "open" => call[c] = "waiting"
        /\ slot[c] \in {"none", "open", "dropped", "abandoned"} \union Outcomes
    BY DEF CallersWait, ClientTypes, CallTypes
  <2>3. CASE Begins(c)
    BY <2>3 DEF Begins
  <2>4. CASE Ends(c)
    BY <2>1, <2>2, <2>4 DEF Ends, Outcomes, Answers
  <2>5. CASE Hears(c)
    BY <2>1, <2>2, <2>5 DEF Hears, Answers
  <2>6. CASE call'[c] = call[c] /\ slot'[c] = slot[c]
    BY <2>2, <2>6
  <2> QED
    BY <2>3, <2>4, <2>5, <2>6, CallSteps
<1>2. ASSUME NEW s \in Streams, strm'[s] # "open" PROVE fwd'[s].at = "none"
  <2>1. strm[s] # "open" => fwd[s].at = "none"
    BY DEF CallersWait
  <2>2. CASE UNCHANGED <<strm, fwd>>
    BY <1>2, <2>1, <2>2
  <2>3. ASSUME NEW z \in Streams, InsertStream(z) \/ StreamRefused(z) PROVE fwd'[s].at = "none"
    BY <1>2, <2>1, <2>3 DEF InsertStream, StreamRefused, ends, ClientTypes, CallTypes
  <2>4. ASSUME NEW z \in Streams, SendStream(z) PROVE fwd'[s].at = "none"
    BY <1>2, <2>1, <2>4 DEF SendStream, ClientTypes, CallTypes, ChannelTypes
  <2>5. ASSUME NEW z \in Streams, Forwarder(z) PROVE fwd'[s].at = "none"
    <3>1. fwd[z].at # "none" /\ strm' = strm /\ \A y \in Streams : y # z => fwd'[y] = fwd[y]
      BY <2>5 DEF Forwarder, ForwarderTakes, ForwarderHands, ForwarderSeesEnd, ForwarderTimesOut,
                  ForwarderEnds, ClientTypes, ChannelTypes
    <3> QED
      BY <1>2, <2>1, <3>1
  <2>6. ASSUME NEW c \in Calls, StartCall(c) \/ CallRefused(c) \/ CallResolves(c) \/ CallTimesOut(c)
        PROVE  UNCHANGED <<strm, fwd>>
    BY <2>6 DEF StartCall, CallRefused, CallResolves, CallTimesOut, ends
  <2>7. ASSUME NEW z \in Streams, Consume(z) \/ CancelStream(z)
        PROVE  UNCHANGED <<strm, fwd>>
    BY <2>7 DEF Consume, CancelStream
  <2>8. \/ BeginDisconnect \/ Disconnecting \/ DropClient \/ Writer \/ Reader \/ PeerSteps
        \/ UNCHANGED vars
        => UNCHANGED <<strm, fwd>>
    BY PeersOwn DEF BeginDisconnect, Disconnecting, DisconnectSends, FinishDisconnect, DropClient,
       Writer, WriterTakes, WriterWrites, WriterCannotEncode, WriterFails, WriterClears, WriterGone,
       Reader, ReadFrame, ReadEnd, HandFrame, ReaderFails, ReaderClears, vars, ends
  <2> QED
    BY <2>2, <2>3, <2>4, <2>5, <2>6, <2>7, <2>8 DEF Next, CallerSteps
<1> QED
  BY <1>1, <1>2 DEF CallersWait

-----------------------------------------------------------------------------
(* What happens to a request.                                              *)

(* A request is sent once. *)
LEMMA SentStaysSent ==
    ASSUME ClientTypes, [Next]_vars, NEW x \in Ids
    PROVE  /\ Unsent(x)' => Unsent(x)
           /\ \A c \in Calls : StartCall(c) => Unsent(c) /\ ~Unsent(c)'
           /\ \A s \in Streams : SendStream(s) => Unsent(s) /\ ~Unsent(s)'
<1>1. ASSUME x \in Calls PROVE Unsent(x)' => Unsent(x)
  <2>1. call'[x] = "idle" => call[x] = "idle"
    <3>1. ConnectionError # "idle" /\ slot[x] # "idle"
      BY <1>1 DEF ConnectionError, ClientTypes, CallTypes, Outcomes, Answers
    <3> QED
      BY <1>1, <3>1, CallSteps DEF Begins, Ends, Hears
  <2> QED
    BY <1>1, <2>1 DEF Unsent
<1>2. ASSUME x \notin Calls PROVE Unsent(x)' => Unsent(x)
  <2>0. x \in Streams
    BY <1>2 DEF Ids
  <2>2. ASSUME NEW s \in Streams, InsertStream(s) \/ SendStream(s) \/ StreamRefused(s)
        PROVE  strm[x] = "open" => strm'[x] = "open"
    BY <2>0, <2>2 DEF InsertStream, SendStream, StreamRefused, ClientTypes, CallTypes
  <2>3. ASSUME NEW c \in Calls, StartCall(c) \/ CallRefused(c) \/ CallResolves(c) \/ CallTimesOut(c)
        PROVE  strm' = strm
    BY <2>3 DEF StartCall, CallRefused, CallResolves, CallTimesOut
  <2>4. ASSUME NEW z \in Streams, Consume(z) \/ CancelStream(z) \/ Forwarder(z)
        PROVE  strm' = strm
    BY <2>4 DEF Consume, CancelStream, Forwarder, ForwarderTakes, ForwarderHands,
                ForwarderSeesEnd, ForwarderTimesOut
  <2>5. \/ BeginDisconnect \/ Disconnecting \/ DropClient \/ Writer \/ Reader \/ PeerSteps
        \/ UNCHANGED vars
        => strm' = strm
    BY PeersOwn DEF BeginDisconnect, Disconnecting, DisconnectSends, FinishDisconnect, DropClient,
       Writer, WriterTakes, WriterWrites, WriterCannotEncode, WriterFails, WriterClears, WriterGone,
       Reader, ReadFrame, ReadEnd, HandFrame, ReaderFails, ReaderClears, vars
  <2>6. strm[x] = "open" => strm'[x] = "open"
    BY <2>2, <2>3, <2>4, <2>5 DEF Next, CallerSteps
  <2> QED
    BY <1>2, <2>6 DEF Unsent
<1>3. \A c \in Calls : StartCall(c) => Unsent(c) /\ ~Unsent(c)'
  BY DEF StartCall, Unsent, ClientTypes, CallTypes
<1>4. \A s \in Streams : SendStream(s) => Unsent(s) /\ ~Unsent(s)'
  BY CommandsMade DEF SendStream, Unsent, ClientTypes, CallTypes
<1> QED
  BY <1>1, <1>2, <1>3, <1>4

(* On its way, a request is in one place, and what left the way is off it. *)
Onward(x) ==
    /\ TravelsOnce(x)' /\ (Early(x)' => Early(x))
    /\ ~Unsent(x) /\ ~Travels(x) => ~Travels(x)'

LEMMA TravelSteps ==
    ASSUME ClientTypes, RequestsTravelOnce, [Next]_vars, NEW x \in Ids
    PROVE  Onward(x)
<1> USE DEF Onward
<1>1. TravelsOnce(x) /\ x # "none"
  BY CommandsMade DEF RequestsTravelOnce
<1>2. Unsent(x)' => Unsent(x)
  BY SentStaysSent
<1>3. CASE UNCHANGED <<wq, writer, up, peer>>
  BY <1>1, <1>2, <1>3 DEF TravelsOnce, Travels, Early
<1>4. ASSUME NEW m \in Commands, wq' = Append(wq, m), UNCHANGED <<writer, up, peer>>,
             m.id = x => Unsent(x) /\ ~Unsent(x)'
      PROVE  Onward(x)
  <2>1. /\ Holds(wq', x) <=> Holds(wq, x) \/ m.id = x
        /\ Once(wq, x) /\ (m.id = x => ~Holds(wq, x)) => Once(wq', x)
    BY <1>4, AppendedHolds DEF ClientTypes, TaskTypes
  <2> QED
    BY <1>1, <1>2, <1>4, <2>1 DEF TravelsOnce, Travels, Early
<1>5. ASSUME NEW c \in Calls, StartCall(c) PROVE Onward(x)
  <2>1. Cmd("call", c) \in Commands /\ Cmd("call", c).id = c
    BY CommandsMade
  <2>2. wq' = Append(wq, Cmd("call", c)) /\ UNCHANGED <<writer, up, peer>>
    BY <1>5 DEF StartCall
  <2>3. Unsent(c) /\ ~Unsent(c)'
    BY <1>5, SentStaysSent
  <2>4. c = x => Unsent(x) /\ ~Unsent(x)'
    BY <2>3
  <2> QED
    BY <1>4, <2>1, <2>2, <2>4
<1>6. ASSUME NEW s \in Streams, SendStream(s) PROVE Onward(x)
  <2>1. Cmd("stream", s) \in Commands /\ Cmd("stream", s).id = s
    BY CommandsMade
  <2>2. wq' = Append(wq, Cmd("stream", s)) /\ UNCHANGED <<writer, up, peer>>
    BY <1>6 DEF SendStream
  <2>3. Unsent(s) /\ ~Unsent(s)'
    BY <1>6, SentStaysSent
  <2>4. s = x => Unsent(x) /\ ~Unsent(x)'
    BY <2>3
  <2> QED
    BY <1>4, <2>1, <2>2, <2>4
<1>7. ASSUME NEW from, NEW kind \in {"envelope", "shutdown"}, NEW to, DisconnectSends(from, kind,
             to)
      PROVE  Onward(x)
  <2>1. Cmd(kind, "none") \in Commands /\ Cmd(kind, "none").id = "none"
    BY CommandsMade
  <2>2. UNCHANGED <<writer, up, peer>> /\ (wq' = wq \/ wq' = Append(wq, Cmd(kind, "none")))
    BY <1>7 DEF DisconnectSends
  <2> QED
    BY <1>1, <1>3, <1>4, <2>1, <2>2
<1>8. CASE DropClient
  <2>1. wq' = <<>> /\ writer'.cmd.id = "none" /\ UNCHANGED <<up, peer>>
    BY <1>8, CommandsMade DEF DropClient
  <2>2. ~Holds(wq', x) /\ Once(wq', x)
    BY <2>1, EmptiedHolds
  <2> QED
    BY <1>1, <1>2, <2>1, <2>2 DEF TravelsOnce, Travels, Early
<1>9. CASE WriterTakes
  <2>1. wq # <<>> /\ wq' = Tail(wq) /\ writer'.cmd = Head(wq) /\ UNCHANGED <<up, peer>>
    BY <1>9 DEF WriterTakes
  <2>2. /\ Holds(wq, x) <=> Holds(wq', x) \/ Head(wq).id = x
        /\ Once(wq, x) => Once(wq', x) /\ (Head(wq).id = x => ~Holds(wq', x))
    BY <2>1, TailedHolds DEF ClientTypes, TaskTypes
  <2> QED
    BY <1>1, <1>2, <2>1, <2>2 DEF TravelsOnce, Travels, Early
<1>10. CASE WriterWrites
  <2>1. UNCHANGED <<wq, peer>> /\ writer'.cmd.id = "none"
    BY <1>10, CommandsMade DEF WriterWrites
  <2>2. CASE up' = up
    BY <1>1, <1>2, <2>1, <2>2 DEF TravelsOnce, Travels, Early
  <2>3. CASE up' = Append(up, writer.cmd)
    <3>1. ASSUME NEW m \in Commands, up' = Append(up, m)
          PROVE  /\ Holds(up', x) <=> Holds(up, x) \/ m.id = x
                 /\ Once(up, x) /\ (m.id = x => ~Holds(up, x)) => Once(up', x)
      BY <3>1, AppendedHolds DEF ClientTypes, SocketTypes
    <3>2. /\ Holds(up', x) <=> Holds(up, x) \/ writer.cmd.id = x
          /\ Once(up, x) /\ (writer.cmd.id = x => ~Holds(up, x)) => Once(up', x)
      BY <1>10, <2>3, <3>1 DEF WriterWrites, ClientTypes, TaskTypes
    <3> QED
      BY <1>1, <1>2, <2>1, <3>2 DEF TravelsOnce, Travels, Early
  <2> QED
    BY <1>10, <2>2, <2>3 DEF WriterWrites
<1>11. CASE WriterCannotEncode \/ WriterFails \/ WriterClears
  <2>1. UNCHANGED <<wq, up, peer>> /\ (writer'.cmd = writer.cmd \/ writer'.cmd.id = "none")
    BY <1>11, CommandsMade DEF WriterCannotEncode, WriterFails, WriterClears, ClientTypes, TaskTypes
  <2> QED
    BY <1>1, <1>2, <2>1 DEF TravelsOnce, Travels, Early
<1>12. CASE WriterGone
  <2>1. wq' = <<>> /\ writer'.cmd = writer.cmd /\ UNCHANGED <<up, peer>>
    BY <1>12 DEF WriterGone, ClientTypes, TaskTypes
  <2>2. ~Holds(wq', x) /\ Once(wq', x)
    BY <2>1, EmptiedHolds
  <2> QED
    BY <1>1, <1>2, <2>1, <2>2 DEF TravelsOnce, Travels, Early
<1>13. CASE PeerReads
  <2>1. /\ up # <<>> /\ up' = Tail(up) /\ UNCHANGED <<wq, writer>>
        /\ peer'.hand = IF Head(up).kind = "envelope" THEN NoCmd ELSE Head(up)
        /\ peer.hand.id = "none"
    BY <1>13, PeersOwn, CommandsMade DEF PeerReads, PeerSteps, PeerServes, ClientTypes, SocketTypes
  <2>2. /\ Holds(up, x) <=> Holds(up', x) \/ Head(up).id = x
        /\ Once(up, x) => Once(up', x) /\ (Head(up).id = x => ~Holds(up', x))
    BY <2>1, TailedHolds DEF ClientTypes, SocketTypes
  <2>3. peer'.hand.id = x => Head(up).id = x
    BY <1>1, <2>1, CommandsMade
  <2> QED
    BY <1>1, <1>2, <2>1, <2>2, <2>3 DEF TravelsOnce, Travels, Early
<1>14. CASE UNCHANGED <<wq, writer>> /\ (up' = up \/ up' = <<>>)
            /\ (peer'.hand = peer.hand \/ peer'.hand = NoCmd)
  <2>1. ~Holds(<<>>, x) /\ Once(<<>>, x) /\ NoCmd.id = "none"
    BY EmptiedHolds, CommandsMade
  <2>2. CASE up' = up
    BY <1>1, <1>2, <1>14, <2>1, <2>2 DEF TravelsOnce, Travels, Early
  <2>3. CASE up' = <<>>
    BY <1>1, <1>2, <1>14, <2>1, <2>3 DEF TravelsOnce, Travels, Early
  <2> QED
    BY <1>14, <2>2, <2>3
<1>15. CASE PeerDispatches \/ PeerAnswers \/ PeerStreams \/ PeerPushes \/ PeerRefuses \/ PeerCloses
  <2>1. UNCHANGED <<wq, writer>>
    BY <1>15, PeersOwn DEF PeerSteps, PeerServes
  <2>2. CASE PeerDispatches \/ PeerCloses
    BY <1>14, <2>1, <2>2 DEF PeerDispatches, PeerCloses, ClientTypes, SocketTypes
  <2>3. CASE PeerAnswers
    <3>1. up' = up /\ peer' = [peer EXCEPT !.hand = NoCmd]
      BY <2>3, HowThePeerAnswers DEF ClientTypes
    <3> QED
      BY <1>14, <2>1, <3>1 DEF ClientTypes, SocketTypes
  <2>4. CASE PeerStreams
    BY <1>14, <2>1, <2>4, HowThePeerStreams DEF ClientTypes
  <2>5. CASE PeerPushes \/ PeerRefuses
    BY <1>14, <2>1, <2>5 DEF PeerPushes, PeerRefuses, PeerSends, ClientTypes, SocketTypes
  <2> QED
    BY <1>15, <2>2, <2>3, <2>4, <2>5
<1>16. ASSUME NEW c \in Calls, CallRefused(c) \/ CallResolves(c) \/ CallTimesOut(c) PROVE Onward(x)
  BY <1>3, <1>16 DEF CallRefused, CallResolves, CallTimesOut, queues
<1>17. ASSUME NEW s \in Streams,
              InsertStream(s) \/ StreamRefused(s) \/ Consume(s) \/ CancelStream(s) \/ Forwarder(s)
       PROVE  Onward(x)
  BY <1>3, <1>17 DEF InsertStream, StreamRefused, Consume, CancelStream, Forwarder,
     ForwarderTakes, ForwarderHands, ForwarderSeesEnd, ForwarderTimesOut, queues
<1>18. CASE BeginDisconnect \/ FinishDisconnect \/ Reader \/ UNCHANGED vars
  BY <1>3, <1>18 DEF BeginDisconnect, FinishDisconnect, Reader, ReadFrame, ReadEnd, HandFrame,
     ReaderFails, ReaderClears, vars, queues
<1> QED
  BY <1>5, <1>6, <1>7, <1>8, <1>9, <1>10, <1>11, <1>12, <1>13, <1>15, <1>16, <1>17, <1>18
     DEF Next, CallerSteps, Disconnecting, Writer, PeerSteps, PeerServes

-----------------------------------------------------------------------------
(* Nobody is forgotten.                                                    *)

LEMMA OpenCallsStep ==
    ASSUME ClientTypes, CallersWait, OpenCallsAreKept, [Next]_vars
    PROVE  OpenCallsAreKept'
<1> DEFINE Kept(c) == /\ c \in pending \/ Holds(wq, c)
                      /\ writer.at # "gone"
                      /\ writer.at \in {"clearing", "leaving"} => Holds(wq, c)
<1> SUFFICES ASSUME NEW c \in Calls, slot'[c] = "open" PROVE Kept(c)'
  BY DEF OpenCallsAreKept
<1>1. CASE Begins(c)
  <2> PICK m : m = Cmd("call", c)
    OBVIOUS
  <2>1. m \in Commands /\ m.id = c
    BY CommandsMade
  <2>2. wq' = Append(wq, m) /\ UNCHANGED <<writer, pending>> /\ writer.at # "gone"
    BY <1>1 DEF Begins, StartCall, ReceiverGone
  <2>3. Holds(wq', c)
    BY <2>1, <2>2, AppendedHolds DEF ClientTypes, TaskTypes
  <2> QED
    BY <2>2, <2>3
<1>2. CASE slot[c] = "open" /\ ~Begins(c)
  <2>1. Kept(c)
    BY <1>2 DEF OpenCallsAreKept
  <2> HIDE DEF Kept
  <2>2. ASSUME Holds(wq, c) => Holds(wq', c), UNCHANGED <<writer, pending>> PROVE Kept(c)'
    BY <2>1, <2>2 DEF Kept
  <2>3. ASSUME NEW m \in Commands, wq' = Append(wq, m), UNCHANGED <<writer, pending>> PROVE Kept(c)'
    <3>1. Holds(wq, c) => Holds(wq', c)
      BY <2>3, AppendedHolds DEF ClientTypes, TaskTypes
    <3> QED
      BY <2>2, <2>3, <3>1
  <2>4. ASSUME NEW d \in Calls, StartCall(d) PROVE Kept(c)'
    BY <2>3, <2>4, CommandsMade DEF StartCall
  <2>5. ASSUME NEW s \in Streams, SendStream(s) PROVE Kept(c)'
    BY <2>3, <2>5, CommandsMade DEF SendStream
  <2>6. ASSUME NEW from, NEW kind \in {"envelope", "shutdown"}, NEW to,
               DisconnectSends(from, kind, to)
        PROVE  Kept(c)'
    BY <2>2, <2>3, <2>6, CommandsMade DEF DisconnectSends
  <2>7. CASE DropClient
    BY <1>2, <2>7 DEF DropClient, CallersWait
  <2>8. ASSUME NEW set, NEW why \in Outcomes \union {"dropped"}, slot' = Told(set,
               why) PROVE c \notin set
    BY <1>2, <2>8 DEF Told, Outcomes, Answers
  <2>9. CASE WriterTakes
    <3> PICK m : m = Head(wq)
      OBVIOUS
    <3>0. wq \in Seq(Commands) /\ wq # <<>> /\ wq' = Tail(wq)
      BY <2>9 DEF WriterTakes, ClientTypes, TaskTypes
    <3>1. Head(wq) \in Commands
      BY <3>0, Tailed
    <3>4. Holds(wq, c) => Holds(wq', c) \/ Head(wq).id = c
      BY <3>0, TailedHolds
    <3>2. m.id = c => m.kind = "call"
      BY <3>1, CommandFields
    <3>3. /\ writer'.at \in {"exiting", "writing"}
          /\ pending' = IF m.kind = "call" THEN pending \union {m.id} ELSE pending
      BY <2>9 DEF WriterTakes
    <3> QED
      BY <2>1, <3>2, <3>3, <3>4 DEF Kept
  <2>10. ASSUME Undone("io") \/ Undone("unencodable"), wq' = wq,
                writer.at = "writing", writer'.at \in {"idle", "exiting"}
         PROVE  Kept(c)'
    <3>1. pending' = pending \ {writer.cmd.id} /\ c \notin pending \intersect {writer.cmd.id}
      BY <2>8, <2>10 DEF Undone, Outcomes
    <3> QED
      BY <2>1, <2>10, <3>1 DEF Kept
  <2>11. CASE WriterWrites \/ WriterCannotEncode
    <3>1. CASE Undone("io") \/ Undone("unencodable")
      BY <2>10, <2>11, <3>1 DEF WriterWrites, WriterCannotEncode
    <3>2. CASE UNCHANGED pending /\ wq' = wq /\ writer'.at = "idle"
      BY <2>1, <3>2 DEF Kept
    <3> QED
      BY <2>11, <3>1, <3>2 DEF WriterWrites, WriterCannotEncode
  <2>12. CASE WriterFails \/ ReaderFails
    <3>1. ConnectionError \in Outcomes
      BY DEF ConnectionError, ClientTypes, CallTypes, Outcomes
    <3>2. c \notin pending /\ wq' = wq
      BY <2>8, <2>12, <3>1 DEF WriterFails, ReaderFails, FailPending
    <3>3. writer'.at \in {writer.at, "clearing"}
      BY <2>12 DEF WriterFails, ReaderFails
    <3> QED
      BY <2>1, <3>2, <3>3 DEF Kept
  <2>13. CASE WriterClears
    BY <2>1, <2>13 DEF WriterClears, Kept, ClientTypes, TaskTypes
  <2>14. CASE WriterGone
    <3>1. Holds(wq, c)
      BY <2>1, <2>14 DEF WriterGone, Kept
    <3>2. c \in {wq[i].id : i \in 1..Len(wq)}
      BY <3>1 DEF Holds
    <3> QED
      BY <2>8, <2>14, <3>2 DEF WriterGone
  <2>15. CASE ReadFrame
    <3> PICK f : f = Head(down)
      OBVIOUS
    <3>1. UNCHANGED <<wq, writer>>
      BY <2>15 DEF ReadFrame
    <3>2. CASE pending' = pending
      BY <2>2, <3>1, <3>2
    <3>3. CASE f.kind \in Answers /\ slot' = Told({f.id}, f.kind) /\ pending' = pending \ {f.id}
      <4>1. c # f.id
        BY <2>8, <3>3 DEF Outcomes
      <4> QED
        BY <2>1, <3>1, <3>3, <4>1 DEF Kept
    <3> QED
      BY <2>15, <3>2, <3>3 DEF ReadFrame, ResponseFrame, StreamFrame, PushFrame, BadFrame
  <2>16. CASE UNCHANGED <<wq, writer, pending>>
    BY <2>2, <2>16
  <2>17. ASSUME NEW d \in Calls, CallRefused(d) \/ CallResolves(d) \/ CallTimesOut(d)
         PROVE  UNCHANGED <<wq, writer, pending>>
    BY <2>17 DEF CallRefused, CallResolves, CallTimesOut, queues
  <2>18. ASSUME NEW s \in Streams,
                InsertStream(s) \/ StreamRefused(s) \/ Consume(s) \/ CancelStream(s) \/ Forwarder(s)
         PROVE  UNCHANGED <<wq, writer, pending>>
    BY <2>18 DEF InsertStream, StreamRefused, Consume, CancelStream, Forwarder,
       ForwarderTakes, ForwarderHands, ForwarderSeesEnd, ForwarderTimesOut, queues
  <2>19. \/ BeginDisconnect \/ FinishDisconnect \/ ReadEnd \/ HandFrame \/ ReaderClears
         \/ PeerSteps \/ UNCHANGED vars
         => UNCHANGED <<wq, writer, pending>>
    BY PeersOwn DEF BeginDisconnect, FinishDisconnect, ReadEnd, HandFrame, ReaderClears, vars,
       queues
  <2> QED
    BY <2>4, <2>5, <2>6, <2>7, <2>9, <2>11, <2>12, <2>13, <2>14, <2>15, <2>16, <2>17, <2>18, <2>19
       DEF Next, CallerSteps, Disconnecting, Writer, Reader
<1>3. Begins(c) \/ slot[c] = "open"
  <2>1. call[c] = "idle" => slot[c] = "none"
    BY DEF CallersWait
  <2> QED
    BY <2>1, CallSteps DEF Ends, Hears
<1> QED
  BY <1>1, <1>2, <1>3

-----------------------------------------------------------------------------
(* What callers are told.                                                  *)

(* What the peer ran, and what the connection was refused for, stays; the  *)
(* peer only runs what it has in hand.                                     *)
LEMMA WhatWasDoneStays ==
    ASSUME ClientTypes, [Next]_vars
    PROVE  /\ ReadFrame \/ rejection' = rejection
           /\ PeerSteps \/ peer' = peer
           /\ rejection # "none" => rejection' = rejection
           /\ peer'.ran = peer.ran
              \/ (PeerDispatches /\ peer'.ran = peer.ran \union {peer.hand.id})
           /\ down' = down
              \/ (ReadFrame /\ down # <<>> /\ down' = Tail(down) /\ peer' = peer)
              \/ (PeerSteps /\ rejection' = rejection /\ peer'.ran = peer.ran
                   /\ \E f \in Frames : down' = Append(down, f))
<1>1. CASE UNCHANGED <<rejection, peer, down>>
  BY <1>1
<1>2. CASE PeerSteps
  <2>1. rejection' = rejection
    BY <1>2, PeersOwn
  <2>2. CASE PeerReads \/ PeerDispatches \/ PeerCloses
    <3>1. down' = down /\ peer'.ran \in {peer.ran, IF PeerDispatches THEN peer.ran \union {peer.hand.id}
                                                               ELSE peer.ran}
      BY <2>2 DEF PeerReads, PeerDispatches, PeerCloses, ClientTypes, SocketTypes
    <3> QED
      BY <1>2, <2>1, <3>1
  <2>3. CASE PeerAnswers
    <3>1. PICK f \in Frames : down' = Append(down, f) /\ peer' = [peer EXCEPT !.hand = NoCmd]
      BY <2>3, HowThePeerAnswers DEF ClientTypes
    <3> QED
      BY <1>2, <2>1, <3>1 DEF ClientTypes, SocketTypes
  <2>4. CASE PeerStreams
    <3>1. PICK f \in Frames : down' = Append(down, f) /\ peer'.ran = peer.ran
      BY <2>4, HowThePeerStreams DEF ClientTypes
    <3> QED
      BY <1>2, <2>1, <3>1
  <2>5. CASE PeerPushes
    <3>1. PICK f \in Frames : down' = Append(down, f) /\ peer'.ran = peer.ran
      BY <2>5, HowThePeerPushes
    <3> QED
      BY <1>2, <2>1, <3>1
  <2>6. CASE PeerRefuses
    <3>1. PICK why \in {"limit", "denied"} :
            down' = Append(down, Frame(why, "none", 0, FALSE)) /\ peer'.ran = peer.ran
      BY <2>6 DEF PeerRefuses, PeerSends, ClientTypes, SocketTypes
    <3> PICK f : f = Frame(why, "none", 0, FALSE)
      OBVIOUS
    <3>2. f \in Frames /\ down' = Append(down, f)
      BY <3>1, NoticeMade
    <3> QED
      BY <1>2, <2>1, <3>1, <3>2
  <2> QED
    BY <1>2, <2>2, <2>3, <2>4, <2>5, <2>6 DEF PeerSteps, PeerServes
<1>3. CASE ReadFrame
  <2>1. /\ down # <<>> /\ down' = Tail(down) /\ peer' = peer
        /\ rejection # "none" => rejection' = rejection
    BY <1>3 DEF ReadFrame, ResponseFrame, StreamFrame, PushFrame, BadFrame, RecordRejection
  <2> QED
    BY <1>3, <2>1
<1>4. ASSUME NEW c \in Calls, StartCall(c) \/ CallRefused(c) \/ CallResolves(c) \/ CallTimesOut(c)
      PROVE  UNCHANGED <<rejection, peer, down>>
  BY <1>4 DEF StartCall, CallRefused, CallResolves, CallTimesOut
<1>5. ASSUME NEW s \in Streams,
             \/ InsertStream(s) \/ SendStream(s) \/ StreamRefused(s) \/ Consume(s) \/ CancelStream(s)
             \/ Forwarder(s)
      PROVE  UNCHANGED <<rejection, peer, down>>
  BY <1>5 DEF InsertStream, SendStream, StreamRefused, Consume, CancelStream, Forwarder,
     ForwarderTakes, ForwarderHands, ForwarderSeesEnd, ForwarderTimesOut
<1>6. \/ BeginDisconnect \/ Disconnecting \/ DropClient \/ Writer
      \/ ReadEnd \/ HandFrame \/ ReaderFails \/ ReaderClears \/ UNCHANGED vars
      => UNCHANGED <<rejection, peer, down>>
  BY DEF BeginDisconnect, Disconnecting, DisconnectSends, FinishDisconnect, DropClient,
     Writer, WriterTakes, WriterWrites, WriterCannotEncode, WriterFails, WriterClears, WriterGone,
     ReadEnd, HandFrame, ReaderFails, ReaderClears, vars
<1> QED
  BY <1>1, <1>2, <1>3, <1>4, <1>5, <1>6 DEF Next, CallerSteps, Reader

LEMMA LastFrame ==
    ASSUME ClientTypes, NEW f \in Frames, down' = Append(down, f)
    PROVE  f = down'[Len(down) + 1] /\ down' # down
<1>1. down \in Seq(Frames)
  BY DEF ClientTypes, SocketTypes
<1>2. down'[Len(down) + 1] = f /\ Len(down') = Len(down) + 1 /\ Len(down) \in Nat
  BY <1>1, Appended
<1> QED
  BY <1>2

(* Where a frame that the reader finds was before. *)
LEMMA WhereFramesComeFrom ==
    ASSUME ClientTypes, [Next]_vars, NEW i \in 1..Len(down')
    PROVE  /\ down'[i] \in Frames
           /\ \/ \E j \in 1..Len(down) : down'[i] = down[j]
              \/ PeerSteps /\ down' = Append(down, down'[i]) /\ i = Len(down) + 1
<1>1. down' \in Seq(Frames) /\ down \in Seq(Frames)
  <2>1. down \in Seq(Frames)
    BY DEF ClientTypes, SocketTypes
  <2>2. ASSUME NEW f \in Frames, down' = Append(down, f) PROVE down' \in Seq(Frames)
    BY <2>1, <2>2, Appended
  <2>3. ASSUME down # <<>>, down' = Tail(down) PROVE down' \in Seq(Frames)
    BY <2>1, <2>3, Tailed
  <2> QED
    BY <2>1, <2>2, <2>3, WhatWasDoneStays
<1>2. down'[i] \in Frames
  BY <1>1
<1>3. CASE down' = down
  BY <1>2, <1>3
<1>4. CASE down # <<>> /\ down' = Tail(down)
  <2>1. Len(down') = Len(down) - 1 /\ Len(down) \in Nat /\ down'[i] = down[i + 1]
    BY <1>1, <1>4, Tailed
  <2> QED
    BY <1>2, <2>1
<1>5. ASSUME NEW f \in Frames, down' = Append(down, f), PeerSteps
      PROVE  \/ \E j \in 1..Len(down) : down'[i] = down[j]
             \/ PeerSteps /\ down' = Append(down, down'[i]) /\ i = Len(down) + 1
  <2>1. /\ Len(down') = Len(down) + 1 /\ Len(down) \in Nat
        /\ down'[Len(down) + 1] = f /\ \A j \in 1..Len(down) : down'[j] = down[j]
    BY <1>1, <1>5, Appended
  <2> QED
    BY <1>5, <2>1
<1> QED
  BY <1>2, <1>3, <1>4, <1>5, WhatWasDoneStays

LEMMA RefusalStep ==
    ASSUME ClientTypes, RefusalIsFinal, [Next]_vars
    PROVE  RefusalIsFinal'
<1> DEFINE Said == rejection # "none" \/ \E i \in 1..Len(down) : Refused(down[i])
           Final == /\ peer.at # "open" => peer.hand = NoCmd
                    /\ peer.at \in {"refusing", "refused"} => peer.ran = {}
                    /\ Said => peer.at \in {"refused", "closed"} /\ peer.ran = {}
<1>0. Final /\ (Final' => RefusalIsFinal')
  BY DEF RefusalIsFinal
<1> SUFFICES Final'
  BY <1>0
<1> HIDE DEF Said
<1>1. ASSUME Said', ~Said
      PROVE  PeerSteps /\ \E f \in Frames : Refused(f) /\ down' = Append(down, f)
  <2>1. rejection = "none" /\ \A j \in 1..Len(down) : ~Refused(down[j])
    BY <1>1 DEF Said
  <2>2. rejection' = "none"
    <3>1. CASE ReadFrame
      <4>1. down \in Seq(Frames) /\ down # <<>>
        BY <3>1 DEF ReadFrame, ClientTypes, SocketTypes
      <4>2. Head(down) = down[1] /\ 1 \in 1..Len(down)
        BY <4>1, Tailed
      <4>3. ~Refused(Head(down))
        BY <2>1, <4>2
      <4> QED
        BY <2>1, <3>1, <4>3 DEF ReadFrame, ResponseFrame, StreamFrame, PushFrame, BadFrame,
           RecordRejection, Refused
    <3>2. CASE rejection' = rejection
      BY <2>1, <3>2
    <3> QED
      BY <3>1, <3>2, WhatWasDoneStays
  <2>3. PICK i \in 1..Len(down') : Refused(down'[i])
    BY <1>1, <2>2 DEF Said
  <2> QED
    BY <2>1, <2>3, WhereFramesComeFrom
<1>2. CASE UNCHANGED peer /\ (Said' => Said)
  BY <1>0, <1>2
<1>3. CASE ~PeerSteps
  <2>1. Said' => Said
    BY <1>1, <1>3
  <2>2. peer' = peer
    BY <1>3, WhatWasDoneStays
  <2> QED
    BY <1>2, <2>1, <2>2
<1>4. ASSUME NEW f \in Frames, ~Refused(f), down' = Append(down, f) PROVE Said' => Said
  <2>1. ASSUME NEW g \in Frames, down' = Append(down, g) PROVE g = f
    <3>1. down \in Seq(Frames)
      BY DEF ClientTypes, SocketTypes
    <3> QED
      BY <1>4, <2>1, <3>1, LastFrame
  <2> QED
    BY <1>1, <1>4, <2>1
<1>5. CASE PeerReads \/ PeerDispatches \/ PeerCloses
  <2>1. down' = down
    BY <1>5 DEF PeerReads, PeerDispatches, PeerCloses
  <2>2. Said' => Said
    <3>1. \A f \in Frames : down' # Append(down, f)
      <4>1. down \in Seq(Frames)
        BY DEF ClientTypes, SocketTypes
      <4>2. ASSUME NEW f \in Frames, down' = Append(down, f) PROVE FALSE
        <5>1. Len(down') = Len(down) + 1 /\ Len(down) \in Nat
          BY <4>1, <4>2, Appended
        <5> QED
          BY <2>1, <5>1
      <4> QED
        BY <4>2
    <3> QED
      BY <1>1, <3>1
  <2>3. CASE PeerReads
    BY <1>0, <2>2, <2>3 DEF PeerReads, ClientTypes, SocketTypes
  <2>4. CASE PeerDispatches
    BY <1>0, <2>2, <2>4, CommandsMade DEF PeerDispatches, ClientTypes, SocketTypes
  <2>5. CASE PeerCloses
    BY <1>0, <2>2, <2>5 DEF PeerCloses, ClientTypes, SocketTypes
  <2> QED
    BY <1>5, <2>3, <2>4, <2>5
<1>6. CASE PeerAnswers
  <2>1. PICK f \in Frames : /\ down' = Append(down, f) /\ f.kind \in Answers \union {"bad"}
                            /\ peer' = [peer EXCEPT !.hand = NoCmd]
    BY <1>6, HowThePeerAnswers DEF ClientTypes
  <2>2. ~Refused(f)
    BY <2>1 DEF Refused, Answers
  <2>3. Said' => Said
    BY <1>4, <2>1, <2>2
  <2> QED
    BY <1>0, <2>1, <2>3 DEF ClientTypes, SocketTypes
<1>7. CASE PeerStreams
  <2>1. PICK f \in Frames : /\ f.id \in Streams /\ down' = Append(down, f)
                            /\ peer'.hand \in {NoCmd, peer.hand}
                            /\ peer'.at = peer.at /\ peer'.ran = peer.ran
    BY <1>7, HowThePeerStreams DEF ClientTypes
  <2>2. ~Refused(f)
    BY <2>1, FrameFields DEF Refused
  <2>3. Said' => Said
    BY <1>4, <2>1, <2>2
  <2> QED
    BY <1>0, <2>1, <2>3
<1>8. CASE PeerPushes
  <2>1. PICK f \in Frames : down' = Append(down, f) /\ peer' = peer /\ f.kind \in {"push", "bad"}
    BY <1>8, HowThePeerPushes
  <2>2. Said' => Said
    BY <1>4, <2>1 DEF Refused
  <2> QED
    BY <1>2, <2>1, <2>2
<1>9. CASE PeerRefuses
  BY <1>0, <1>9 DEF PeerRefuses, PeerSends, ClientTypes, SocketTypes
<1> QED
  BY <1>3, <1>5, <1>6, <1>7, <1>8, <1>9 DEF PeerSteps, PeerServes

(* The truth stays true. *)
LEMMA TruthStays ==
    ASSUME ClientTypes, RequestsTravelOnce, [Next]_vars,
           NEW c \in Calls, ~Unsent(c), NEW word, Truthful(word, c)
    PROVE  Truthful(word, c)'
<1>1. ~Travels(c) => ~Travels(c)'
  BY TravelSteps DEF Onward, Ids
<1>2. ~Travels(c) => (c \in peer'.ran => c \in peer.ran)
  <2>1. ~Travels(c) => peer.hand.id # c
    BY DEF Travels
  <2> QED
    BY <2>1, WhatWasDoneStays
<1>3. c \in peer.ran => c \in peer'.ran
  BY WhatWasDoneStays
<1>4. rejection = "limit" => rejection' = "limit"
  BY WhatWasDoneStays
<1> QED
  BY <1>1, <1>2, <1>3, <1>4 DEF Truthful

LEMMA TruthStep ==
    ASSUME ClientTypes, CallersWait, RequestsTravelOnce, AnswersAreTrue, [Next]_vars
    PROVE  AnswersAreTrue'
<1> SUFFICES ASSUME NEW c \in Calls
             PROVE  /\ \A word : word = slot'[c] \/ word = call'[c] => Truthful(word, c)'
                    /\ \A i \in 1..Len(down') : \A word : down'[i].id = c /\ word = down'[i].kind =>
                        ~Travels(c)' /\ ~Unsent(c)' /\ Truthful(word, c)'
                    /\ Early(c)' => c \notin peer'.ran
  <2>1. ASSUME NEW c \in Calls,
               \A word : word = slot'[c] \/ word = call'[c] => Truthful(word, c)'
        PROVE  Truthful(slot[c], c)' /\ Truthful(call[c], c)'
    BY <2>1 DEF Truthful
  <2>2. ASSUME NEW c \in Calls, NEW i \in 1..Len(down'),
               \A word : word = down'[i].kind => Truthful(word, c)'
        PROVE  Truthful(down[i].kind, c)'
    BY <2>2 DEF Truthful
  <2> QED
    BY <2>1, <2>2 DEF AnswersAreTrue
<1>1. /\ Truthful(slot[c], c) /\ Truthful(call[c], c)
      /\ \A i \in 1..Len(down) : down[i].id = c =>
          ~Travels(c) /\ ~Unsent(c) /\ Truthful(down[i].kind, c)
      /\ Early(c) => c \notin peer.ran
  BY DEF AnswersAreTrue
<1>2. TravelsOnce(c) /\ Onward(c) /\ (Unsent(c)' => Unsent(c))
  BY TravelSteps, SentStaysSent DEF Ids, RequestsTravelOnce
<1>3. ConnectionError \in {"closed", "limit", "denied"} /\ (ConnectionError = "limit" => rejection' = "limit")
  BY WhatWasDoneStays DEF ConnectionError, ClientTypes, CallTypes
<1>4. ASSUME NEW word, word \notin {"refused", "unencodable", "reply", "no_reply", "limit"}
      PROVE  Truthful(word, c)'
  BY <1>4 DEF Truthful
<1>5. ASSUME NEW word, word = ConnectionError PROVE Truthful(word, c)'
  BY <1>3, <1>5 DEF Truthful
<1>6. ASSUME NEW word, word = slot'[c] \/ word = call'[c] PROVE Truthful(word, c)'
  <2>1. Unsent(c) <=> call[c] = "idle"
    BY DEF Unsent
  <2>2. call[c] = "idle" => slot[c] = "none"
    BY DEF CallersWait
  <2>3. ASSUME word = slot[c] \/ word = call[c] PROVE Truthful(word, c)'
    <3>1. Truthful(word, c)
      BY <1>1, <2>3
    <3>2. CASE ~Unsent(c)
      BY <3>1, <3>2, TruthStays
    <3>3. CASE Unsent(c)
      BY <1>4, <2>1, <2>2, <2>3, <3>3
    <3> QED
      BY <3>2, <3>3
  <2>4. CASE Begins(c)
    BY <1>4, <1>6, <2>4 DEF Begins
  <2>5. CASE Ends(c)
    <3>1. CASE word \in {ConnectionError, slot[c]}
      BY <1>5, <2>3, <3>1
    <3>2. CASE word \in {"timeout", "abandoned"}
      BY <1>4, <3>2
    <3> QED
      BY <1>6, <2>5, <3>1, <3>2 DEF Ends
  <2>6. CASE Hears(c)
    <3>1. CASE word \in {ConnectionError, call[c]}
      BY <1>5, <2>3, <3>1
    <3>2. CASE word \in {"io", "dropped"}
      BY <1>4, <3>2
    <3>3. CASE word = "unencodable" /\ WriterCannotEncode /\ writer.cmd.id = c
      <4>1. Early(c) /\ c \notin peer.ran
        BY <1>1, <3>3 DEF Early
      <4>2. UNCHANGED <<wq, up, peer>> /\ writer'.cmd.id = "none" /\ "none" \notin Ids
        BY <3>3, CommandsMade DEF WriterCannotEncode
      <4>3. ~Travels(c)'
        BY <1>2, <3>3, <4>2 DEF Travels, TravelsOnce, Ids
      <4> QED
        BY <3>3, <4>1, <4>2, <4>3 DEF Truthful
    <3>4. CASE ReadFrame /\ Head(down).id = c /\ Head(down).kind \in Answers /\ word = Head(down).kind
      <4>1. down \in Seq(Frames) /\ down # <<>>
        BY <3>4 DEF ReadFrame, ClientTypes, SocketTypes
      <4>2. 1 \in 1..Len(down) /\ Head(down) = down[1]
        BY <4>1, Tailed
      <4>3. ~Unsent(c) /\ Truthful(word, c)
        BY <1>1, <3>4, <4>2
      <4> QED
        BY <4>3, TruthStays
    <3> QED
      BY <1>6, <2>6, <3>1, <3>2, <3>3, <3>4 DEF Hears
  <2>7. CASE call'[c] = call[c] /\ slot'[c] = slot[c]
    BY <1>6, <2>3, <2>7
  <2> QED
    BY <2>4, <2>5, <2>6, <2>7, CallSteps
<1>7. ASSUME NEW i \in 1..Len(down'), NEW word, down'[i].id = c, word = down'[i].kind
      PROVE  ~Travels(c)' /\ ~Unsent(c)' /\ Truthful(word, c)'
  <2>1. CASE \E j \in 1..Len(down) : down'[i] = down[j]
    <3>1. ~Travels(c) /\ ~Unsent(c) /\ Truthful(word, c)
      BY <1>1, <1>7, <2>1
    <3> QED
      BY <1>2, <3>1, TruthStays DEF Onward
  <2>2. CASE PeerSteps /\ down' = Append(down, down'[i])
    <3> PICK f : f = down'[i]
      OBVIOUS
    <3>1. f \in Frames /\ f.id = c /\ f.kind = word /\ c \notin Streams /\ c # "none"
      BY <1>7, WhereFramesComeFrom, CommandsMade DEF Ids
    <3>2. ASSUME NEW g \in Frames, down' = Append(down, g) PROVE g = f
      <4>1. down \in Seq(Frames) /\ down' = Append(down, f)
        BY <2>2 DEF ClientTypes, SocketTypes
      <4> QED
        BY <3>1, <3>2, <4>1, LastFrame
    <3>3. PeerAnswers
      <4>1. down' # down
        <5>1. down \in Seq(Frames) /\ down' = Append(down, f)
          BY <2>2 DEF ClientTypes, SocketTypes
        <5>2. Len(down') = Len(down) + 1 /\ Len(down) \in Nat
          BY <3>1, <5>1, Appended
        <5> QED
          BY <5>2
      <4>2. ~PeerReads /\ ~PeerDispatches /\ ~PeerCloses
        BY <4>1 DEF PeerReads, PeerDispatches, PeerCloses
      <4>3. ~PeerStreams
        <5>1. PeerStreams => \E g \in Frames : down' = Append(down, g) /\ g.id \in Streams
          BY HowThePeerStreams DEF ClientTypes
        <5> QED
          BY <3>1, <3>2, <5>1
      <4>4. ~PeerPushes
        <5>1. PeerPushes => \E g \in Frames : down' = Append(down, g) /\ g.id = "none"
          BY HowThePeerPushes
        <5> QED
          BY <3>1, <3>2, <5>1
      <4>5. ~PeerRefuses
        <5>1. ASSUME NEW why \in {"limit", "denied"}, NEW g, g = Frame(why, "none", 0, FALSE),
                     down' = Append(down, g)
              PROVE  FALSE
          <6>1. g \in Frames /\ g.id = "none"
            BY <5>1, NoticeMade
          <6> QED
            BY <3>1, <3>2, <5>1, <6>1
        <5> QED
          BY <5>1 DEF PeerRefuses, PeerSends
      <4> QED
        BY <2>2, <4>2, <4>3, <4>4, <4>5 DEF PeerSteps, PeerServes
    <3>4. PICK d \in Calls, g \in Frames :
             /\ peer.hand.id = d /\ g.id = d /\ down' = Append(down, g) /\ up' = up
             /\ g.kind \in {"refused", "fault"} => d \notin peer.ran
             /\ g.kind \in {"reply", "no_reply"} => d \in peer.ran
             /\ g.kind \in Answers \union {"bad"}
             /\ peer' = [peer EXCEPT !.hand = NoCmd]
      BY <3>3, HowThePeerAnswers DEF ClientTypes
    <3>5. g = f /\ d = c
      BY <3>1, <3>2, <3>4
    <3>6. UNCHANGED <<wq, writer>>
      BY <2>2, PeersOwn
    <3>7. peer'.hand.id = "none" /\ peer'.ran = peer.ran
      BY <3>4, CommandsMade DEF ClientTypes, SocketTypes
    <3>8. ~Travels(c)' /\ ~Unsent(c)'
      BY <1>2, <3>1, <3>4, <3>5, <3>6, <3>7 DEF TravelsOnce, Travels
    <3>9. Truthful(word, c)'
      BY <3>1, <3>4, <3>5, <3>7, <3>8 DEF Truthful, Answers
    <3> QED
      BY <3>8, <3>9
  <2> QED
    BY <2>1, <2>2, WhereFramesComeFrom
<1>8. Early(c)' => c \notin peer'.ran
  <2>1. Early(c) => peer.hand.id # c
    BY <1>2 DEF TravelsOnce, Early, Travels
  <2> QED
    BY <1>1, <1>2, <2>1, WhatWasDoneStays DEF Onward
<1> QED
  BY <1>6, <1>7, <1>8

-----------------------------------------------------------------------------
(* What happens to a stream.                                               *)

(* The consumer reads or stops listening. *)
Consumed(s) ==
    /\ out[s] # <<>> /\ got'[s] = Append(got[s], Head(out[s])) /\ out'[s] = Tail(out[s])
    /\ UNCHANGED <<fwd[s], chan[s], listening[s], reader, down, peer, active>>

Cancelled(s) ==
    /\ ~listening'[s] /\ out'[s] = <<>>
    /\ UNCHANGED <<got[s], fwd[s], chan[s], reader, down, peer, active>>

(* The forwarder starts, takes a frame, delivers it, ends. *)
Started(s) ==
    /\ fwd[s].at = "none" /\ fwd'[s].at = "waiting"
    /\ UNCHANGED <<got[s], out[s], chan[s], listening[s], reader, down, peer, active>>

Taken(s) ==
    /\ fwd[s].at = "waiting" /\ chan[s] # <<>>
    /\ fwd'[s].at = "handing" /\ fwd'[s].frame = Head(chan[s]) /\ chan'[s] = Tail(chan[s])
    /\ UNCHANGED <<got[s], out[s], listening[s], reader, down, peer, active>>

HandedOut(s) ==
    /\ fwd[s].at = "handing" /\ listening[s] /\ out'[s] = Append(out[s], fwd[s].frame)
    /\ fwd'[s].at \in {"waiting", "done"} /\ active' \subseteq active
    /\ UNCHANGED <<got[s], chan[s], listening[s], reader, down, peer>>

Stopped(s) ==
    /\ fwd'[s].at = "done" /\ active' \subseteq active
    /\ UNCHANGED <<got[s], out[s], chan[s], listening[s], reader, down, peer>>

(* The reader routes the frame it holds, reads the next one. *)
RoutedOn(s) ==
    /\ reader.frame.id = s /\ reader'.frame.id # s /\ active' \subseteq active
    /\ chan'[s] = Append(chan[s], reader.frame)
    /\ UNCHANGED <<got[s], out[s], fwd[s], listening[s], down, peer>>

Quiet(s) == UNCHANGED <<got[s], out[s], fwd[s], chan[s], listening[s]>>

ReadOn(s) ==
    /\ Quiet(s) /\ down # <<>> /\ down' = Tail(down) /\ UNCHANGED <<peer, active>>
    /\ reader.frame.id # s
    /\ reader'.frame.id = s => Head(down).id = s /\ reader'.frame = Shown(Head(down)) /\ s \in active
    /\ Head(down).id = s /\ s \in active => reader'.frame.id = s

(* The peer sends a frame. *)
SentNext(s) ==
    /\ Quiet(s) /\ UNCHANGED <<reader, active>> /\ peer.hand.id = s
    /\ peer'.sent[s] = peer.sent[s] + 1
    /\ \E f \in Frames :
        /\ f.id = s /\ Shown(f) \in StreamFrames /\ Shown(f).id = s /\ Shown(f).n = peer'.sent[s]
        /\ Shown(f).final => peer'.hand = NoCmd
        /\ down' = Append(down, f) /\ UNCHANGED <<wq, writer, up>>

(* Or the step is not about the stream, unless the reader's frame is lost. *)
Aside(s) ==
    /\ Quiet(s) /\ peer'.sent[s] = peer.sent[s]
    /\ down' = down \/ (UNCHANGED reader /\ \E f \in Frames : f.id # s /\ down' = Append(down, f))
    /\ \/ UNCHANGED reader.frame
       \/ reader'.frame.id # s /\ (fwd[s].at = "done" \/ s \notin active' \/ writer.at = "gone")
       \/ reader'.frame.id # s /\ reader.frame.id # s
    /\ s \in active' => s \in active \/ (Unsent(s) /\ UNCHANGED reader)

StreamStep(s) ==
    \/ Consumed(s) \/ Cancelled(s) \/ Started(s) \/ Taken(s) \/ HandedOut(s) \/ Stopped(s)
    \/ RoutedOn(s) \/ ReadOn(s) \/ SentNext(s) \/ Aside(s)

LEMMA StreamSteps ==
    ASSUME ClientTypes, CallersWait, [Next]_vars, NEW s \in Streams
    PROVE  StreamStep(s)
<1> USE DEF ClientTypes, ends
<1>0. /\ active \in SUBSET Streams /\ s # "none" /\ NoFrame.id = "none"
      /\ strm[s] # "open" <=> Unsent(s)
  BY CommandsMade, StreamFrameFields DEF TaskTypes, Ids, Unsent
<1>1. ASSUME Quiet(s), UNCHANGED <<down, peer, reader>>, s \in active' => s \in active \/ Unsent(s)
      PROVE  StreamStep(s)
  BY <1>1 DEF StreamStep, Aside
<1>2. ASSUME NEW c \in Calls, StartCall(c) \/ CallRefused(c) \/ CallResolves(c) \/ CallTimesOut(c)
      PROVE  StreamStep(s)
  BY <1>1, <1>2 DEF StartCall, CallRefused, CallResolves, CallTimesOut, Quiet, queues
<1>3. ASSUME NEW z \in Streams, InsertStream(z) \/ StreamRefused(z) PROVE StreamStep(s)
  BY <1>0, <1>1, <1>3 DEF InsertStream, StreamRefused, Quiet
<1>4. ASSUME NEW z \in Streams, SendStream(z) PROVE StreamStep(s)
  <2>1. UNCHANGED <<chan, out, got, listening, reader, down, peer, active>>
    BY <1>4 DEF SendStream
  <2>2. CASE z = s
    <3>1. fwd[s].at = "none" /\ fwd'[s].at = "waiting"
      BY <1>4, <2>2 DEF SendStream, CallersWait, ChannelTypes
    <3> QED
      BY <2>1, <3>1 DEF StreamStep, Started
  <2>3. CASE z # s
    <3>1. fwd'[s] = fwd[s]
      BY <1>4, <2>3 DEF SendStream, ChannelTypes
    <3> QED
      BY <1>1, <2>1, <3>1 DEF Quiet
  <2> QED
    BY <2>2, <2>3
<1>5. ASSUME NEW z \in Streams, Consume(z) PROVE StreamStep(s)
  <2>1. CASE z = s
    BY <1>5, <2>1 DEF Consume, StreamStep, Consumed, ChannelTypes, queues
  <2>2. CASE z # s
    BY <1>1, <1>5, <2>2 DEF Consume, Quiet, ChannelTypes, queues
  <2> QED
    BY <2>1, <2>2
<1>6. ASSUME NEW z \in Streams, CancelStream(z) PROVE StreamStep(s)
  <2>1. CASE z = s
    BY <1>6, <2>1 DEF CancelStream, StreamStep, Cancelled, CallTypes, ChannelTypes, queues
  <2>2. CASE z # s
    BY <1>1, <1>6, <2>2 DEF CancelStream, Quiet, CallTypes, ChannelTypes, queues
  <2> QED
    BY <2>1, <2>2
<1>7. ASSUME NEW z \in Streams, ForwarderTakes(z) PROVE StreamStep(s)
  <2>1. CASE z = s
    BY <1>7, <2>1 DEF ForwarderTakes, Hand, StreamStep, Taken, ChannelTypes, queues
  <2>2. CASE z # s
    BY <1>1, <1>7, <2>2 DEF ForwarderTakes, Quiet, ChannelTypes, queues
  <2> QED
    BY <2>1, <2>2
<1>8. ASSUME NEW z \in Streams, ForwarderHands(z) \/ ForwarderSeesEnd(z) \/ ForwarderTimesOut(z)
      PROVE  StreamStep(s)
  <2>1. UNCHANGED <<chan, got, listening, reader, down, peer>> /\ active' \subseteq active
    BY <1>8 DEF ForwarderHands, ForwarderSeesEnd, ForwarderTimesOut, ForwarderEnds
  <2>2. CASE z = s /\ ForwarderHands(s)
    <3>1. CASE out' = [out EXCEPT ![s] = Append(@, fwd[s].frame)]
      <4>0. out[s] # out'[s]
        BY <2>2, <3>1, Appended DEF ForwarderHands, ChannelTypes
      <4>1. fwd[s].at = "handing" /\ listening[s] /\ fwd'[s].at \in {"waiting", "done"}
            /\ out'[s] = Append(out[s], fwd[s].frame)
        BY <2>2, <3>1, <4>0 DEF ForwarderHands, ForwarderEnds, ChannelTypes
      <4> QED
        BY <2>1, <4>1 DEF StreamStep, HandedOut
    <3>2. CASE out' = out /\ ForwarderEnds(s)
      BY <2>1, <3>2 DEF ForwarderEnds, StreamStep, Stopped, ChannelTypes
    <3> QED
      BY <2>2, <3>1, <3>2 DEF ForwarderHands
  <2>3. CASE z = s /\ (ForwarderSeesEnd(s) \/ ForwarderTimesOut(s))
    BY <2>1, <2>3 DEF ForwarderSeesEnd, ForwarderTimesOut, ForwarderEnds, StreamStep, Stopped,
       ChannelTypes
  <2>4. CASE z # s
    <3>1. fwd'[s] = fwd[s] /\ out'[s] = out[s]
      BY <1>8, <2>4 DEF ForwarderHands, ForwarderSeesEnd, ForwarderTimesOut, ForwarderEnds,
         ChannelTypes
    <3> QED
      BY <1>1, <2>1, <3>1 DEF Quiet
  <2> QED
    BY <1>8, <2>2, <2>3, <2>4
<1>9. CASE BeginDisconnect \/ Writer \/ UNCHANGED vars
         \/ \E from, kind, to : DisconnectSends(from, kind, to)
  BY <1>1, <1>9 DEF BeginDisconnect, DisconnectSends, Writer, WriterTakes, WriterWrites,
     WriterCannotEncode, Undone, WriterFails, WriterClears, WriterGone, Quiet, vars, queues
<1>10. CASE FinishDisconnect
  BY <1>0, <1>10 DEF FinishDisconnect, StreamStep, Aside, Quiet, queues
<1>11. CASE DropClient
  BY <1>0, <1>11 DEF DropClient, StreamStep, Aside, Quiet, queues
<1>12. CASE ReadEnd \/ ReaderFails \/ ReaderClears
  <2>1. Quiet(s) /\ UNCHANGED <<down, peer>> /\ active' \subseteq active
    BY <1>12 DEF ReadEnd, ReaderFails, ReaderClears, Quiet, queues
  <2>2. reader'.frame = reader.frame \/ (reader'.frame = NoFrame /\ reader.frame \notin StreamFrames)
    BY <1>12, StreamFrameFields DEF ReadEnd, ReaderFails, ReaderClears, TaskTypes
  <2>3. reader.frame \notin StreamFrames => reader.frame.id # s
    BY <1>0, StreamFrameFields DEF TaskTypes
  <2> QED
    BY <1>0, <2>1, <2>2, <2>3 DEF StreamStep, Aside
<1>13. CASE HandFrame
  <2> PICK f : f = reader.frame
    OBVIOUS
  <2> PICK z : z = f.id
    OBVIOUS
  <2>1. f \in StreamFrames /\ z \in Streams
    BY <1>13, StreamFrameFields DEF HandFrame, TaskTypes
  <2>2. reader'.frame = NoFrame /\ UNCHANGED <<got, out, fwd, listening, down, peer>>
        /\ active' \subseteq active
    BY <1>13 DEF HandFrame, Reading
  <2>3. CASE z = s /\ chan' = [chan EXCEPT ![z] = Append(@, f)]
    BY <1>0, <2>2, <2>3 DEF StreamStep, RoutedOn, ChannelTypes
  <2>4. CASE z = s /\ chan' = chan /\ fwd[z].at = "done"
    BY <1>0, <2>2, <2>4 DEF StreamStep, Aside, Quiet
  <2>5. CASE z # s
    <3>1. chan'[s] = chan[s]
      BY <1>13, <2>5 DEF HandFrame, ChannelTypes
    <3> QED
      BY <1>0, <2>2, <2>5, <3>1 DEF StreamStep, Aside, Quiet
  <2> QED
    BY <1>13, <2>3, <2>4, <2>5 DEF HandFrame
<1>14. CASE ReadFrame
  <2> PICK f : f = Head(down)
    OBVIOUS
  <2>1. f \in Frames /\ down # <<>> /\ down' = Tail(down) /\ UNCHANGED <<peer, active>> /\ Quiet(s)
    BY <1>14, Tailed DEF ReadFrame, SocketTypes, Quiet
  <2>2. reader.frame.id # s
    BY <1>0, <1>14 DEF ReadFrame, TaskTypes
  <2>3. s \notin pending
    BY CommandsMade DEF TaskTypes
  <2>4. \/ f.kind \in {"limit", "denied", "push", "bad"} /\ reader'.frame = NoFrame
        \/ f.kind \in Answers /\ f.id \in pending /\ reader'.frame = NoFrame
        \/ /\ f.kind \in Answers /\ f.id \notin pending
           /\ reader'.frame = IF f.id \in active THEN Termination(f) ELSE NoFrame
        \/ f.kind = "stream" /\ reader'.frame = IF f.id \in active THEN f ELSE NoFrame
    BY <1>14 DEF ReadFrame, ResponseFrame, StreamFrame, PushFrame, BadFrame, Hand, Reading
  <2>5. f.id = s => f.kind \in {"refused", "stream"}
    BY <2>1, FrameFields
  <2>6. f.kind \in Answers => Shown(f) = Termination(f) /\ Termination(f).id = f.id
    BY DEF Shown, Answers, Termination, Frame
  <2>7. f.kind = "stream" => Shown(f) = f
    BY DEF Shown
  <2>8. reader'.frame.id = s => f.id = s /\ reader'.frame = Shown(f) /\ s \in active
    BY <1>0, <2>4, <2>6, <2>7
  <2>9. f.id = s /\ s \in active => reader'.frame.id = s
    BY <2>3, <2>4, <2>5, <2>6 DEF Answers
  <2> QED
    BY <2>1, <2>2, <2>8, <2>9 DEF StreamStep, ReadOn
<1>15. CASE PeerSteps
  <2>1. Quiet(s) /\ UNCHANGED <<reader, active, wq, writer>>
    BY <1>15, PeersOwn DEF Quiet
  <2>2. ASSUME peer'.sent[s] = peer.sent[s],
               down' = down \/ \E f \in Frames : f.id # s /\ down' = Append(down, f)
        PROVE  StreamStep(s)
    BY <2>1, <2>2 DEF StreamStep, Aside
  <2>3. CASE PeerReads \/ PeerDispatches \/ PeerCloses
    BY <2>2, <2>3 DEF PeerReads, PeerDispatches, PeerCloses, SocketTypes
  <2>4. CASE PeerAnswers
    <3>1. PICK c \in Calls, f \in Frames :
            f.id = c /\ down' = Append(down, f) /\ peer' = [peer EXCEPT !.hand = NoCmd]
      BY <2>4, HowThePeerAnswers
    <3>2. f.id # s /\ peer'.sent[s] = peer.sent[s]
      BY <3>1, CommandsMade DEF SocketTypes
    <3> QED
      BY <2>2, <3>1, <3>2
  <2>5. CASE PeerStreams
    <3>1. PICK z \in Streams, k \in Nat, f \in Frames :
             /\ peer.hand.id = z /\ k = peer.sent[z] + 1
             /\ f.id = z /\ Shown(f) \in StreamFrames /\ Shown(f).id = z /\ Shown(f).n = k
             /\ down' = Append(down, f) /\ up' = up
             /\ peer'.hand = NoCmd \/ (~Shown(f).final /\ peer'.hand = peer.hand)
             /\ peer'.sent[z] = k /\ \A y \in Streams : y # z => peer'.sent[y] = peer.sent[y]
      BY <2>5, HowThePeerStreams
    <3>2. CASE z = s
      BY <2>1, <3>1, <3>2 DEF StreamStep, SentNext
    <3>3. CASE z # s
      BY <2>2, <3>1, <3>3
    <3> QED
      BY <3>2, <3>3
  <2>6. CASE PeerPushes
    <3>1. PICK f \in Frames : f.id = "none" /\ down' = Append(down, f) /\ peer' = peer
      BY <2>6, HowThePeerPushes
    <3>2. f.id # s
      BY <1>0, <3>1, ClientAssumption
    <3> QED
      BY <2>2, <3>1, <3>2
  <2>7. CASE PeerRefuses
    <3>1. PICK why \in {"limit", "denied"} :
            /\ down' = Append(down, Frame(why, "none", 0, FALSE))
            /\ peer'.sent = peer.sent
      BY <2>7 DEF PeerRefuses, PeerSends, SocketTypes
    <3> PICK f : f = Frame(why, "none", 0, FALSE)
      OBVIOUS
    <3>2. f \in Frames /\ f.id # s /\ down' = Append(down, f)
      BY <1>0, <3>1, NoticeMade
    <3> QED
      BY <2>2, <3>1, <3>2
  <2> QED
    BY <1>15, <2>3, <2>4, <2>5, <2>6, <2>7 DEF PeerSteps, PeerServes
<1> QED
  BY <1>2, <1>3, <1>4, <1>5, <1>6, <1>7, <1>8, <1>9, <1>10, <1>11, <1>12, <1>13, <1>14, <1>15
     DEF Next, CallerSteps, Disconnecting, Reader, Forwarder

(* What was sent on a stream stays sent, and only the next frame is new.   *)
LEMMA SeqWidens ==
    ASSUME NEW S, NEW T, S \subseteq T, NEW q \in Seq(S)
    PROVE  q \in Seq(T)
OBVIOUS

LEMMA NothingWasSent ==
    ASSUME ClientTypes, NEW s \in Streams, peer.sent[s] = 0
    PROVE  SentFrames(s) = {} /\ \A q \in Seq(SentFrames(s)) : Len(q) = 0
<1>1. SentFrames(s) = {}
  BY DEF SentFrames
<1>2. ASSUME NEW S, S = {}, NEW q \in Seq(S) PROVE Len(q) = 0
  <2>1. Len(q) \in Nat /\ \A i \in 1..Len(q) : q[i] \in S
    OBVIOUS
  <2> QED
    BY <1>2, <2>1
<1> QED
  BY <1>1, <1>2

LEMMA SentFramesStay ==
    ASSUME ClientTypes, CallersWait, RequestsTravelOnce, FramesWereSent, [Next]_vars,
           NEW s \in Streams
    PROVE  /\ SentFrames(s) \subseteq SentFrames(s)'
           /\ SentNext(s) \/ peer'.sent[s] = peer.sent[s]
           /\ SentNext(s) => \A f \in StreamFrames :
                f.id = s /\ f.n = peer'.sent[s] /\ (f.final => peer'.hand = NoCmd) => f \in SentFrames(s)'
<1>1. SentNext(s) \/ peer'.sent[s] = peer.sent[s]
  BY StreamSteps DEF StreamStep, Consumed, Cancelled, Started, Taken, HandedOut, Stopped, RoutedOn,
     ReadOn, Aside
<1>2. s \in Ids /\ TravelsOnce(s) /\ Onward(s) /\ NoCmd.id = "none" /\ s # "none"
  BY TravelSteps, CommandsMade DEF Ids, RequestsTravelOnce
<1>3. peer.sent[s] \in Nat
  BY DEF ClientTypes, SocketTypes
<1>4. SentNext(s) => peer'.sent[s] = peer.sent[s] + 1 /\ Travels(s)
  BY DEF SentNext, Travels
<1>5. Unsent(s) => peer.sent[s] = 0
  BY DEF FramesWereSent
<1>6. ASSUME NEW f \in SentFrames(s) PROVE f \in SentFrames(s)'
  <2>1. /\ f \in StreamFrames /\ f.id = s /\ f.n \in 1..peer.sent[s]
        /\ f.final => f.n = peer.sent[s] /\ ~Travels(s)
    BY <1>6 DEF SentFrames
  <2>2. ~Unsent(s)
    BY <1>3, <1>5, <2>1
  <2>3. ~Travels(s) => ~Travels(s)' /\ peer'.sent[s] = peer.sent[s]
    BY <1>1, <1>2, <1>4, <2>2 DEF Onward
  <2>4. f.n \in 1..peer'.sent[s]
    BY <1>1, <1>3, <1>4, <2>1
  <2> QED
    BY <2>1, <2>3, <2>4 DEF SentFrames
<1>7. ASSUME SentNext(s), NEW f \in StreamFrames,
             f.id = s, f.n = peer'.sent[s], f.final => peer'.hand = NoCmd
      PROVE  f \in SentFrames(s)'
  <2>1. UNCHANGED <<wq, writer, up>> /\ peer.hand.id = s
    BY <1>7 DEF SentNext
  <2>2. peer'.hand = NoCmd => ~Travels(s)'
    BY <1>2, <2>1 DEF TravelsOnce, Travels
  <2>3. f.n \in 1..peer'.sent[s]
    BY <1>3, <1>4, <1>7
  <2> QED
    BY <1>7, <2>2, <2>3 DEF SentFrames
<1> QED
  BY <1>1, <1>6, <1>7

LEMMA FramesWereSentStep ==
    ASSUME ClientTypes, CallersWait, RequestsTravelOnce, FramesWereSent, [Next]_vars
    PROVE  FramesWereSent'
<1> SUFFICES ASSUME NEW s \in Streams
             PROVE  /\ got'[s] \in Seq(SentFrames(s)') /\ out'[s] \in Seq(SentFrames(s)')
                    /\ chan'[s] \in Seq(SentFrames(s)')
                    /\ fwd'[s].at = "handing" => fwd'[s].frame \in SentFrames(s)'
                    /\ reader'.frame.id = s => reader'.frame \in SentFrames(s)'
                    /\ \A i \in 1..Len(down') :
                        down'[i].id = s => \A f : f = Shown(down'[i]) => f \in SentFrames(s)'
                    /\ Unsent(s)' => peer'.sent[s] = 0
  <2>1. ASSUME NEW s \in Streams, NEW i \in 1..Len(down'),
               \A f : f = Shown(down'[i]) => f \in SentFrames(s)'
        PROVE  Shown(down'[i]) \in SentFrames(s)'
    BY <2>1
  <2> QED
    BY <2>1 DEF FramesWereSent, Shown, Termination, Frame
<1> PICK S : S = SentFrames(s)
  OBVIOUS
<1> PICK T : T = SentFrames(s)'
  OBVIOUS
<1>1. S \subseteq T /\ (SentNext(s) \/ peer'.sent[s] = peer.sent[s])
  BY SentFramesStay
<1>2. /\ got[s] \in Seq(S) /\ out[s] \in Seq(S) /\ chan[s] \in Seq(S)
      /\ fwd[s].at = "handing" => fwd[s].frame \in S
      /\ reader.frame.id = s => reader.frame \in S
      /\ \A i \in 1..Len(down) : down[i].id = s => Shown(down[i]) \in S
      /\ Unsent(s) => peer.sent[s] = 0
  BY DEF FramesWereSent
<1>3. got[s] \in Seq(T) /\ out[s] \in Seq(T) /\ chan[s] \in Seq(T)
  BY <1>1, <1>2, SeqWidens
<1>4. down \in Seq(Frames)
  BY DEF ClientTypes, SocketTypes
<1>5. /\ got'[s] \in Seq(T) /\ out'[s] \in Seq(T) /\ chan'[s] \in Seq(T)
      /\ fwd'[s].at = "handing" => fwd'[s].frame \in T
      /\ reader'.frame.id = s => reader'.frame \in T
  <2>1. CASE Consumed(s)
    <3>1. Head(out[s]) \in T /\ out'[s] \in Seq(T)
      BY <1>3, <2>1, Tailed DEF Consumed
    <3>2. got'[s] \in Seq(T)
      BY <1>3, <2>1, <3>1, Appended DEF Consumed
    <3> QED
      BY <1>1, <1>2, <1>3, <2>1, <3>1, <3>2 DEF Consumed
  <2>2. CASE Cancelled(s)
    BY <1>1, <1>2, <1>3, <2>2, Emptied DEF Cancelled
  <2>3. CASE Started(s) \/ Stopped(s)
    BY <1>1, <1>2, <1>3, <2>3 DEF Started, Stopped
  <2>4. CASE Taken(s)
    <3>1. Head(chan[s]) \in T /\ chan'[s] \in Seq(T)
      BY <1>3, <2>4, Tailed DEF Taken
    <3> QED
      BY <1>1, <1>2, <1>3, <2>4, <3>1 DEF Taken
  <2>5. CASE HandedOut(s)
    <3>1. out'[s] \in Seq(T)
      BY <1>1, <1>2, <1>3, <2>5, Appended DEF HandedOut
    <3> QED
      BY <1>1, <1>2, <1>3, <2>5, <3>1 DEF HandedOut
  <2>6. CASE RoutedOn(s)
    <3>1. chan'[s] \in Seq(T)
      BY <1>1, <1>2, <1>3, <2>6, Appended DEF RoutedOn
    <3> QED
      BY <1>1, <1>2, <1>3, <2>6, <3>1 DEF RoutedOn
  <2>7. CASE ReadOn(s)
    <3>1. Head(down) = down[1] /\ 1 \in 1..Len(down)
      BY <1>4, <2>7, Tailed DEF ReadOn
    <3>2. Head(down).id = s => Shown(Head(down)) \in T
      BY <1>1, <1>2, <3>1
    <3> QED
      BY <1>1, <1>2, <1>3, <2>7, <3>2 DEF ReadOn, Quiet
  <2>8. CASE SentNext(s) \/ Aside(s)
    BY <1>1, <1>2, <1>3, <2>8 DEF SentNext, Aside, Quiet
  <2> QED
    BY <2>1, <2>2, <2>3, <2>4, <2>5, <2>6, <2>7, <2>8, StreamSteps DEF StreamStep
<1>6. ASSUME NEW i \in 1..Len(down'), down'[i].id = s, NEW f, f = Shown(down'[i]) PROVE f \in T
  <2>1. CASE \E j \in 1..Len(down) : down'[i] = down[j]
    BY <1>1, <1>2, <1>6, <2>1 DEF Shown, Termination
  <2>2. CASE down' = Append(down, down'[i]) /\ i = Len(down) + 1
    <3> PICK g : g = down'[i]
      OBVIOUS
    <3>1. g \in Frames /\ down' = Append(down, g) /\ g.id = s
      BY <1>6, <2>2, WhereFramesComeFrom
    <3>2. down' # down /\ ~(down # <<>> /\ down' = Tail(down))
      <4>1. Len(down') = Len(down) + 1 /\ Len(down) \in Nat
        BY <1>4, <3>1, Appended
      <4>2. ASSUME down # <<>>, down' = Tail(down) PROVE Len(down') = Len(down) - 1
        BY <1>4, <4>2, Tailed
      <4> QED
        BY <4>1, <4>2
    <3>3. SentNext(s) \/ Aside(s)
      BY <3>2, StreamSteps DEF StreamStep, Consumed, Cancelled, Started, Taken, HandedOut, Stopped,
         RoutedOn, ReadOn
    <3>4. ASSUME NEW h \in Frames, down' = Append(down, h) PROVE h = g
      <4>1. g = down'[Len(down) + 1]
        BY <3>1, LastFrame
      <4>2. h = down'[Len(down) + 1]
        BY <3>4, LastFrame
      <4> QED
        BY <4>1, <4>2
    <3>5. ~Aside(s)
      BY <3>1, <3>2, <3>4 DEF Aside
    <3>6. PICK h \in Frames :
            /\ Shown(h) \in StreamFrames /\ Shown(h).id = s /\ Shown(h).n = peer'.sent[s]
            /\ Shown(h).final => peer'.hand = NoCmd
            /\ down' = Append(down, h)
      BY <3>3, <3>5 DEF SentNext
    <3>7. h = g
      BY <3>4, <3>6
    <3>8. f = Shown(h)
      BY <1>6, <3>7 DEF Shown, Termination
    <3> QED
      BY <3>3, <3>5, <3>6, <3>8, SentFramesStay
  <2> QED
    BY <2>1, <2>2, WhereFramesComeFrom
<1>7. Unsent(s)' => peer'.sent[s] = 0
  <2>1. Unsent(s)' => Unsent(s)
    BY SentStaysSent DEF Ids
  <2>2. Unsent(s) => ~SentNext(s)
    BY DEF RequestsTravelOnce, TravelsOnce, Travels, SentNext, Ids
  <2> QED
    BY <1>1, <1>2, <2>1, <2>2
<1> QED
  BY <1>5, <1>6, <1>7

(* A stream routed after the writer cleared the map never reaches the socket. *)
LEMMA HowRequestsAdvance ==
    ASSUME ClientTypes, [Next]_vars, NEW x \in Ids
    PROVE  /\ Holds(up', x) => Holds(up, x) \/ writer.cmd.id = x
           /\ peer'.hand.id = x => peer.hand.id = x \/ Holds(up, x)
           /\ writer'.at \in {"leaving", "gone"} =>
                writer.at \in {"leaving", "gone"} \/ active' = {}
<1>1. CASE UNCHANGED <<up, peer, writer>>
  BY <1>1
<1>2. CASE UNCHANGED <<up, peer>> /\ (writer'.at \notin {"leaving", "gone"} \/ active' = {}
                                       \/ writer.at = "leaving")
  BY <1>2
<1>3. CASE PeerSteps
  <2>1. UNCHANGED <<writer, active>>
    BY <1>3, PeersOwn
  <2>2. CASE PeerReads
    <3>1. up \in Seq(Commands) /\ up # <<>> /\ up' = Tail(up)
      BY <2>2 DEF PeerReads, ClientTypes, SocketTypes
    <3>2. Holds(up, x) <=> Holds(up', x) \/ Head(up).id = x
      BY <3>1, TailedHolds
    <3>3. peer'.hand = NoCmd \/ peer'.hand = Head(up)
      BY <2>2 DEF PeerReads, ClientTypes, SocketTypes
    <3> QED
      BY <2>1, <3>2, <3>3, CommandsMade
  <2>3. CASE PeerCloses
    <3>1. up' = <<>> /\ peer'.hand = NoCmd
      BY <2>3 DEF PeerCloses, ClientTypes, SocketTypes
    <3> QED
      BY <2>1, <3>1, EmptiedHolds, CommandsMade
  <2>4. ASSUME up' = up, peer'.hand \in {peer.hand, NoCmd}
        PROVE  Holds(up', x) => Holds(up, x)
    BY <2>4
  <2>5. CASE up' = up /\ peer'.hand \in {peer.hand, NoCmd}
    BY <2>1, <2>5, CommandsMade
  <2>6. CASE PeerDispatches \/ PeerPushes \/ PeerRefuses
    BY <2>5, <2>6 DEF PeerDispatches, PeerPushes, PeerRefuses, PeerSends, ClientTypes, SocketTypes
  <2>7. CASE PeerAnswers
    <3>1. up' = up /\ peer' = [peer EXCEPT !.hand = NoCmd]
      BY <2>7, HowThePeerAnswers DEF ClientTypes
    <3> QED
      BY <2>5, <3>1 DEF ClientTypes, SocketTypes
  <2>8. CASE PeerStreams
    BY <2>5, <2>8, HowThePeerStreams DEF ClientTypes
  <2> QED
    BY <1>3, <2>2, <2>3, <2>6, <2>7, <2>8 DEF PeerSteps, PeerServes
<1>4. CASE WriterWrites
  <2>1. UNCHANGED peer /\ writer'.at \in {"idle", "exiting"}
    BY <1>4 DEF WriterWrites
  <2>2. CASE up' = up
    BY <2>1, <2>2
  <2>3. CASE up' = Append(up, writer.cmd)
    <3>1. ASSUME NEW m \in Commands, up' = Append(up, m)
          PROVE  Holds(up', x) <=> Holds(up, x) \/ m.id = x
      BY <3>1, AppendedHolds DEF ClientTypes, SocketTypes
    <3>2. writer.cmd \in Commands
      BY <1>4 DEF WriterWrites, ClientTypes, TaskTypes
    <3> QED
      BY <2>1, <2>3, <3>1, <3>2
  <2> QED
    BY <1>4, <2>2, <2>3 DEF WriterWrites
<1>5. CASE WriterTakes \/ WriterCannotEncode \/ WriterFails \/ WriterClears \/ WriterGone \/ DropClient
  BY <1>2, <1>5 DEF WriterTakes, WriterCannotEncode, WriterFails, WriterClears, WriterGone,
     DropClient,
     ClientTypes, TaskTypes
<1>6. ASSUME NEW c \in Calls, StartCall(c) \/ CallRefused(c) \/ CallResolves(c) \/ CallTimesOut(c)
      PROVE  UNCHANGED <<up, peer, writer>>
  BY <1>6 DEF StartCall, CallRefused, CallResolves, CallTimesOut
<1>7. ASSUME NEW s \in Streams,
             \/ InsertStream(s) \/ SendStream(s) \/ StreamRefused(s) \/ Consume(s) \/ CancelStream(s)
             \/ Forwarder(s)
      PROVE  UNCHANGED <<up, peer, writer>>
  BY <1>7 DEF InsertStream, SendStream, StreamRefused, Consume, CancelStream, Forwarder,
     ForwarderTakes, ForwarderHands, ForwarderSeesEnd, ForwarderTimesOut
<1>8. \/ BeginDisconnect \/ Disconnecting \/ Reader \/ UNCHANGED vars
      => UNCHANGED <<up, peer, writer>>
  BY DEF BeginDisconnect, Disconnecting, DisconnectSends, FinishDisconnect, Reader, ReadFrame,
     ReadEnd, HandFrame, ReaderFails, ReaderClears, vars
<1> QED
  BY <1>1, <1>3, <1>4, <1>5, <1>6, <1>7, <1>8 DEF Next, CallerSteps, Writer

LEMMA LateStreamsStep ==
    ASSUME ClientTypes, CallersWait, RequestsTravelOnce, LateStreams, FramesWereSent, [Next]_vars
    PROVE  LateStreams'
<1> SUFFICES ASSUME writer'.at \in {"leaving", "gone"}, NEW s \in active'
             PROVE  peer'.sent[s] = 0 /\ ~Holds(up', s) /\ peer'.hand.id # s
  BY DEF LateStreams
<1>1. s \in Streams /\ s \in Ids /\ s # "none"
  <2>1. ClientTypes'
    BY TypesStep
  <2> QED
    BY <2>1, CommandsMade DEF ClientTypes, TaskTypes, Ids
<1>2. writer.at \in {"leaving", "gone"}
  BY <1>1, HowRequestsAdvance
<1>3. writer.cmd.id # s
  BY <1>1, <1>2 DEF ClientTypes, TaskTypes
<1>4. peer.sent[s] = 0 /\ ~Holds(up, s) /\ peer.hand.id # s
  <2>1. CASE s \in active
    BY <1>2, <2>1 DEF LateStreams
  <2>2. CASE Unsent(s)
    BY <1>1, <2>2 DEF FramesWereSent, RequestsTravelOnce, TravelsOnce, Travels
  <2>3. s \in active \/ Unsent(s)
    BY <1>1, StreamSteps DEF StreamStep, Consumed, Cancelled, Started, Taken, HandedOut, Stopped,
       RoutedOn, ReadOn, SentNext, Aside
  <2> QED
    BY <2>1, <2>2, <2>3
<1>5. peer'.sent[s] = peer.sent[s]
  BY <1>1, <1>4, SentFramesStay DEF SentNext
<1> QED
  BY <1>1, <1>3, <1>4, <1>5, HowRequestsAdvance

LEMMA NumbersAppended ==
    ASSUME NEW S, NEW q \in Seq(S), NEW f \in S, NEW r, r = Append(q, f),
           NEW k \in Nat, Numbered(q, k), NEW n, n = k + Size(q) + 1, f.n = n
    PROVE  Numbered(r, k)
<1>1. /\ Len(r) = Len(q) + 1 /\ Len(q) \in Nat /\ r[Len(q) + 1] = f
      /\ \A i \in 1..Len(q) : r[i] = q[i]
  BY Appended
<1>2. ASSUME NEW i \in 1..Len(r) PROVE r[i].n = k + i
  <2>1. f.n = k + (Len(q) + 1)
    BY <1>1 DEF Size
  <2>2. CASE i = Len(q) + 1
    BY <1>1, <2>1, <2>2
  <2>3. CASE i \in 1..Len(q)
    BY <1>1, <2>3 DEF Numbered
  <2> QED
    BY <1>1, <2>2, <2>3
<1> QED
  BY <1>2 DEF Numbered

LEMMA NumbersTailed ==
    ASSUME NEW S, NEW q \in Seq(S), q # <<>>, NEW r, r = Tail(q), NEW k \in Nat, Numbered(q, k)
    PROVE  /\ Head(q) \in S /\ Head(q).n = k + 1
           /\ Size(q) = Size(r) + 1 /\ Size(r) \in Nat /\ Numbered(r, k + 1)
<1>1. /\ Len(r) = Len(q) - 1 /\ Len(q) \in Nat /\ Len(q) >= 1 /\ Head(q) = q[1] /\ q[1] \in S
      /\ \A i \in 1..Len(r) : r[i] = q[i + 1]
  BY Tailed
<1>2. ASSUME NEW i \in 1..Len(r) PROVE r[i].n = k + 1 + i
  <2>1. i + 1 \in 1..Len(q) /\ r[i] = q[i + 1]
    BY <1>1
  <2>2. q[i + 1].n = k + (i + 1)
    BY <2>1 DEF Numbered
  <2> QED
    BY <2>1, <2>2
<1>3. q[1].n = k + 1
  BY <1>1 DEF Numbered
<1> QED
  BY <1>1, <1>2, <1>3 DEF Numbered, Size

(* Nothing of a stream whose peer sent nothing is anywhere. *)
LEMMA UnsentIsEmpty ==
    ASSUME ClientTypes, FramesWereSent, NEW s \in Streams, peer.sent[s] = 0
    PROVE  /\ Len(got[s]) = 0 /\ Len(out[s]) = 0 /\ Len(chan[s]) = 0
           /\ fwd[s].at # "handing" /\ reader.frame.id # s
           /\ \A i \in 1..Len(down) : down[i].id # s
<1>1. SentFrames(s) = {} /\ \A q \in Seq(SentFrames(s)) : Len(q) = 0
  BY NothingWasSent
<1> QED
  BY <1>1 DEF FramesWereSent

LEMMA StreamFacts ==
    ASSUME ClientTypes, NEW s \in Streams
    PROVE  /\ got[s] \in Seq(StreamFrames) /\ out[s] \in Seq(StreamFrames) /\ chan[s] \in Seq(StreamFrames)
           /\ Size(got[s]) \in Nat /\ Size(out[s]) \in Nat /\ Size(chan[s]) \in Nat
           /\ Delivered(s) \in Nat /\ Forwarded(s) \in Nat /\ Routed(s) \in Nat /\ Read(s) \in Nat
           /\ down \in Seq(Frames) /\ peer.sent[s] \in Nat
<1>1. got[s] \in Seq(StreamFrames) /\ out[s] \in Seq(StreamFrames) /\ chan[s] \in Seq(StreamFrames)
  BY DEF ClientTypes, ChannelTypes
<1>2. Size(got[s]) \in Nat /\ Size(out[s]) \in Nat /\ Size(chan[s]) \in Nat
  BY <1>1 DEF Size
<1>3. Delivered(s) \in Nat
  BY <1>2 DEF Delivered
<1>4. Forwarded(s) \in Nat
  BY <1>3 DEF Forwarded
<1>5. Routed(s) \in Nat
  BY <1>2, <1>4 DEF Routed
<1>6. Read(s) \in Nat
  BY <1>5 DEF Read
<1>7. down \in Seq(Frames) /\ peer.sent[s] \in Nat
  BY DEF ClientTypes, SocketTypes
<1> QED
  BY <1>1, <1>2, <1>3, <1>4, <1>5, <1>6, <1>7

(* What a step leaves where it was is as far as before; a frame that moves *)
(* on is the next where it comes.                                          *)
LEMMA OrderWhenMovedOn ==
    ASSUME ClientTypes, FramesWereSent, FramesAreInOrder, NEW s \in Streams,
           Consumed(s) \/ Started(s) \/ Taken(s) \/ HandedOut(s) \/ RoutedOn(s)
    PROVE  InOrder(s)' /\ (Heard(s)' /\ s \in active' => Follow(s)')
<1>0. got[s] \in Seq(StreamFrames) /\ out[s] \in Seq(StreamFrames) /\ chan[s] \in Seq(StreamFrames)
  BY StreamFacts
<1>1. /\ Size(got[s]) \in Nat /\ Size(out[s]) \in Nat /\ Size(chan[s]) \in Nat
      /\ Delivered(s) \in Nat /\ Forwarded(s) \in Nat /\ Routed(s) \in Nat
  BY StreamFacts
<1>2. /\ Numbered(got[s], 0) /\ Numbered(out[s], Size(got[s]))
      /\ Heard(s) =>
        /\ fwd[s].at = "handing" => fwd[s].frame.n = Delivered(s) + 1
        /\ Numbered(chan[s], Forwarded(s))
        /\ reader.frame.id = s => reader.frame.n = Routed(s) + 1
  BY DEF FramesAreInOrder, InOrder
<1>3. Heard(s) /\ s \in active => Follow(s)
  BY DEF FramesAreInOrder
<1>4. UNCHANGED <<down, peer>> /\ active' \subseteq active /\ (Heard(s)' => Heard(s))
  BY DEF Consumed, Started, Taken, HandedOut, RoutedOn, Heard
<1>5. ASSUME Read(s)' = Read(s) PROVE Heard(s)' /\ s \in active' => Follow(s)'
  BY <1>3, <1>4, <1>5 DEF Follow
<1>6. CASE Consumed(s)
  <2>1. /\ Head(out[s]) \in StreamFrames /\ Head(out[s]).n = Size(got[s]) + 1
        /\ Size(out[s]) = Size(out'[s]) + 1 /\ Size(out'[s]) \in Nat
        /\ Numbered(out'[s], Size(got[s]) + 1)
    BY <1>0, <1>1, <1>2, <1>6, NumbersTailed DEF Consumed
  <2>2. Head(out[s]).n = 0 + Size(got[s]) + 1 /\ 0 \in Nat
    BY <1>1, <2>1
  <2>3. Size(got'[s]) = Size(got[s]) + 1 /\ Numbered(got'[s], 0)
    <3> PICK f, q, r : f = Head(out[s]) /\ q = got[s] /\ r = got'[s]
      OBVIOUS
    <3>1. /\ q \in Seq(StreamFrames) /\ f \in StreamFrames /\ r = Append(q, f)
          /\ Numbered(q, 0) /\ f.n = 0 + Size(q) + 1
      BY <1>0, <1>2, <1>6, <2>1, <2>2 DEF Consumed
    <3>2. Numbered(r, 0)
      BY <2>2, <3>1, NumbersAppended
    <3>3. Size(r) = Size(q) + 1
      BY <3>1, Appended DEF Size
    <3> QED
      BY <3>2, <3>3
  <2>5. Delivered(s)' = Delivered(s)
    BY <1>1, <2>1, <2>3 DEF Delivered
  <2>6. Forwarded(s)' = Forwarded(s)
    BY <1>6, <2>5 DEF Consumed, Forwarded
  <2>7. Routed(s)' = Routed(s)
    BY <1>6, <2>6 DEF Consumed, Routed
  <2>8. Read(s)' = Read(s)
    BY <1>6, <2>7 DEF Consumed, Read
  <2> QED
    BY <1>2, <1>4, <1>5, <1>6, <2>1, <2>3, <2>5, <2>6, <2>7, <2>8 DEF Consumed, InOrder
<1>7. CASE Started(s)
  <2>1. Delivered(s)' = Delivered(s) /\ Forwarded(s)' = Forwarded(s)
    BY <1>7 DEF Started, Delivered, Forwarded
  <2>2. Routed(s)' = Routed(s) /\ Read(s)' = Read(s)
    BY <1>7, <2>1 DEF Started, Routed, Read
  <2> QED
    BY <1>2, <1>4, <1>5, <1>7, <2>1, <2>2 DEF Started, InOrder
<1>8. CASE Taken(s)
  <2>1. Delivered(s)' = Delivered(s)
    BY <1>8 DEF Taken, Delivered
  <2>2. Forwarded(s) = Delivered(s) /\ Forwarded(s)' = Delivered(s) + 1
    BY <1>1, <1>8, <2>1 DEF Taken, Forwarded
  <2>3. /\ Size(chan[s]) = Size(chan'[s]) + 1 /\ Size(chan'[s]) \in Nat
        /\ Heard(s) => Head(chan[s]).n = Forwarded(s) + 1 /\ Numbered(chan'[s], Forwarded(s) + 1)
    <3>1. Heard(s) => Head(chan[s]).n = Forwarded(s) + 1 /\ Numbered(chan'[s], Forwarded(s) + 1)
      BY <1>0, <1>1, <1>2, <1>8, NumbersTailed DEF Taken
    <3>2. Len(chan'[s]) = Len(chan[s]) - 1 /\ Len(chan[s]) \in Nat /\ Len(chan[s]) >= 1
      BY <1>0, <1>8, Tailed DEF Taken
    <3> QED
      BY <3>1, <3>2 DEF Size
  <2>4. Routed(s)' = Routed(s)
    BY <1>1, <2>2, <2>3 DEF Routed
  <2>5. Read(s)' = Read(s)
    BY <1>8, <2>4 DEF Taken, Read
  <2> QED
    BY <1>2, <1>4, <1>5, <1>8, <2>1, <2>2, <2>3, <2>4, <2>5 DEF Taken, InOrder
<1>9. CASE HandedOut(s)
  <2>1. Heard(s) /\ fwd[s].frame \in StreamFrames
    BY <1>9 DEF HandedOut, Heard, ClientTypes, ChannelTypes
  <2>2. fwd[s].frame.n = Size(got[s]) + Size(out[s]) + 1
    BY <1>1, <1>2, <1>9, <2>1 DEF HandedOut, Delivered
  <2>3. Numbered(out'[s], Size(got[s])) /\ Size(out'[s]) = Size(out[s]) + 1
    <3> PICK f, q, r, k : f = fwd[s].frame /\ q = out[s] /\ r = out'[s] /\ k = Size(got[s])
      OBVIOUS
    <3>1. q \in Seq(StreamFrames) /\ f \in StreamFrames /\ r = Append(q, f) /\ k \in Nat
      BY <1>0, <1>1, <1>9, <2>1 DEF HandedOut
    <3>4. Numbered(q, k) /\ f.n = k + Size(q) + 1
      BY <1>2, <2>2
    <3>2. Numbered(r, k)
      <4> PICK n : n = k + Size(q) + 1
        OBVIOUS
      <4>1. f.n = n
        BY <3>4
      <4> QED
        BY <3>1, <3>4, <4>1, NumbersAppended
    <3>3. Size(r) = Size(q) + 1
      BY <3>1, Appended DEF Size
    <3> QED
      BY <3>2, <3>3
  <2>4. Delivered(s)' = Delivered(s) + 1
    BY <1>1, <1>9, <2>3 DEF HandedOut, Delivered
  <2>5. Forwarded(s)' = Forwarded(s)
    <3>1. Forwarded(s) = Delivered(s) + 1
      BY <1>9 DEF HandedOut, Forwarded
    <3>2. fwd'[s].at # "handing"
      BY <1>9 DEF HandedOut
    <3>4. Delivered(s)' \in Nat
      BY <1>1, <2>4
    <3>3. Forwarded(s)' = Delivered(s)'
      BY <3>2, <3>4 DEF Forwarded
    <3> QED
      BY <2>4, <3>1, <3>3
  <2>6. Routed(s)' = Routed(s)
    BY <1>9, <2>5 DEF HandedOut, Routed
  <2>7. Read(s)' = Read(s)
    BY <1>9, <2>6 DEF HandedOut, Read
  <2> QED
    BY <1>2, <1>4, <1>5, <1>9, <2>1, <2>3, <2>5, <2>6, <2>7 DEF HandedOut, InOrder
<1>10. CASE RoutedOn(s)
  <2>1. reader.frame \in StreamFrames
    BY <1>10 DEF RoutedOn, FramesWereSent, SentFrames
  <2>2. Delivered(s)' = Delivered(s) /\ Forwarded(s)' = Forwarded(s)
    BY <1>10 DEF RoutedOn, Delivered, Forwarded
  <2>3. Size(chan'[s]) = Size(chan[s]) + 1
    BY <1>0, <1>10, <2>1, Appended DEF RoutedOn, Size
  <2>4. Routed(s)' = Routed(s) + 1
    BY <1>1, <2>2, <2>3 DEF Routed
  <2>5. Read(s)' = Read(s)
    BY <1>1, <1>10, <2>4 DEF RoutedOn, Read
  <2>6. Heard(s) => Numbered(chan'[s], Forwarded(s))
    <3>1. Heard(s) => reader.frame.n = Forwarded(s) + Size(chan[s]) + 1
      BY <1>2, <1>10 DEF RoutedOn, Routed
    <3> PICK f, q, r, k : f = reader.frame /\ q = chan[s] /\ r = chan'[s] /\ k = Forwarded(s)
      OBVIOUS
    <3>2. q \in Seq(StreamFrames) /\ f \in StreamFrames /\ r = Append(q, f) /\ k \in Nat
      BY <1>0, <1>1, <1>10, <2>1 DEF RoutedOn
    <3>3. Heard(s) => Numbered(q, k) /\ f.n = k + Size(q) + 1
      BY <1>2, <3>1
    <3>4. Heard(s) => Numbered(r, k)
      BY <3>2, <3>3, NumbersAppended
    <3> QED
      BY <3>4
  <2> QED
    BY <1>2, <1>4, <1>5, <1>10, <2>2, <2>5, <2>6 DEF RoutedOn, InOrder
<1> QED
  BY <1>6, <1>7, <1>8, <1>9, <1>10

(* What has not changed since is as much in order. *)
LEMMA InOrderAsBefore ==
    ASSUME FramesAreInOrder, NEW s \in Streams, Quiet(s),
           reader'.frame.id = s => UNCHANGED reader.frame
    PROVE  InOrder(s)' /\ Routed(s)' = Routed(s) /\ (Heard(s)' <=> Heard(s))
<1>1. Delivered(s)' = Delivered(s) /\ Forwarded(s)' = Forwarded(s)
  BY DEF Quiet, Delivered, Forwarded
<1>2. Routed(s)' = Routed(s) /\ (Heard(s)' <=> Heard(s))
  BY <1>1 DEF Quiet, Routed, Heard
<1>3. InOrder(s)
  BY DEF FramesAreInOrder
<1> QED
  BY <1>1, <1>2, <1>3 DEF Quiet, InOrder

LEMMA OrderWhenReadOn ==
    ASSUME ClientTypes, FramesWereSent, FramesAreInOrder, NEW s \in Streams, ReadOn(s)
    PROVE  InOrder(s)' /\ (Heard(s)' /\ s \in active' => Follow(s)')
<1> PICK h : h = Head(down)
  OBVIOUS
<1>1. /\ down \in Seq(Frames) /\ Len(down) \in Nat /\ Len(down) >= 1
      /\ h = down[1] /\ Len(down') = Len(down) - 1
      /\ \A i \in 1..Len(down') : down'[i] = down[i + 1]
  BY Tailed DEF ReadOn, ClientTypes, SocketTypes
<1>2. Read(s) = Routed(s) /\ Routed(s) \in Nat /\ peer.sent[s] \in Nat
  BY StreamFacts DEF ReadOn, Read
<1>3. Quiet(s) /\ UNCHANGED <<peer, active>>
  BY DEF ReadOn
<1>4. CASE reader'.frame.id # s
  <2>1. InOrder(s)' /\ Routed(s)' = Routed(s) /\ (Heard(s)' <=> Heard(s))
    BY <1>3, <1>4, InOrderAsBefore
  <2>2. Read(s)' = Read(s)
    BY <1>2, <1>4, <2>1 DEF Read
  <2>3. ASSUME Heard(s), s \in active PROVE Follow(s)'
    <3>1. Follow(s) /\ h.id # s
      BY <1>4, <2>3 DEF FramesAreInOrder, ReadOn
    <3>2. ASSUME NEW n \in Nat, Read(s) < n, n <= peer.sent[s]
          PROVE  \E i \in 1..Len(down') : down'[i].id = s /\ Shown(down'[i]).n = n
      <4>1. PICK i \in 1..Len(down) : down[i].id = s /\ Shown(down[i]).n = n
        BY <3>1, <3>2 DEF Follow
      <4>2. i # 1
        BY <1>1, <3>1, <4>1
      <4>3. i - 1 \in 1..Len(down') /\ down'[i - 1] = down[(i - 1) + 1] /\ (i - 1) + 1 = i
        BY <1>1, <4>2
      <4>4. Shown(down'[i - 1]) = Shown(down[i])
        BY <4>3 DEF Shown, Termination
      <4> QED
        BY <4>1, <4>3, <4>4
    <3>3. ASSUME NEW i \in 1..Len(down'), down'[i].id = s PROVE Shown(down'[i]).n > Read(s)
      <4>1. i + 1 \in 1..Len(down) /\ down'[i] = down[i + 1]
        BY <1>1
      <4>2. Shown(down'[i]) = Shown(down[i + 1])
        BY <4>1 DEF Shown, Termination
      <4>3. Shown(down[i + 1]).n > Read(s)
        BY <3>1, <3>3, <4>1 DEF Follow
      <4> QED
        BY <4>2, <4>3
    <3>4. ASSUME NEW i \in 1..Len(down'), NEW j \in 1..Len(down'),
                 i < j, down'[i].id = s, down'[j].id = s
          PROVE  Shown(down'[i]).n < Shown(down'[j]).n
      <4>1. i + 1 \in 1..Len(down) /\ j + 1 \in 1..Len(down) /\ i + 1 < j + 1
        BY <1>1, <3>4
      <4>2. down'[i] = down[i + 1] /\ down'[j] = down[j + 1]
        BY <1>1
      <4>3. Shown(down'[i]) = Shown(down[i + 1]) /\ Shown(down'[j]) = Shown(down[j + 1])
        BY <4>2 DEF Shown, Termination
      <4>4. Shown(down[i + 1]).n < Shown(down[j + 1]).n
        BY <3>1, <3>4, <4>1, <4>2 DEF Follow
      <4> QED
        BY <4>3, <4>4
    <3>5. Read(s) <= peer.sent[s]
      BY <3>1 DEF Follow
    <3> QED
      BY <1>3, <2>2, <3>2, <3>3, <3>4, <3>5 DEF Follow, Shown, Termination
  <2> QED
    BY <1>3, <2>1, <2>3
<1>5. CASE reader'.frame.id = s
  <2>1. h.id = s /\ reader'.frame = Shown(h) /\ s \in active
    BY <1>5 DEF ReadOn
  <2>2. Delivered(s)' = Delivered(s) /\ Forwarded(s)' = Forwarded(s)
    BY <1>3 DEF Quiet, Delivered, Forwarded
  <2>3. Routed(s)' = Routed(s) /\ (Heard(s)' <=> Heard(s))
    BY <1>3, <2>2 DEF Quiet, Routed, Heard
  <2>4. Read(s)' = Routed(s) + 1
    BY <1>5, <2>3 DEF Read
  <2>5. ASSUME Heard(s) PROVE Shown(h).n = Routed(s) + 1 /\ Follow(s)
    <3>1. Follow(s)
      BY <2>1, <2>5 DEF FramesAreInOrder
    <3>2. 1 \in 1..Len(down) /\ down[1].id = s
      BY <1>1, <2>1
    <3>3. Shown(down[1]).n \in 1..peer.sent[s]
      BY <3>2 DEF FramesWereSent, SentFrames
    <3>4. Shown(down[1]).n > Routed(s)
      BY <1>2, <3>1, <3>2 DEF Follow
    <3>5. Routed(s) + 1 \in Nat /\ Routed(s) < Routed(s) + 1 /\ Routed(s) + 1 <= peer.sent[s]
      BY <1>2, <3>3, <3>4
    <3>6. PICK i \in 1..Len(down) : down[i].id = s /\ Shown(down[i]).n = Routed(s) + 1
      BY <1>2, <3>1, <3>5 DEF Follow
    <3>7. CASE i = 1
      BY <1>1, <3>1, <3>6, <3>7
    <3>8. CASE i > 1
      <4>1. Shown(down[1]).n < Shown(down[i]).n
        BY <3>1, <3>2, <3>6, <3>8 DEF Follow
      <4> QED
        BY <1>2, <3>3, <3>4, <3>6, <4>1
    <3> QED
      BY <1>1, <3>6, <3>7, <3>8
  <2>6. InOrder(s)'
    <3>1. InOrder(s)
      BY DEF FramesAreInOrder
    <3> QED
      BY <1>3, <2>1, <2>2, <2>3, <2>5, <3>1 DEF Quiet, InOrder
  <2>7. ASSUME Heard(s) PROVE Follow(s)'
    <3>1. Follow(s) /\ Shown(h).n = Routed(s) + 1
      BY <2>5, <2>7
    <3>2. 1 \in 1..Len(down) /\ down[1].id = s /\ Shown(down[1]).n = Routed(s) + 1
      BY <1>1, <2>1, <3>1
    <3>3. Routed(s) + 1 <= peer.sent[s]
      <4>1. Shown(down[1]).n \in 1..peer.sent[s]
        BY <3>2 DEF FramesWereSent, SentFrames
      <4> QED
        BY <1>2, <3>2, <4>1
    <3>4. ASSUME NEW i \in 1..Len(down'), down'[i].id = s PROVE Shown(down'[i]).n > Routed(s) + 1
      <4>1. i + 1 \in 1..Len(down) /\ 1 < i + 1 /\ down'[i] = down[i + 1]
        BY <1>1
      <4>2. Shown(down[1]).n < Shown(down[i + 1]).n
        BY <3>1, <3>2, <3>4, <4>1 DEF Follow
      <4>3. Shown(down'[i]) = Shown(down[i + 1]) /\ Shown(down[i + 1]).n \in 1..peer.sent[s]
        BY <3>4, <4>1 DEF FramesWereSent, SentFrames, Shown, Termination
      <4> QED
        BY <1>2, <3>2, <4>2, <4>3
    <3>5. ASSUME NEW i \in 1..Len(down'), NEW j \in 1..Len(down'),
                 i < j, down'[i].id = s, down'[j].id = s
          PROVE  Shown(down'[i]).n < Shown(down'[j]).n
      <4>1. i + 1 \in 1..Len(down) /\ j + 1 \in 1..Len(down) /\ i + 1 < j + 1
        BY <1>1, <3>5
      <4>2. down'[i] = down[i + 1] /\ down'[j] = down[j + 1]
        BY <1>1
      <4>3. Shown(down'[i]) = Shown(down[i + 1]) /\ Shown(down'[j]) = Shown(down[j + 1])
        BY <4>2 DEF Shown, Termination
      <4>4. Shown(down[i + 1]).n < Shown(down[j + 1]).n
        BY <3>1, <3>5, <4>1, <4>2 DEF Follow
      <4> QED
        BY <4>3, <4>4
    <3>6. ASSUME NEW n \in Nat, Routed(s) + 1 < n, n <= peer.sent[s]
          PROVE  \E i \in 1..Len(down') : down'[i].id = s /\ Shown(down'[i]).n = n
      <4>1. Routed(s) < n
        BY <1>2, <3>6
      <4>2. PICK i \in 1..Len(down) : down[i].id = s /\ Shown(down[i]).n = n
        BY <1>2, <3>1, <3>6, <4>1 DEF Follow
      <4>3. i # 1
        BY <1>2, <3>2, <3>6, <4>2
      <4>4. i - 1 \in 1..Len(down') /\ down'[i - 1] = down[(i - 1) + 1] /\ (i - 1) + 1 = i
        BY <1>1, <4>3
      <4>5. Shown(down'[i - 1]) = Shown(down[i])
        BY <4>4 DEF Shown, Termination
      <4> QED
        BY <4>2, <4>4, <4>5
    <3> QED
      BY <1>3, <2>4, <3>3, <3>4, <3>5, <3>6 DEF Follow, Shown, Termination
  <2> QED
    BY <2>3, <2>6, <2>7
<1> QED
  BY <1>4, <1>5

LEMMA OrderWhenSentNext ==
    ASSUME ClientTypes, FramesWereSent, FramesAreInOrder, NEW s \in Streams, SentNext(s)
    PROVE  InOrder(s)' /\ (Heard(s)' /\ s \in active' => Follow(s)')
<1>1. Quiet(s) /\ UNCHANGED <<reader, active>> /\ peer'.sent[s] = peer.sent[s] + 1
  BY DEF SentNext
<1>2. InOrder(s)' /\ Routed(s)' = Routed(s) /\ (Heard(s)' <=> Heard(s))
  BY <1>1, InOrderAsBefore
<1>3. Read(s)' = Read(s) /\ Read(s) \in Nat /\ peer.sent[s] \in Nat
  BY <1>1, <1>2, StreamFacts DEF Read
<1>4. PICK f \in Frames : f.id = s /\ Shown(f).n = peer'.sent[s] /\ down' = Append(down, f)
  BY DEF SentNext
<1>5. /\ Len(down) \in Nat /\ Len(down') = Len(down) + 1 /\ down'[Len(down) + 1] = f
      /\ \A i \in 1..Len(down) : down'[i] = down[i]
  BY <1>4, Appended DEF ClientTypes, SocketTypes
<1>6. \A i \in 1..Len(down') : i \in 1..Len(down) \/ i = Len(down) + 1
  BY <1>5
<1>7. ASSUME NEW i \in 1..Len(down) PROVE i \in 1..Len(down') /\ Shown(down'[i]) = Shown(down[i])
  <2>1. i \in 1..Len(down') /\ down'[i] = down[i]
    BY <1>5
  <2> QED
    BY <2>1 DEF Shown, Termination
<1>8. /\ Len(down) + 1 \in 1..Len(down') /\ down'[Len(down) + 1].id = s
      /\ Shown(down'[Len(down) + 1]).n = peer.sent[s] + 1
  <2>1. Len(down) + 1 \in 1..Len(down') /\ down'[Len(down) + 1] = f
    BY <1>5
  <2>2. Shown(down'[Len(down) + 1]) = Shown(f)
    BY <2>1 DEF Shown, Termination
  <2> QED
    BY <1>1, <1>4, <2>1, <2>2
<1>9. \A i \in 1..Len(down) : down[i].id = s => Shown(down[i]).n \in 1..peer.sent[s]
  BY DEF FramesWereSent, SentFrames
<1>10. ASSUME Heard(s), s \in active PROVE Follow(s)'
  <2>1. Follow(s)
    BY <1>10 DEF FramesAreInOrder
  <2>2. Read(s) <= peer.sent[s] + 1
    BY <1>3, <2>1 DEF Follow
  <2>3. ASSUME NEW i \in 1..Len(down'), down'[i].id = s PROVE Shown(down'[i]).n > Read(s)
    <3>1. CASE i \in 1..Len(down)
      <4>1. down[i].id = s /\ Shown(down'[i]) = Shown(down[i])
        BY <1>5, <1>7, <2>3, <3>1
      <4> QED
        BY <2>1, <3>1, <4>1 DEF Follow
    <3>2. CASE i = Len(down) + 1
      <4>1. Read(s) <= peer.sent[s]
        BY <2>1 DEF Follow
      <4> QED
        BY <1>3, <1>8, <3>2, <4>1
    <3> QED
      BY <1>6, <3>1, <3>2
  <2>4. ASSUME NEW i \in 1..Len(down'), NEW j \in 1..Len(down'), i < j, down'[i].id = s,
               down'[j].id = s
        PROVE  Shown(down'[i]).n < Shown(down'[j]).n
    <3>1. i \in 1..Len(down)
      BY <1>5, <2>4
    <3>2. down[i].id = s /\ Shown(down'[i]) = Shown(down[i])
      BY <1>5, <1>7, <2>4, <3>1
    <3>3. CASE j \in 1..Len(down)
      <4>1. down[j].id = s /\ Shown(down'[j]) = Shown(down[j])
        BY <1>5, <1>7, <2>4, <3>3
      <4>2. Shown(down[i]).n < Shown(down[j]).n
        BY <2>1, <2>4, <3>1, <3>2, <3>3, <4>1 DEF Follow
      <4> QED
        BY <3>2, <4>1, <4>2
    <3>4. CASE j = Len(down) + 1
      <4>1. Shown(down[i]).n \in 1..peer.sent[s]
        BY <1>9, <3>1, <3>2
      <4> QED
        BY <1>3, <1>8, <3>2, <3>4, <4>1
    <3> QED
      BY <1>6, <3>3, <3>4
  <2>5. ASSUME NEW n \in Nat, Read(s) < n, n <= peer.sent[s] + 1
        PROVE  \E i \in 1..Len(down') : down'[i].id = s /\ Shown(down'[i]).n = n
    <3>1. CASE n = peer.sent[s] + 1
      BY <1>8, <3>1
    <3>2. CASE n <= peer.sent[s]
      <4>1. PICK i \in 1..Len(down) : down[i].id = s /\ Shown(down[i]).n = n
        BY <2>1, <2>5, <3>2 DEF Follow
      <4>2. i \in 1..Len(down') /\ down'[i] = down[i] /\ Shown(down'[i]) = Shown(down[i])
        BY <1>5, <1>7
      <4> QED
        BY <4>1, <4>2
    <3> QED
      BY <1>3, <2>5, <3>1, <3>2
  <2> QED
    BY <1>1, <1>3, <2>2, <2>3, <2>4, <2>5 DEF Follow, Shown, Termination
<1> QED
  BY <1>1, <1>2, <1>10

LEMMA OrderWhenAside ==
    ASSUME ClientTypes, LateStreams, FramesWereSent, FramesAreInOrder, NEW s \in Streams, Aside(s)
    PROVE  InOrder(s)' /\ (Heard(s)' /\ s \in active' => Follow(s)')
<1>1. Quiet(s) /\ peer'.sent[s] = peer.sent[s]
  BY DEF Aside
<1>2. InOrder(s)' /\ Routed(s)' = Routed(s) /\ (Heard(s)' <=> Heard(s))
  BY <1>1, InOrderAsBefore DEF Aside
<1>3. ASSUME Heard(s), s \in active' PROVE Follow(s)'
  <2>2. Read(s)' = Read(s) /\ Follow(s)
    <3>1. ASSUME peer.sent[s] = 0 PROVE Read(s) = 0 /\ Follow(s) /\ reader.frame.id # s
      <4>1. /\ Len(got[s]) = 0 /\ Len(out[s]) = 0 /\ Len(chan[s]) = 0
            /\ fwd[s].at # "handing" /\ reader.frame.id # s
            /\ \A i \in 1..Len(down) : down[i].id # s
        BY <3>1, UnsentIsEmpty
      <4>2. Delivered(s) = 0 /\ Forwarded(s) = 0
        BY <4>1 DEF Delivered, Forwarded, Size
      <4>3. Read(s) = 0
        BY <4>1, <4>2 DEF Routed, Read, Size
      <4> QED
        BY <3>1, <4>1, <4>3 DEF Follow
    <3>2. CASE s \in active
      <4>1. Follow(s)
        BY <1>3, <3>2 DEF FramesAreInOrder
      <4>2. writer.at = "gone" => reader.frame.id # s
        BY <3>1, <3>2 DEF LateStreams
      <4>3. reader'.frame.id = s <=> reader.frame.id = s
        BY <1>3, <4>2 DEF Aside, Heard
      <4> QED
        BY <1>2, <4>1, <4>3 DEF Read
    <3>3. CASE s \notin active
      <4>1. Unsent(s) /\ UNCHANGED reader
        BY <1>3, <3>3 DEF Aside
      <4>2. peer.sent[s] = 0
        BY <4>1 DEF FramesWereSent
      <4> QED
        BY <1>2, <3>1, <4>1, <4>2 DEF Read
    <3> QED
      BY <3>2, <3>3
  <2>3. CASE down' = down
    BY <1>1, <2>2, <2>3 DEF Follow
  <2>4. ASSUME NEW f \in Frames, f.id # s, down' = Append(down, f) PROVE Follow(s)'
    <3>1. /\ Len(down) \in Nat /\ Len(down') = Len(down) + 1 /\ down'[Len(down) + 1] = f
          /\ \A i \in 1..Len(down) : down'[i] = down[i]
      BY <2>4, Appended DEF ClientTypes, SocketTypes
    <3>2. ASSUME NEW i \in 1..Len(down'), down'[i].id = s
          PROVE  i \in 1..Len(down) /\ down[i].id = s /\ Shown(down'[i]) = Shown(down[i])
      <4>1. i \in 1..Len(down)
        BY <2>4, <3>1, <3>2
      <4> QED
        BY <3>1, <3>2, <4>1 DEF Shown, Termination
    <3>3. ASSUME NEW n \in Nat, Read(s) < n, n <= peer.sent[s]
          PROVE  \E i \in 1..Len(down') : down'[i].id = s /\ Shown(down'[i]).n = n
      <4>1. PICK i \in 1..Len(down) : down[i].id = s /\ Shown(down[i]).n = n
        BY <2>2, <3>3 DEF Follow
      <4>2. i \in 1..Len(down') /\ down'[i] = down[i]
        BY <3>1
      <4>3. Shown(down'[i]) = Shown(down[i])
        BY <4>2 DEF Shown, Termination
      <4> QED
        BY <4>1, <4>2, <4>3
    <3>4. ASSUME NEW i \in 1..Len(down'), down'[i].id = s PROVE Shown(down'[i]).n > Read(s)
      BY <2>2, <3>2, <3>4 DEF Follow
    <3>5. ASSUME NEW i \in 1..Len(down'), NEW j \in 1..Len(down'), i < j,
                 down'[i].id = s, down'[j].id = s
          PROVE  Shown(down'[i]).n < Shown(down'[j]).n
      BY <2>2, <3>2, <3>5 DEF Follow
    <3>6. Read(s) <= peer.sent[s]
      BY <2>2 DEF Follow
    <3> QED
      BY <1>1, <2>2, <3>3, <3>4, <3>5, <3>6 DEF Follow, Shown, Termination
  <2> QED
    BY <2>3, <2>4 DEF Aside
<1> QED
  BY <1>2, <1>3

LEMMA OrderStep ==
    ASSUME ClientTypes, CallersWait, LateStreams, FramesWereSent, FramesAreInOrder, [Next]_vars
    PROVE  FramesAreInOrder'
<1> SUFFICES ASSUME NEW s \in Streams
             PROVE  InOrder(s)' /\ (Heard(s)' /\ s \in active' => Follow(s)')
  BY DEF FramesAreInOrder
<1>1. CASE Cancelled(s) \/ Stopped(s)
  <2>1. ~Heard(s)' /\ got'[s] = got[s] /\ (out'[s] = out[s] \/ out'[s] = <<>>)
    BY <1>1 DEF Cancelled, Stopped, Heard
  <2>2. Numbered(got[s], 0) /\ Numbered(out[s], Size(got[s]))
    BY DEF FramesAreInOrder, InOrder
  <2>3. Numbered(<<>>, Size(got[s]))
    BY DEF Numbered
  <2> QED
    BY <2>1, <2>2, <2>3 DEF InOrder
<1>2. CASE Consumed(s) \/ Started(s) \/ Taken(s) \/ HandedOut(s) \/ RoutedOn(s)
  BY <1>2, OrderWhenMovedOn
<1>3. CASE ReadOn(s)
  BY <1>3, OrderWhenReadOn
<1>4. CASE SentNext(s)
  BY <1>4, OrderWhenSentNext
<1>5. CASE Aside(s)
  BY <1>5, OrderWhenAside
<1> QED
  BY <1>1, <1>2, <1>3, <1>4, <1>5, StreamSteps DEF StreamStep

-----------------------------------------------------------------------------
(* The invariant.                                                          *)

LEMMA InitInv ==
    ASSUME Init
    PROVE  ClientInv
<1> USE DEF Init
<1>1. \A x : ~Holds(<<>>, x) /\ Once(<<>>, x)
  BY EmptiedHolds
<1>2. NoCmd.id = "none" /\ NoCmd.kind = "none" /\ NoFrame.id = "none" /\ NoFrame \notin StreamFrames
      /\ "none" \notin Ids
  BY CommandsMade, StreamFrameFields
<1>3. /\ peer.at \in {"open", "refusing"} /\ peer.hand = NoCmd /\ peer.ran = {}
      /\ peer.sent = [s \in Streams |-> 0]
      /\ peer \in [at : {"open", "refusing"}, hand : {NoCmd}, sent : [Streams -> Nat], ran : {{}}]
  OBVIOUS
<1>4. CallTypes
  BY DEF CallTypes
<1>5. TaskTypes
  BY <1>2, ClientAssumption, Emptied DEF TaskTypes
<1>6. ChannelTypes
  BY <1>2, ClientAssumption, Emptied DEF ChannelTypes
<1>7. SocketTypes
  BY <1>3, Emptied DEF SocketTypes
<1>8. CallersWait
  BY DEF CallersWait
<1>9. RequestsTravelOnce
  BY <1>1, <1>2, <1>3 DEF RequestsTravelOnce, TravelsOnce, Travels
<1>10. OpenCallsAreKept
  BY DEF OpenCallsAreKept
<1>11. AnswersAreTrue
  BY <1>3 DEF AnswersAreTrue, Truthful
<1>12. RefusalIsFinal
  BY <1>3 DEF RefusalIsFinal
<1>13. LateStreams
  BY DEF LateStreams
<1>14. FramesWereSent
  BY <1>2, <1>3, Emptied DEF FramesWereSent, Ids
<1>15. ASSUME NEW s \in Streams PROVE InOrder(s) /\ s \notin active
  <2>1. Numbered(<<>>, 0) /\ \A k : Numbered(<<>>, k)
    BY DEF Numbered
  <2> QED
    BY <1>2, <2>1 DEF InOrder, Ids
<1> QED
  BY <1>4, <1>5, <1>6, <1>7, <1>8, <1>9, <1>10, <1>11, <1>12, <1>13, <1>14, <1>15
     DEF ClientInv, ClientTypes, FramesAreInOrder

LEMMA StepInv ==
    ASSUME ClientInv, [Next]_vars
    PROVE  ClientInv'
BY TypesStep, CallersWaitStep, TravelSteps, OpenCallsStep, TruthStep, RefusalStep, LateStreamsStep,
   FramesWereSentStep, OrderStep
   DEF ClientInv, RequestsTravelOnce, Onward

LEMMA InvHolds == Spec => []ClientInv
<1>1. Init => ClientInv
  BY InitInv
<1>2. ClientInv /\ [Next]_vars => ClientInv'
  BY StepInv
<1> QED
  BY <1>1, <1>2, PTL DEF Spec

(* What RemoteActorRef's caller is told comes down to what the call was.   *)
LEMMA WhatAnAskSays ==
    ASSUME NEW outcome \in Outcomes
    PROVE  /\ AskResult(outcome) \in {"PeerRejected", "Undeliverable"} =>
                outcome \in {"refused", "limit", "unencodable"}
           /\ AskResult(outcome) \in {"Ok", "NoReply"} => outcome \in {"reply", "no_reply"}
BY DEF AskResult, ClassifyResponse, ClassifyIpcError, Outcomes, Answers

LEMMA InvIsConsistent ==
    ASSUME ClientInv
    PROVE  ClientIsConsistent
<1> USE DEF ClientInv
<1>1. ClientTypeOK
  BY DEF ClientTypeOK, ClientTypes, CallTypes, TaskTypes, ChannelTypes
<1>2. NoCallIsOrphaned
  BY DEF NoCallIsOrphaned, OpenCallsAreKept, Holds, Queued
<1>3. SurvivorsNeverStarted
  <2> SUFFICES ASSUME writer.at = "gone", NEW s \in active PROVE peer.sent[s] = 0 /\ chan[s] = <<>>
    BY DEF SurvivorsNeverStarted
  <2>1. s \in Streams /\ peer.sent[s] = 0
    BY DEF LateStreams, ClientTypes, TaskTypes
  <2>2. chan[s] \in Seq(StreamFrames) /\ Len(chan[s]) = 0
    BY <2>1, UnsentIsEmpty DEF ClientTypes, ChannelTypes
  <2> QED
    BY <2>1, <2>2
<1>4. AskErrorsTellTheTruth
  <2> SUFFICES ASSUME NEW c \in Calls, call[c] \in Outcomes
               PROVE  /\ AskResult(call[c]) \in {"PeerRejected", "Undeliverable"} => c \notin peer.ran
                      /\ AskResult(call[c]) \in {"Ok", "NoReply"} => c \in peer.ran
    BY DEF AskErrorsTellTheTruth
  <2>1. Truthful(call[c], c)
    BY DEF AnswersAreTrue
  <2>2. call[c] \in {"refused", "limit", "unencodable"} => c \notin peer.ran
    BY <2>1 DEF Truthful, RefusalIsFinal
  <2>3. call[c] \in {"reply", "no_reply"} => c \in peer.ran
    BY <2>1 DEF Truthful
  <2> QED
    BY <2>2, <2>3, WhatAnAskSays
<1> QED
  BY <1>1, <1>2, <1>3, <1>4 DEF ClientIsConsistent

LEMMA InvIsIntact ==
    ASSUME ClientInv
    PROVE  StreamIsIntact
<1> SUFFICES ASSUME NEW s \in Streams, NEW i \in 1..Len(got[s])
             PROVE  /\ got[s][i].n = i /\ got[s][i].id = s
                    /\ got[s][i].final => i = Len(got[s]) /\ i = peer.sent[s]
  BY DEF StreamIsIntact
<1>1. got[s] \in Seq(SentFrames(s)) /\ Numbered(got[s], 0)
  BY DEF ClientInv, FramesWereSent, FramesAreInOrder, InOrder
<1>2. Len(got[s]) \in Nat /\ \A j \in 1..Len(got[s]) : got[s][j] \in SentFrames(s) /\ got[s][j].n = j
  BY <1>1 DEF Numbered
<1>3. /\ got[s][i].id = s /\ got[s][i].n = i
      /\ got[s][i].final => i = peer.sent[s]
  BY <1>2 DEF SentFrames
<1>4. Len(got[s]) \in 1..Len(got[s])
  BY <1>2
<1>5. got[s][Len(got[s])] \in SentFrames(s) /\ got[s][Len(got[s])].n = Len(got[s])
  BY <1>2, <1>4
<1>6. Len(got[s]) <= peer.sent[s]
  BY <1>5 DEF SentFrames
<1> QED
  BY <1>2, <1>3, <1>6

(* The answer that is read for a call was asked for by it, and is under    *)
(* its correlation id.                                                     *)
LEMMA AnswersReach ==
    ASSUME ClientInv, [Next]_vars, NEW c \in Calls,
           reader.at = "reading", down # <<>>, down' = Tail(down),
           Head(down).id = c, Head(down).kind \in Answers, slot[c] = "open"
    PROVE  slot'[c] = Head(down).kind
<1> USE DEF ClientInv
<1>1. down \in Seq(Frames) /\ down' # down /\ \A f \in Frames : down' # Append(down, f)
  <2>1. down \in Seq(Frames)
    BY DEF ClientTypes, SocketTypes
  <2>2. Len(down') = Len(down) - 1 /\ Len(down) \in Nat
    BY <2>1, Tailed
  <2>3. ASSUME NEW f \in Frames, down' = Append(down, f) PROVE FALSE
    <3>1. Len(down') = Len(down) + 1
      BY <2>1, <2>3, Appended
    <3> QED
      BY <2>2, <3>1
  <2>4. ASSUME NEW S, NEW q \in Seq(S), q # <<>>, NEW r, r = Tail(q) PROVE r # q
    <3>1. Len(r) = Len(q) - 1 /\ Len(q) \in Nat
      BY <2>4, Tailed
    <3> PICK n : n = Len(q)
      OBVIOUS
    <3>2. n - 1 # n
      BY <3>1
    <3> QED
      BY <3>1, <3>2, Zenon
  <2>5. down' # down
    BY <2>1, <2>4
  <2> QED
    BY <2>1, <2>3, <2>5
<1>2. ReadFrame
  BY <1>1, WhatWasDoneStays
<1>3. 1 \in 1..Len(down) /\ Head(down) = down[1]
  BY <1>1, Tailed
<1>4. ~Travels(c)
  BY <1>3 DEF AnswersAreTrue
<1>5. c \in pending
  BY <1>4 DEF OpenCallsAreKept, Travels
<1> PICK f : f = Head(down)
  OBVIOUS
<1>6. slot' = Told({f.id}, f.kind)
  BY <1>2, <1>5 DEF ReadFrame, ResponseFrame, StreamFrame, PushFrame, BadFrame, Answers
<1> QED
  BY <1>6 DEF Told

-----------------------------------------------------------------------------

(* The client's tables are consistent, whichever task goes down first: a   *)
(* call that has heard nothing is kept by someone who will tell it         *)
(* (fail_pending_requests in both tasks), a stream routed too late never   *)
(* started, and an ask told that nothing ran is told the truth             *)
(* (AskError::PeerRejected), for any number of calls and streams.          *)
THEOREM ClientHoldsTogether == Spec => []ClientIsConsistent
<1>1. ClientInv => ClientIsConsistent
  BY InvIsConsistent
<1> QED
  BY <1>1, InvHolds, PTL

(* Whatever the consumer of a stream received is, without a gap, what the  *)
(* peer sent from its first frame, and all of it once a frame was final    *)
(* (request_stream, run_stream_forwarder), for any capacities.             *)
THEOREM StreamsArriveIntact == Spec => []StreamIsIntact
<1>1. ClientInv => StreamIsIntact
  BY InvIsIntact
<1> QED
  BY <1>1, InvHolds, PTL

(* An answer read while its caller waits is what the caller is told        *)
(* (handle_response_frame): registration came before the frame.            *)
THEOREM AnswersReachTheirCallers == Spec => AnswerReachesItsCaller
<1>1. ClientInv /\ [Next]_vars =>
        [\A c \in Calls :
            /\ reader.at = "reading" /\ down # <<>> /\ down' = Tail(down)
            /\ Head(down).id = c /\ Head(down).kind \in Answers /\ slot[c] = "open"
            => slot'[c] = Head(down).kind]_vars
  BY AnswersReach
<1> QED
  BY <1>1, InvHolds, PTL DEF Spec, AnswerReachesItsCaller
=============================================================================
