------------------------------ MODULE IpcClient ------------------------------
(***************************************************************************)
(* One IPC client connection (ipc/client.rs).  Callers put commands on a   *)
(* bounded queue that a writer task sends to the socket; a reader task     *)
(* routes what comes back by correlation id: an answer to the call pending *)
(* under it, a stream frame through a bounded channel to the stream's      *)
(* forwarder, which applies the inter-frame deadline and hands it to the   *)
(* consumer.  Each call and each stream is made at most once.              *)
(***************************************************************************)
EXTENDS Naturals, Sequences, FiniteSets, SequencesExt

CONSTANTS
    Calls,      \* correlated requests: request, subscribe, discover, ...
    Streams,    \* streaming requests
    WriteCap,   \* writer_channel_capacity
    FrameCap,   \* DEFAULT_STREAM_CHANNEL_CAPACITY, of both channels of a stream
    SockCap,    \* frames one direction of the socket buffers
    MaxFrames,  \* bound: frames the peer sends on one stream
    MidStream,  \* bound: whether a push too large to read may come in the midst of a stream
    MayRefuse   \* whether the peer may refuse the connection at its limit

ASSUME ClientAssumption ==
    /\ Calls \cap Streams = {} /\ "none" \notin Calls \union Streams
    /\ {WriteCap, FrameCap, SockCap, MaxFrames} \subseteq Nat \ {0}
    /\ {MidStream, MayRefuse} \subseteq BOOLEAN

VARIABLES
    call,       \* what each caller knows: "idle", "waiting" or how it ended
    slot,       \* its one-shot reply channel: "none", "open" or what was sent
    strm,       \* each stream's caller: "idle", "inserted", "open", "refused"
    wq,         \* commands queued for the writer task
    writer,     \* [at, cmd]: the writer task
    reader,     \* [at, frame]: the reader task
    pending,    \* calls registered under their correlation id
    active,     \* streams with a routing entry
    chan, fwd, out, got,  \* per stream: frame channel, forwarder, consumer's channel, frames consumed
    listening,  \* whether the consumer of each stream still holds its receiver
    rejection,  \* the refusal latched for the connection: "limit", "denied" or "none"
    disc,       \* the disconnect() call, or "dropped"
    up, down,   \* the two directions of the socket
    peer        \* [at, hand, sent, ran]: the server's side

queues  == <<wq, pending, active>>
ends    == <<chan, fwd, out, got, listening>>
vars    == <<call, slot, strm, queues, writer, reader, ends, rejection, disc, up, down, peer>>

Cmd(kind, id) == [kind |-> kind, id |-> id]
NoCmd == Cmd("none", "none")
Frame(kind, id, n, final) == [kind |-> kind, id |-> id, n |-> n, final |-> final]
NoFrame == Frame("none", "none", 0, FALSE)

(* connection_error: a latched refusal is preferred to the bare error. *)
ConnectionError == IF rejection = "none" THEN "closed" ELSE rejection

(* What an answer to a call says: the reply, that the handler returned     *)
(* without one, that the peer's wait for it ran out, that the peer refused *)
(* to dispatch the request, or that something else went wrong.             *)
Answers == {"reply", "no_reply", "late", "refused", "fault"}

(* fail_pending_requests: every call registered now hears `why`.  A caller *)
(* that timed out has dropped its end, so its slot is no longer open.      *)
Told(set, why) == [c \in Calls |-> IF c \in set /\ slot[c] = "open" THEN why ELSE slot[c]]

ReceiverGone == writer.at = "gone"
Room == Len(wq) < WriteCap

Init ==
    /\ call = [c \in Calls |-> "idle"] /\ slot = [c \in Calls |-> "none"]
    /\ strm = [s \in Streams |-> "idle"]
    /\ wq = <<>> /\ pending = {} /\ active = {}
    /\ writer = [at |-> "idle", cmd |-> NoCmd]
    /\ reader = [at |-> "reading", frame |-> NoFrame]
    /\ chan = [s \in Streams |-> <<>>] /\ out = [s \in Streams |-> <<>>]
    /\ got = [s \in Streams |-> <<>>] /\ fwd = [s \in Streams |-> [at |-> "none", frame |-> NoFrame]]
    /\ listening = [s \in Streams |-> TRUE]
    /\ rejection = "none" /\ disc = "no"
    /\ up = <<>> /\ down = <<>>
    /\ \E at \in {"open"} \union (IF MayRefuse THEN {"refusing"} ELSE {}) :
        peer = [at |-> at, hand |-> NoCmd, sent |-> [s \in Streams |-> 0], ran |-> {}]

-----------------------------------------------------------------------------
(* Callers *)

(* Slip: the queue to the writer is unbounded. *)
StartCallUnbounded(c) ==
    /\ disc # "dropped" /\ call[c] = "idle" /\ ~ReceiverGone
    /\ wq' = Append(wq, Cmd("call", c))
    /\ slot' = [slot EXCEPT ![c] = "open"] /\ call' = [call EXCEPT ![c] = "waiting"]
    /\ UNCHANGED <<strm, pending, active, writer, reader, ends, rejection, disc, up, down, peer>>

(* request_with_timeout, and in the same way subscribe, unsubscribe, their *)
(* pattern forms and discover: queue the command with its reply sender,    *)
(* then wait for the reply.                                                *)
StartCall(c) ==
    /\ disc # "dropped" /\ call[c] = "idle" /\ Room /\ ~ReceiverGone
    /\ wq' = Append(wq, Cmd("call", c))
    /\ slot' = [slot EXCEPT ![c] = "open"] /\ call' = [call EXCEPT ![c] = "waiting"]
    /\ UNCHANGED <<strm, pending, active, writer, reader, ends, rejection, disc, up, down, peer>>

(* The queue's other end is gone. *)
CallRefused(c) ==
    /\ disc # "dropped" /\ call[c] = "idle" /\ ReceiverGone
    /\ call' = [call EXCEPT ![c] = ConnectionError]
    /\ UNCHANGED <<slot, strm, queues, writer, reader, ends, rejection, disc, up, down, peer>>

(* The reply arrives, or its sender was dropped with the queue. *)
CallResolves(c) ==
    /\ call[c] = "waiting" /\ slot[c] # "open"
    /\ call' = [call EXCEPT ![c] = IF slot[c] = "dropped" THEN ConnectionError ELSE slot[c]]
    /\ UNCHANGED <<slot, strm, queues, writer, reader, ends, rejection, disc, up, down, peer>>

(* The deadline drops the receiver; the pending entry stays behind. *)
CallTimesOut(c) ==
    /\ call[c] = "waiting" /\ slot[c] = "open"
    /\ call' = [call EXCEPT ![c] = "timeout"] /\ slot' = [slot EXCEPT ![c] = "abandoned"]
    /\ UNCHANGED <<strm, queues, writer, reader, ends, rejection, disc, up, down, peer>>

(* request_stream_with_timeout: the routing entry goes in first ... *)
InsertStream(s) ==
    /\ disc # "dropped" /\ strm[s] = "idle"
    /\ strm' = [strm EXCEPT ![s] = "inserted"] /\ active' = active \union {s}
    /\ UNCHANGED <<call, slot, wq, pending, writer, reader, ends, rejection, disc, up, down, peer>>

(* ... then the command, and the forwarder is spawned. *)
SendStream(s) ==
    /\ strm[s] = "inserted" /\ Room /\ ~ReceiverGone
    /\ strm' = [strm EXCEPT ![s] = "open"]
    /\ wq' = Append(wq, Cmd("stream", s)) /\ fwd' = [fwd EXCEPT ![s].at = "waiting"]
    /\ UNCHANGED <<call, slot, pending, active, writer, reader, chan, out, got, listening, rejection, disc, up, down, peer>>

StreamRefused(s) ==
    /\ strm[s] = "inserted" /\ ReceiverGone
    /\ strm' = [strm EXCEPT ![s] = "refused"] /\ active' = active \ {s}
    /\ UNCHANGED <<call, slot, wq, pending, writer, reader, ends, rejection, disc, up, down, peer>>

(* The consumer of a stream. *)
Consume(s) ==
    /\ listening[s] /\ out[s] # <<>>
    /\ got' = [got EXCEPT ![s] = Append(@, Head(out[s]))] /\ out' = [out EXCEPT ![s] = Tail(@)]
    /\ UNCHANGED <<call, slot, strm, queues, writer, reader, chan, fwd, listening, rejection, disc, up, down, peer>>

CancelStream(s) ==
    /\ listening[s] /\ strm[s] = "open"
    /\ listening' = [listening EXCEPT ![s] = FALSE] /\ out' = [out EXCEPT ![s] = <<>>]
    /\ UNCHANGED <<call, slot, strm, queues, writer, reader, chan, fwd, got, rejection, disc, up, down, peer>>

(* disconnect: raise the flag, queue a last envelope, then Shutdown, wait  *)
(* for the writer, abort the reader.  A send into a dropped queue fails at *)
(* once and is ignored.                                                    *)
BeginDisconnect ==
    /\ disc = "no" /\ disc' = "unsub"
    /\ UNCHANGED <<call, slot, strm, queues, writer, reader, ends, rejection, up, down, peer>>

DisconnectSends(from, kind, to) ==
    /\ disc = from /\ disc' = to
    /\ \/ Room /\ ~ReceiverGone /\ wq' = Append(wq, Cmd(kind, "none"))
       \/ ReceiverGone /\ UNCHANGED wq
    /\ UNCHANGED <<call, slot, strm, pending, active, writer, reader, ends, rejection, up, down, peer>>

FinishDisconnect ==
    /\ disc = "joining" /\ writer.at = "gone"
    /\ disc' = "done" /\ reader' = [at |-> "gone", frame |-> NoFrame]
    /\ UNCHANGED <<call, slot, strm, queues, writer, ends, rejection, up, down, peer>>

(* Drop: nobody is inside a method.  Aborted tasks clean up nothing.       *)
DropClient ==
    /\ disc \in {"no", "done"} /\ disc' = "dropped"
    /\ \A c \in Calls : call[c] # "waiting"
    /\ \A s \in Streams : strm[s] # "inserted"
    /\ writer' = [at |-> "gone", cmd |-> NoCmd] /\ reader' = [at |-> "gone", frame |-> NoFrame]
    /\ wq' = <<>> /\ active' = {}
    /\ UNCHANGED <<call, slot, strm, pending, ends, rejection, up, down, peer>>

-----------------------------------------------------------------------------
(* The writer task *)

(* Slip: registration is left until after the write, which never comes to it. *)
WriterTakesUnregistered ==
    /\ writer.at = "idle" /\ wq # <<>>
    /\ writer' = [at |-> IF Head(wq).kind = "shutdown" THEN "exiting" ELSE "writing", cmd |-> Head(wq)]
    /\ wq' = Tail(wq)
    /\ UNCHANGED <<call, slot, strm, pending, active, reader, ends, rejection, disc, up, down, peer>>

(* A call is registered before its frame is written. *)
WriterTakes ==
    /\ writer.at = "idle" /\ wq # <<>>
    /\ LET cmd == Head(wq) IN
        /\ writer' = [at |-> IF cmd.kind = "shutdown" THEN "exiting" ELSE "writing", cmd |-> cmd]
        /\ pending' = IF cmd.kind = "call" THEN pending \union {cmd.id} ELSE pending
    /\ wq' = Tail(wq)
    /\ UNCHANGED <<call, slot, strm, active, reader, ends, rejection, disc, up, down, peer>>

(* Undoing the command in hand: its call hears the error, its stream loses *)
(* the routing entry.                                                      *)
Undone(why) ==
    /\ pending' = pending \ {writer.cmd.id} /\ active' = active \ {writer.cmd.id}
    /\ slot' = Told(pending \intersect {writer.cmd.id}, why)

WriterWrites ==
    /\ writer.at = "writing"
    /\ \/ /\ peer.at # "closed" /\ Len(up) < SockCap
          /\ up' = Append(up, writer.cmd) /\ writer' = [at |-> "idle", cmd |-> NoCmd]
          /\ UNCHANGED <<pending, active, slot>>
       \/ /\ peer.at = "closed" /\ Undone("io")
          /\ writer' = [at |-> "exiting", cmd |-> NoCmd] /\ UNCHANGED up
    /\ UNCHANGED <<call, strm, wq, reader, ends, rejection, disc, down, peer>>

(* A value that cannot be serialised never reaches the socket. *)
WriterCannotEncode ==
    /\ writer.at = "writing" /\ writer.cmd.id # "none"
    /\ Undone("unencodable") /\ writer' = [at |-> "idle", cmd |-> NoCmd]
    /\ UNCHANGED <<call, strm, wq, reader, ends, rejection, disc, up, down, peer>>

(* fail_pending_requests, at the end of either task. *)
FailPending == /\ slot' = Told(pending, ConnectionError) /\ pending' = {}

(* Slip: the writer leaves the pending calls to the reader. *)
WriterFailsNobody ==
    /\ writer.at = "exiting" /\ writer' = [at |-> "clearing", cmd |-> NoCmd]
    /\ UNCHANGED <<call, slot, strm, wq, pending, active, reader, ends, rejection, disc, up, down, peer>>

WriterFails ==
    /\ writer.at = "exiting" /\ writer' = [at |-> "clearing", cmd |-> NoCmd]
    /\ FailPending
    /\ UNCHANGED <<call, strm, wq, active, reader, ends, rejection, disc, up, down, peer>>

(* Slip: the streams are left to the reader. *)
WriterClearsNothing ==
    /\ writer.at = "clearing" /\ writer' = [writer EXCEPT !.at = "leaving"]
    /\ UNCHANGED <<call, slot, strm, queues, reader, ends, rejection, disc, up, down, peer>>

WriterClears ==
    /\ writer.at = "clearing" /\ writer' = [writer EXCEPT !.at = "leaving"]
    /\ active' = {}
    /\ UNCHANGED <<call, slot, strm, wq, pending, reader, ends, rejection, disc, up, down, peer>>

(* Returning drops the receiver, and with it the senders still queued. *)
WriterGone ==
    /\ writer.at = "leaving" /\ writer' = [writer EXCEPT !.at = "gone"]
    /\ slot' = Told({wq[i].id : i \in 1..Len(wq)}, "dropped") /\ wq' = <<>>
    /\ UNCHANGED <<call, strm, pending, active, reader, ends, rejection, disc, up, down, peer>>

-----------------------------------------------------------------------------
(* The reader task *)

Hand(f) == [at |-> "handing", frame |-> f]
Reading == [at |-> "reading", frame |-> NoFrame]

(* record_connection_rejection: the first refusal is the one that counts.  *)
RecordRejection(why) == rejection' = IF rejection = "none" THEN why ELSE rejection

(* synthesize_stream_termination: the refusal as the stream's last frame.  *)
Termination(f) == Frame("stream", f.id, 1, TRUE)

(* handle_response_frame: the connection's refusal, a pending call, a      *)
(* stream the server would not start, or nobody's.                         *)
ResponseFrame(f) ==
    \/ /\ f.kind \in {"limit", "denied"} /\ reader' = Reading
       /\ RecordRejection(f.kind)
       /\ UNCHANGED <<slot, pending>>
    \/ /\ f.kind \in Answers /\ f.id \in pending /\ reader' = Reading
       /\ slot' = Told({f.id}, f.kind) /\ pending' = pending \ {f.id}
       /\ UNCHANGED <<rejection>>
    \/ /\ f.kind \in Answers /\ f.id \notin pending
       /\ reader' = IF f.id \in active THEN Hand(Termination(f)) ELSE Reading
       /\ UNCHANGED <<slot, pending, rejection>>

StreamFrame(f) ==
    /\ f.kind = "stream"
    /\ reader' = IF f.id \in active THEN Hand(f) ELSE Reading
    /\ UNCHANGED <<slot, pending, rejection>>

(* handle_push_frame: try_send never holds the reader up; a notification   *)
(* that finds the channel full is dropped.                                 *)
PushFrame(f) ==
    /\ f.kind = "push" /\ reader' = Reading
    /\ UNCHANGED <<slot, pending, rejection>>

(* A frame over max_frame_size, or of an unknown version, ends the reader. *)
BadFrame(f) ==
    /\ f.kind = "bad" /\ reader' = [at |-> "exiting", frame |-> NoFrame]
    /\ UNCHANGED <<slot, pending, rejection>>

ReadFrame ==
    /\ reader.at = "reading" /\ down # <<>> /\ down' = Tail(down)
    /\ LET f == Head(down) IN ResponseFrame(f) \/ StreamFrame(f) \/ PushFrame(f) \/ BadFrame(f)
    /\ UNCHANGED <<call, strm, wq, active, writer, ends, disc, up, peer>>

ReadEnd ==
    /\ reader.at = "reading" /\ down = <<>> /\ peer.at = "closed"
    /\ reader' = [at |-> "exiting", frame |-> NoFrame]
    /\ UNCHANGED <<call, slot, strm, queues, writer, ends, rejection, disc, up, down, peer>>

(* Slip: try_send, which drops the frame when the channel is full. *)
HandFrameOrDrop ==
    /\ reader.at = "handing" /\ reader' = Reading
    /\ LET s == reader.frame.id IN
        /\ chan' = IF fwd[s].at # "done" /\ Len(chan[s]) < FrameCap
                    THEN [chan EXCEPT ![s] = Append(@, reader.frame)] ELSE chan
        /\ active' = IF fwd[s].at = "done" \/ reader.frame.final THEN active \ {s} ELSE active
    /\ UNCHANGED <<call, slot, strm, wq, pending, writer, fwd, out, got, listening, rejection, disc, up, down, peer>>

(* Slip: the wait for room does not notice that the forwarder has ended. *)
HandFrameToTheLiving ==
    /\ reader.at = "handing" /\ reader' = Reading
    /\ LET s == reader.frame.id IN
        /\ fwd[s].at # "done" /\ Len(chan[s]) < FrameCap
        /\ chan' = [chan EXCEPT ![s] = Append(@, reader.frame)]
        /\ active' = IF reader.frame.final THEN active \ {s} ELSE active
    /\ UNCHANGED <<call, slot, strm, wq, pending, writer, fwd, out, got, listening, rejection, disc, up, down, peer>>

(* The frame is sent to the stream's channel, waiting for room in it; an   *)
(* ended forwarder, a final frame and a refusal all drop the entry.        *)
HandFrame ==
    /\ reader.at = "handing" /\ reader' = Reading
    /\ LET s == reader.frame.id IN
        \/ /\ fwd[s].at # "done" /\ Len(chan[s]) < FrameCap
           /\ chan' = [chan EXCEPT ![s] = Append(@, reader.frame)]
           /\ active' = IF reader.frame.final THEN active \ {s} ELSE active
        \/ /\ fwd[s].at = "done"
           /\ active' = active \ {s} /\ UNCHANGED chan
    /\ UNCHANGED <<call, slot, strm, wq, pending, writer, fwd, out, got, listening, rejection, disc, up, down, peer>>

ReaderFails ==
    /\ reader.at = "exiting" /\ reader' = [reader EXCEPT !.at = "clearing"]
    /\ FailPending
    /\ UNCHANGED <<call, strm, wq, active, writer, ends, rejection, disc, up, down, peer>>

ReaderClears ==
    /\ reader.at = "clearing" /\ reader' = [reader EXCEPT !.at = "gone"] /\ active' = {}
    /\ UNCHANGED <<call, slot, strm, wq, pending, writer, ends, rejection, disc, up, down, peer>>

-----------------------------------------------------------------------------
(* run_stream_forwarder *)

(* The frame channel is closed once nobody holds a sender of it. *)
ChannelClosed(s) == s \notin active /\ ~(reader.at = "handing" /\ reader.frame.id = s)

ForwarderEnds(s) ==
    /\ fwd' = [fwd EXCEPT ![s] = [at |-> "done", frame |-> NoFrame]] /\ active' = active \ {s}

ForwarderTakes(s) ==
    /\ fwd[s].at = "waiting" /\ chan[s] # <<>>
    /\ fwd' = [fwd EXCEPT ![s] = Hand(Head(chan[s]))] /\ chan' = [chan EXCEPT ![s] = Tail(@)]
    /\ UNCHANGED <<call, slot, strm, queues, writer, reader, out, got, listening, rejection, disc, up, down, peer>>

ForwarderHands(s) ==
    /\ fwd[s].at = "handing"
    /\ \/ /\ listening[s] /\ Len(out[s]) < FrameCap
          /\ out' = [out EXCEPT ![s] = Append(@, fwd[s].frame)]
          /\ IF fwd[s].frame.final THEN ForwarderEnds(s)
             ELSE fwd' = [fwd EXCEPT ![s] = [at |-> "waiting", frame |-> NoFrame]] /\ UNCHANGED active
       \/ ~listening[s] /\ ForwarderEnds(s) /\ UNCHANGED out
    /\ UNCHANGED <<call, slot, strm, wq, pending, writer, reader, chan, got, listening, rejection, disc, up, down, peer>>

ForwarderSeesEnd(s) ==
    /\ fwd[s].at = "waiting" /\ chan[s] = <<>> /\ ChannelClosed(s) /\ ForwarderEnds(s)
    /\ UNCHANGED <<call, slot, strm, wq, pending, writer, reader, chan, out, got, listening, rejection, disc, up, down, peer>>

ForwarderTimesOut(s) ==
    /\ fwd[s].at = "waiting" /\ chan[s] = <<>> /\ ~ChannelClosed(s) /\ ForwarderEnds(s)
    /\ UNCHANGED <<call, slot, strm, wq, pending, writer, reader, chan, out, got, listening, rejection, disc, up, down, peer>>

-----------------------------------------------------------------------------
(* The peer: it works on one request of a connection at a time, so it      *)
(* reads the next only when the last frame of this one is on the socket.   *)
local == <<call, slot, strm, queues, writer, reader, ends, rejection, disc>>

PeerReads ==
    /\ peer.at = "open" /\ peer.hand = NoCmd /\ up # <<>>
    /\ peer' = [peer EXCEPT !.hand = IF Head(up).kind = "envelope" THEN NoCmd ELSE Head(up)]
    /\ up' = Tail(up) /\ UNCHANGED <<local, down>>

PeerSends(f, after) ==
    /\ Len(down) < SockCap
    /\ down' = Append(down, f) /\ peer' = after /\ UNCHANGED <<local, up>>

(* process_request_response: the request is given to the actor's inbox ... *)
PeerDispatches ==
    /\ peer.hand.kind = "call" /\ peer.hand.id \notin peer.ran
    /\ peer' = [peer EXCEPT !.ran = @ \union {peer.hand.id}]
    /\ UNCHANGED <<local, up, down>>

(* ... and what comes of it is the answer; or it was not, for the rate     *)
(* limit, the drain, its target, its type, its target's inbox, full or     *)
(* closed.  The answer may be too large to read.                           *)
PeerAnswers ==
    /\ peer.hand.kind = "call"
    /\ \E kind \in {"bad"} \union (IF peer.hand.id \in peer.ran THEN {"reply", "no_reply", "late"}
                                                              ELSE {"refused", "fault"}) :
        PeerSends(Frame(kind, peer.hand.id, 0, FALSE), [peer EXCEPT !.hand = NoCmd])

(* Frames numbered from 1; the last one is final.  A request turned away   *)
(* before it is dispatched is answered by a plain response instead.        *)
PeerStreams ==
    /\ peer.hand.kind = "stream"
    /\ LET s == peer.hand.id  n == peer.sent[s] + 1 IN
        \/ n < MaxFrames /\ PeerSends(Frame("stream", s, n, FALSE), [peer EXCEPT !.sent[s] = n])
        \/ \E f \in {Frame("stream", s, n, TRUE)}
                      \union (IF n = 1 THEN {Frame("refused", s, 0, FALSE)} ELSE {}) :
            PeerSends(f, [peer EXCEPT !.sent[s] = n, !.hand = NoCmd])

(* A notification, whatever the peer is at.  It too may be too large to read.*)
PeerPushes ==
    /\ peer.at = "open"
    /\ \/ PeerSends(Frame("push", "none", 0, FALSE), peer)
       \/ /\ reader.at \in {"reading", "handing"}
          /\ MidStream \/ \A s \in Streams : peer.sent[s] = 0
          /\ PeerSends(Frame("bad", "none", 0, FALSE), peer)

(* reject_at_connection_limit, or a policy that denies the connection: the *)
(* reason, and nothing is ever read.                                       *)
PeerRefuses ==
    /\ peer.at = "refusing"
    /\ \E why \in {"limit", "denied"} :
        PeerSends(Frame(why, "none", 0, FALSE), [peer EXCEPT !.at = "refused"])

(* The socket closes: what is in flight towards the peer is lost, what the *)
(* peer wrote can still be read.                                           *)
PeerCloses ==
    /\ peer.at # "closed" /\ peer' = [peer EXCEPT !.at = "closed", !.hand = NoCmd]
    /\ up' = <<>> /\ UNCHANGED <<local, down>>

(* A refusing peer closes the socket once it has said why. *)
PeerLeaves == peer.at = "refused" /\ PeerCloses
PeerServes == PeerReads \/ PeerDispatches \/ PeerAnswers \/ PeerStreams
PeerSteps == PeerServes \/ PeerPushes \/ PeerRefuses \/ PeerCloses

-----------------------------------------------------------------------------
CallerSteps ==
    \/ \E c \in Calls : StartCall(c) \/ CallRefused(c) \/ CallResolves(c) \/ CallTimesOut(c)
    \/ \E s \in Streams : InsertStream(s) \/ SendStream(s) \/ StreamRefused(s) \/ Consume(s) \/ CancelStream(s)

Disconnecting ==
    \/ DisconnectSends("unsub", "envelope", "shutdown")
    \/ DisconnectSends("shutdown", "shutdown", "joining")
    \/ FinishDisconnect

Writer == WriterTakes \/ WriterWrites \/ WriterCannotEncode \/ WriterFails \/ WriterClears \/ WriterGone
Reader == ReadFrame \/ ReadEnd \/ HandFrame \/ ReaderFails \/ ReaderClears
Forwarder(s) == ForwarderTakes(s) \/ ForwarderHands(s) \/ ForwarderSeesEnd(s) \/ ForwarderTimesOut(s)

Next ==
    \/ CallerSteps \/ BeginDisconnect \/ Disconnecting \/ DropClient
    \/ Writer \/ Reader \/ (\E s \in Streams : Forwarder(s)) \/ PeerSteps

Spec == Init /\ [][Next]_vars

(* Tasks are scheduled fairly, deadlines expire, consumers keep reading,   *)
(* and the peer finishes what it has in hand and reads on: its pushes and  *)
(* its answers queue for the socket in turn.                               *)
Fairness ==
    /\ WF_vars(Writer) /\ WF_vars(Reader) /\ WF_vars(Disconnecting)
    /\ \A s \in Streams : WF_vars(Forwarder(s)) /\ WF_vars(Consume(s)) /\ WF_vars(SendStream(s) \/ StreamRefused(s))
    /\ \A c \in Calls : WF_vars(CallResolves(c) \/ CallTimesOut(c))
    /\ SF_vars(PeerServes) /\ WF_vars(PeerRefuses) /\ WF_vars(PeerLeaves)

FairSpec == Spec /\ Fairness

-----------------------------------------------------------------------------
(* RemoteActorRef::ask_with_timeout: a call, and what its outcome means.   *)

(* classify_remote_response, classify_failure: the peer's word for it.     *)
ClassifyResponse(answer) ==
    CASE answer = "reply" -> "Ok"
      [] answer = "no_reply" -> "NoReply"
      [] answer = "late" -> "TimedOut"
      [] answer = "fault" -> "TransportFailed"
      [] answer = "refused" -> "PeerRejected"

(* Slip: a connection that closed is taken for a refusal. *)
ClassifyClosedAsRefused(error) ==
    CASE error = "timeout" -> "TimedOut"
      [] error \in {"limit", "closed"} -> "PeerRejected"
      [] error \in {"io", "denied"} -> "TransportFailed"
      [] error = "unencodable" -> "Undeliverable"

(* classify_ipc_error: the client's own.  A denial is a protocol error.    *)
ClassifyIpcError(error) ==
    CASE error = "timeout" -> "TimedOut"
      [] error = "limit" -> "PeerRejected"
      [] error \in {"closed", "io", "denied"} -> "TransportFailed"
      [] error = "unencodable" -> "Undeliverable"

AskResult(outcome) ==
    IF outcome \in Answers THEN ClassifyResponse(outcome) ELSE ClassifyIpcError(outcome)

-----------------------------------------------------------------------------
(* Properties *)

Outcomes == Answers \union {"closed", "limit", "denied", "io", "unencodable", "timeout"}

(* Every variable holds values of its kind, queues within their capacity.  *)
ClientTypeOK ==
    /\ call \in [Calls -> {"idle", "waiting"} \union Outcomes]
    /\ slot \in [Calls -> {"none", "open", "dropped", "abandoned"} \union Outcomes]
    /\ strm \in [Streams -> {"idle", "inserted", "open", "refused"}]
    /\ pending \subseteq Calls /\ active \subseteq Streams
    /\ Len(wq) <= WriteCap
    /\ \A s \in Streams : Len(chan[s]) <= FrameCap /\ Len(out[s]) <= FrameCap
    /\ writer.at \in {"idle", "writing", "exiting", "clearing", "leaving", "gone"}
    /\ reader.at \in {"reading", "handing", "exiting", "clearing", "gone"}

Queued(c) == \E i \in 1..Len(wq) : wq[i].id = c

(* A call that has heard nothing is registered or still queued, and the    *)
(* writer task, which fails whatever is left, has not ended: whichever     *)
(* task goes down first and whatever the other is doing, no reply sender   *)
(* is forgotten (fail_pending_requests in both tasks).                     *)
NoCallIsOrphaned ==
    \A c \in Calls : slot[c] = "open" => (c \in pending \/ Queued(c)) /\ writer.at # "gone"

(* An answer that is read while its caller waits is the caller's: the      *)
(* registration always precedes the frame (write_correlated_frame).        *)
AnswerReachesItsCaller ==
    [][\A c \in Calls :
        /\ reader.at = "reading" /\ down # <<>> /\ down' = Tail(down)
        /\ Head(down).id = c /\ Head(down).kind \in Answers /\ slot[c] = "open"
        => slot'[c] = Head(down).kind]_vars

(* What a consumer has received is, in order and without gaps, what the    *)
(* peer sent on that stream from its first frame, and after a final frame  *)
(* nothing of the stream is missing (IpcClient::request_stream).           *)
StreamIsIntact ==
    \A s \in Streams :
        /\ \A i \in 1..Len(got[s]) : got[s][i].n = i /\ got[s][i].id = s
        /\ \A i \in 1..Len(got[s]) : got[s][i].final => i = Len(got[s]) /\ i = peer.sent[s]

(* The routing entries a finished writer leaves behind are those of        *)
(* streams whose request slipped in after it had cleared the map: nothing  *)
(* of them ever reached the socket, and only their deadline ends them.     *)
SurvivorsNeverStarted ==
    writer.at = "gone" => \A s \in active : peer.sent[s] = 0 /\ chan[s] = <<>>

(* An ask that is told the peer refused it, or that it could not be sent,  *)
(* ran nowhere, so that asking again is safe, and one that is told of a    *)
(* reply or of its absence did run: through lost frames, full queues,      *)
(* refused connections and deadlines (AskError::PeerRejected: "Nothing     *)
(* ran").                                                                  *)
AskErrorsTellTheTruth ==
    \A c \in Calls : call[c] \in Outcomes =>
        /\ AskResult(call[c]) \in {"PeerRejected", "Undeliverable"} => c \notin peer.ran
        /\ AskResult(call[c]) \in {"Ok", "NoReply"} => c \in peer.ran

(* The client's tables: well typed, every call in them that is owed an     *)
(* answer, nothing in them that was begun and forgotten, and callers told  *)
(* the truth.                                                              *)
ClientIsConsistent ==
    ClientTypeOK /\ NoCallIsOrphaned /\ SurvivorsNeverStarted /\ AskErrorsTellTheTruth

(* A peer that goes on writing to a client whose reader has ended, over a  *)
(* frame it could not read, finds the return path full and stays with what *)
(* it has in hand: it reads nothing more, and the socket is open.          *)
Unheard == reader.at = "gone" /\ peer.at # "closed" /\ Len(down) = SockCap

(* disconnect() returns: the writer reaches the Shutdown command although  *)
(* the peer works on one request at a time, the reader may be held up by a *)
(* full stream, and either task may end at any moment.  What it does not   *)
(* survive is a peer that nobody hears.                                    *)
DisconnectReturns == disc = "unsub" ~> disc = "done" \/ Unheard

(* Its doc makes no exception; the code does.                              *)
DisconnectAlwaysReturns == disc = "unsub" ~> disc = "done"

(* What the doc of IpcClient::rejection promises: once the server has said *)
(* why it refuses the connection, no caller is told anything less.         *)
RefusalSurvives ==
    (disc = "no" /\ (rejection # "none" \/ \E i \in 1..Len(down) : down[i].kind \in {"limit", "denied"}))
        => \A c \in Calls : call[c] \notin {"closed", "io"}
=============================================================================
