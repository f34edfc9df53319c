-------------------------- MODULE NetlinkTransport --------------------------
(***************************************************************************)
(* NetlinkManager as a transport: synchronous requests with their replies   *)
(* on one socket, the dispatch of multicast events from the other, and the  *)
(* one static buffer that both read into.                                   *)
(*                                                                          *)
(* A request is made by a binder call, or by the handler of an event, in    *)
(* the middle of the loop over the datagram that brought the event.  While  *)
(* a request waits nothing else runs in wificond.  The kernel (external)    *)
(* answers when it likes: answers to requests given up turn up later.       *)
(***************************************************************************)
EXTENDS Naturals, Sequences

CONSTANTS
    MaxCalls,    \* bound on the requests made
    MaxEvents,   \* bound on the events sent
    MaxParts,    \* bound on the messages of an answer to a dump
    SeqMod,      \* sequence numbers are modulo this, 2^32 in the code
    MaxAge,      \* how many requests an answer may be late
    MaxWait,     \* kMaximumNetlinkMessageWaitMilliSeconds, in ticks
    NoAnswer,    \* the kernel has not answered
    Faults       \* see the ASSUME

ASSUME TransportAssumption ==
    /\ MaxCalls \in Nat /\ MaxEvents \in Nat /\ MaxParts \in Nat
    /\ MaxAge \in Nat
    /\ SeqMod \in Nat /\ MaxAge + 1 < SeqMod
    /\ MaxWait \in Nat \ {0}
    /\ Faults \subseteq {"send",     \* send fails
                         "eintr",    \* poll fails
                         "drop",     \* the kernel has no room for a reply
                         "cut",      \* a dump is cut short: OVERRUN, or DONE
                                     \* with an error code
                         "noop",     \* the kernel sends a NOOP
                         "batch"}    \* several events in one datagram

VARIABLES
    sequence_number,
    message_handlers,   \* the sequence numbers with a handler
    phase,              \* "idle", or "waiting" in SendMessageAndGetResponses
    request,            \* the request waited for
    time_remaining,
    response, result,   \* what its caller has been given, and was told
    frame,              \* the loop over a datagram of events: where it is,
                        \* its ptr and len
    ReceiveBuffer,      \* the messages there, while such a loop runs
    calls,              \* the requests are numbered, as are the events
    unanswered,         \* requests the kernel has received
    leaving,            \* per request, the messages of its answer to be sent
    socket,             \* datagrams on the synchronous socket
    sock_err,           \* ENOBUFS, reported by the next read
    answer,             \* history: what the kernel answered
    async_socket,       \* datagrams on the other one
    sent,
    dispatched          \* history: the events dispatched

callerVars == <<phase, request, time_remaining, response, result>>
managerVars == <<sequence_number, message_handlers>>
frameVars == <<frame, ReceiveBuffer, dispatched>>
eventVars == <<async_socket, sent>>
kernelVars == <<unanswered, leaving, socket, sock_err, answer>>
vars == <<callerVars, managerVars, frameVars, eventVars, kernelVars, calls>>

Call == 1..MaxCalls
Kind == {"dump", "single", "ack"}
Request == [call : Call, seq : 0..(SeqMod - 1), kind : Kind]

(* A message: the number of the request or event it is about, the part of   *)
(* the answer or the error code it carries.  seq 0 is a multicast.          *)
Type == {"event", "data", "error", "done", "noop", "overrun"}
Message == [seq : 0..(SeqMod - 1), about : Nat, type : Type, multi : BOOLEAN,
            part : Nat]

(* No answer is told apart from every answer.                               *)
ASSUME NoAnswerAssumption == NoAnswer \notin Seq(Message)

Msg(req, type, multi, part) ==
    [seq |-> req.seq, about |-> req.call, type |-> type, multi |-> multi,
     part |-> part]

Event(n) == [seq |-> 0, about |-> n, type |-> "event", multi |-> FALSE,
             part |-> 0]

IsPayload(m) == m.type \in {"data", "error"}

NoRequest == [call |-> 0, seq |-> 0, kind |-> "none"]

StateTypes ==
    /\ sequence_number \in 0..(SeqMod - 1)
    /\ message_handlers \subseteq 0..(SeqMod - 1)
    /\ phase \in {"idle", "waiting"}
    /\ request \in Request \cup {NoRequest}
    /\ time_remaining \in 0..MaxWait
    /\ response \in Seq(Message)
    /\ result \in BOOLEAN
    /\ frame \in [at : {"none", "loop", "handler"}, ptr : Nat, len : Nat]
    /\ ReceiveBuffer \in Seq(Message)
    /\ calls \in 0..MaxCalls
    /\ unanswered \subseteq Request
    /\ leaving \in [Call -> Seq(Message)]
    /\ socket \in Seq(Seq(Message))
    /\ sock_err \in BOOLEAN
    /\ answer \in [Call -> Seq(Message) \cup {NoAnswer}]
    /\ async_socket \in Seq(Seq(Message))
    /\ sent \in 0..MaxEvents
    /\ dispatched \in Seq(1..MaxEvents)

(* No request has the number 0 that multicasts have: a handler registered   *)
(* for it would never be found.                                             *)
NumbersOK ==
    /\ calls > 0 => sequence_number # 0
    /\ 0 \notin message_handlers
    /\ \A r \in unanswered : r.seq # 0

(* The loop over a datagram is at a message of the datagram it read, within *)
(* the buffer, whatever a request of a handler has read into that since.    *)
LoopInside ==
    frame.at # "none" =>
        frame.ptr \in 1..frame.len /\ frame.len <= Len(ReceiveBuffer)

TypeOK == StateTypes /\ NumbersOK /\ LoopInside

NoFrame == [at |-> "none", ptr |-> 0, len |-> 0]

Init ==
    /\ sequence_number = 0
    /\ message_handlers = {}
    /\ phase = "idle"
    /\ request = NoRequest
    /\ time_remaining = 0
    /\ response = <<>>
    /\ result = FALSE
    /\ frame = NoFrame
    /\ ReceiveBuffer = <<>>
    /\ calls = 0
    /\ unanswered = {}
    /\ leaving = [c \in Call |-> <<>>]
    /\ socket = <<>>
    /\ sock_err = FALSE
    /\ answer = [c \in Call |-> NoAnswer]
    /\ async_socket = <<>>
    /\ sent = 0
    /\ dispatched = <<>>

---------------------------------------------------------------------------
(* Mutant: the number wraps to 0.                                           *)
GetSequenceNumber_WithZero == (sequence_number + 1) % SeqMod

(* GetSequenceNumber: the next number, without 0.                           *)
GetSequenceNumber == IF sequence_number + 1 = SeqMod THEN 1
                     ELSE sequence_number + 1

(* The requests whose answers are still to come.                            *)
Late ==
    {c \in Call : \/ \E r \in unanswered : r.call = c
                  \/ leaving[c] # <<>>
                  \/ \E i \in DOMAIN socket :
                        \E j \in DOMAIN socket[i] : socket[i][j].about = c}

(* A request can be made by a binder call, when no event is being           *)
(* dispatched, and by a handler.                                            *)
MayCall ==
    /\ phase = "idle"
    /\ frame.at # "loop"
    /\ calls < MaxCalls
    /\ \A c \in Late : calls + 1 <= c + MaxAge

(* SendMessageAndGetResponses up to its loop.                               *)
SendMessageAndGetResponses(kind) ==
    LET req == [call |-> calls + 1, seq |-> GetSequenceNumber, kind |-> kind] IN
    /\ MayCall
    /\ calls' = calls + 1
    /\ sequence_number' = GetSequenceNumber
    /\ response' = <<>>
    /\ result' = FALSE
    /\ request' = req
    /\ \/ /\ phase' = "waiting"
          /\ time_remaining' = MaxWait
          /\ message_handlers' = message_handlers \cup {req.seq}
          /\ unanswered' = unanswered \cup {req}
       \/ /\ "send" \in Faults
          /\ UNCHANGED <<phase, time_remaining, message_handlers, unanswered>>
    /\ UNCHANGED <<frameVars, eventVars, leaving, socket, sock_err, answer>>

---------------------------------------------------------------------------
(* ReceivePacketAndRunHandler on a datagram d of the synchronous socket.    *)
(* All messages of a datagram have one sequence number, as the kernel makes *)
(* one datagram for one request.                                            *)

(* Mutant: the handler is removed after it has run, multipart or not.       *)
IsLast_Always(m) == TRUE

(* Messages after which the handler is removed.                             *)
IsLast(m) == m.type \in {"done", "noop", "overrun"} \/ ~m.multi

(* What the handler is given: the messages up to the first such one, which  *)
(* itself is only given if it has a payload.  The rest finds no handler.    *)
Delivered(d) ==
    LET last == {i \in DOMAIN d : IsLast(d[i])}
        first == CHOOSE i \in last : \A j \in last : i <= j IN
    IF last = {} THEN d
    ELSE SubSeq(d, 1, IF IsPayload(d[first]) THEN first ELSE first - 1)

(* Mutant: replies are not told apart by their sequence numbers.            *)
HasHandler_Any(d) == message_handlers # {}

HasHandler(d) == d[1].seq \in message_handlers

(* The datagram is read into the start of the buffer.                       *)
Overwritten(d) ==
    d \o SubSeq(ReceiveBuffer, Len(d) + 1, Len(ReceiveBuffer))

Receive(d) ==
    /\ socket' = Tail(socket)
    /\ ReceiveBuffer' = IF frame.at = "none" THEN <<>> ELSE Overwritten(d)
    /\ response' = IF HasHandler(d) THEN response \o Delivered(d)
                   ELSE response

Removed(d) == IF HasHandler(d) /\ \E i \in DOMAIN d : IsLast(d[i])
              THEN {request.seq} ELSE {}

Minus(t, e) == IF e >= t THEN 0 ELSE t - e

(* The test of the loop and what follows it.  An answer that is complete    *)
(* when the time is up comes too late.                                      *)
LoopTest(handlers, time) ==
    \/ /\ time = 0
       /\ phase' = "idle"
       /\ result' = FALSE
       /\ message_handlers' = handlers \ {request.seq}
    \/ /\ time > 0
       /\ request.seq \notin handlers
       /\ phase' = "idle"
       /\ result' = TRUE
       /\ message_handlers' = handlers
    \/ /\ time > 0
       /\ request.seq \in handlers
       /\ message_handlers' = handlers
       /\ UNCHANGED <<phase, result>>

(* One iteration of the loop in which poll finds something: a datagram, or  *)
(* an error that the read reports.  It takes elapsed ticks.                 *)
PollReturns(elapsed) ==
    /\ phase = "waiting"
    /\ time_remaining' = Minus(time_remaining, elapsed)
    /\ \/ /\ sock_err
          /\ sock_err' = FALSE
          /\ LoopTest(message_handlers, time_remaining')
          /\ UNCHANGED <<socket, ReceiveBuffer, response>>
       \/ /\ ~sock_err
          /\ socket # <<>>
          /\ LoopTest(message_handlers \ Removed(Head(socket)), time_remaining')
          /\ Receive(Head(socket))
          /\ UNCHANGED sock_err
    /\ UNCHANGED <<request, sequence_number, frame, dispatched, eventVars,
                   unanswered, leaving, answer, calls>>

(* Mutant: the handler stays when poll fails or times out.                  *)
PollFails_KeepHandler ==
    /\ phase = "waiting"
    /\ (socket = <<>> /\ ~sock_err) \/ "eintr" \in Faults
    /\ phase' = "idle"
    /\ result' = FALSE
    /\ UNCHANGED <<request, time_remaining, response, managerVars, frameVars,
                   eventVars, kernelVars, calls>>

(* Mutant: a timeout starts another round of waiting.                       *)
PollFails_Again ==
    /\ phase = "waiting"
    /\ socket = <<>> /\ ~sock_err
    /\ time_remaining' = MaxWait
    /\ UNCHANGED <<phase, request, response, result, managerVars, frameVars,
                   eventVars, kernelVars, calls>>

(* poll times out, or fails.                                                *)
PollFails ==
    /\ phase = "waiting"
    /\ (socket = <<>> /\ ~sock_err) \/ "eintr" \in Faults
    /\ phase' = "idle"
    /\ result' = FALSE
    /\ message_handlers' = message_handlers \ {request.seq}
    /\ UNCHANGED <<request, time_remaining, response, sequence_number,
                   frameVars, eventVars, kernelVars, calls>>

---------------------------------------------------------------------------
(* What the wrappers make of it.                                            *)
SendMessageAndGetSingleResponseOrError == result /\ Len(response) = 1

SendMessageAndGetSingleResponse ==
    SendMessageAndGetSingleResponseOrError /\ response[1].type # "error"

SendMessageAndGetAckOrError ==
    SendMessageAndGetSingleResponseOrError /\ response[1].type = "error"

(* Mutant: any answer will do.                                              *)
SendMessageAndGetAck_AnyCode == SendMessageAndGetAckOrError

SendMessageAndGetAck ==
    SendMessageAndGetAckOrError /\ response[1].part = 0

---------------------------------------------------------------------------
(* Mutant: the socket is drained and the last datagram is handled.          *)
ReadEvents_Drain ==
    /\ phase = "idle" /\ frame.at = "none"
    /\ async_socket # <<>>
    /\ async_socket' = <<>>
    /\ ReceiveBuffer' = async_socket[Len(async_socket)]
    /\ frame' = [at |-> "loop", ptr |-> 1,
                 len |-> Len(async_socket[Len(async_socket)])]
    /\ UNCHANGED <<dispatched, callerVars, managerVars, sent, kernelVars,
                   calls>>

(* Mutant: events are read only when no reply waits on the other socket.    *)
ReadEvents_AfterReplies ==
    /\ phase = "idle" /\ frame.at = "none"
    /\ socket = <<>>
    /\ async_socket # <<>>
    /\ async_socket' = Tail(async_socket)
    /\ ReceiveBuffer' = Head(async_socket)
    /\ frame' = [at |-> "loop", ptr |-> 1, len |-> Len(Head(async_socket))]
    /\ UNCHANGED <<dispatched, callerVars, managerVars, sent, kernelVars,
                   calls>>

(* ReceivePacketAndRunHandler on the event socket, run by the event loop    *)
(* when nothing else runs: read, then one message after the other.          *)
ReadEvents ==
    /\ phase = "idle" /\ frame.at = "none"
    /\ async_socket # <<>>
    /\ async_socket' = Tail(async_socket)
    /\ ReceiveBuffer' = Head(async_socket)
    /\ frame' = [at |-> "loop", ptr |-> 1, len |-> Len(Head(async_socket))]
    /\ UNCHANGED <<dispatched, callerVars, managerVars, sent, kernelVars,
                   calls>>

EndFrame == frame' = NoFrame /\ ReceiveBuffer' = <<>>

(* The message at ptr: an event is given to its handler, anything else      *)
(* finds none and ends the loop.                                            *)
RunHandler ==
    /\ frame.at = "loop"
    /\ IF ReceiveBuffer[frame.ptr].seq = 0
       THEN /\ frame' = [frame EXCEPT !.at = "handler"]
            /\ dispatched' =
                  Append(dispatched, ReceiveBuffer[frame.ptr].about)
            /\ UNCHANGED ReceiveBuffer
       ELSE /\ EndFrame
            /\ UNCHANGED dispatched
    /\ UNCHANGED <<callerVars, managerVars, eventVars, kernelVars, calls>>

(* Mutant: the loop ends one message too late.                              *)
HandlerReturns_PastEnd ==
    /\ frame.at = "handler" /\ phase = "idle"
    /\ IF frame.ptr > frame.len
       THEN EndFrame
       ELSE /\ frame' = [frame EXCEPT !.at = "loop", !.ptr = @ + 1]
            /\ UNCHANGED ReceiveBuffer
    /\ UNCHANGED <<dispatched, callerVars, managerVars, eventVars, kernelVars,
                   calls>>

HandlerReturns ==
    /\ frame.at = "handler" /\ phase = "idle"
    /\ IF frame.ptr = frame.len
       THEN EndFrame
       ELSE /\ frame' = [frame EXCEPT !.at = "loop", !.ptr = @ + 1]
            /\ UNCHANGED ReceiveBuffer
    /\ UNCHANGED <<dispatched, callerVars, managerVars, eventVars, kernelVars,
                   calls>>

---------------------------------------------------------------------------
(* The kernel.                                                              *)

(* What the kernel may answer to request r.                                 *)
DumpOf(r, n) == [i \in 1..n |-> Msg(r, "data", TRUE, i)]

AnswersTo(r) ==
    {<<Msg(r, "error", FALSE, 1)>>}
    \cup CASE r.kind = "ack" -> {<<Msg(r, "error", FALSE, 0)>>}
           [] r.kind = "single" -> {<<Msg(r, "data", FALSE, 1)>>}
           [] r.kind = "dump" -> {DumpOf(r, n) : n \in 0..MaxParts}

(* A dump ends with DONE.                                                   *)
Wire(r, a) == IF \A i \in DOMAIN a : a[i].multi
              THEN a \o <<Msg(r, "done", TRUE, 0)>> ELSE a

(* What leaves instead when something goes wrong on the way.                *)
Garbled(r, ms) ==
    (IF "cut" \in Faults /\ r.kind = "dump"
     THEN UNION {{SubSeq(ms, 1, i) \o <<Msg(r, t, TRUE, 0)>> :
                     i \in 0..(Len(ms) - 1)} : t \in {"done", "overrun"}}
     ELSE {})
    \cup (IF "noop" \in Faults
          THEN {<<Msg(r, "noop", FALSE, 0)>> \o ms} ELSE {})

(* The kernel carries the request out.                                      *)
KernelServes(r) ==
    /\ r \in unanswered
    /\ unanswered' = unanswered \ {r}
    /\ \E a \in AnswersTo(r) :
          /\ answer' = [answer EXCEPT ![r.call] = a]
          /\ \E w \in {Wire(r, a)} \cup Garbled(r, Wire(r, a)) :
                leaving' = [leaving EXCEPT ![r.call] = w]
    /\ UNCHANGED <<socket, sock_err>>

(* The next k messages of an answer leave in one datagram, or what is left  *)
(* of it finds no room.                                                     *)
KernelReplies(c) ==
    /\ leaving[c] # <<>>
    /\ \/ /\ \E k \in 1..Len(leaving[c]) :
                /\ socket' = Append(socket, SubSeq(leaving[c], 1, k))
                /\ leaving' = [leaving EXCEPT
                                  ![c] = SubSeq(@, k + 1, Len(@))]
          /\ UNCHANGED sock_err
       \/ /\ "drop" \in Faults
          /\ leaving' = [leaving EXCEPT ![c] = <<>>]
          /\ sock_err' = TRUE
          /\ UNCHANGED socket
    /\ UNCHANGED <<unanswered, answer>>

KernelSendsEvents(n) ==
    /\ n = 1 \/ "batch" \in Faults
    /\ sent + n <= MaxEvents
    /\ sent' = sent + n
    /\ async_socket' = Append(async_socket, [i \in 1..n |-> Event(sent + i)])

Kernel ==
    \/ /\ \/ \E r \in unanswered : KernelServes(r)
          \/ \E c \in Call : KernelReplies(c)
       /\ UNCHANGED <<callerVars, managerVars, frameVars, eventVars, calls>>
    \/ /\ \E n \in 1..2 : KernelSendsEvents(n)
       /\ UNCHANGED <<callerVars, managerVars, frameVars, kernelVars, calls>>

Wait == PollFails \/ \E elapsed \in 0..MaxWait : PollReturns(elapsed)

Next ==
    \/ \E kind \in Kind : SendMessageAndGetResponses(kind)
    \/ Wait
    \/ ReadEvents
    \/ RunHandler
    \/ HandlerReturns
    \/ Kernel

Spec == Init /\ [][Next]_vars

(* wificond is scheduled, poll returns, and handlers run to their end.      *)
FairSpec ==
    /\ Spec
    /\ WF_vars(Wait)
    /\ WF_vars(ReadEvents)
    /\ WF_vars(RunHandler)
    /\ WF_vars(HandlerReturns)

---------------------------------------------------------------------------
(* A handler of a reply, which is bound to a vector on the stack of the     *)
(* caller of SendMessageAndGetResponses, is registered only while that call *)
(* waits: on no way out of the loop is it left behind for a late answer to  *)
(* find.                                                                    *)
HandlersEndWithTheirCall ==
    message_handlers = IF phase = "waiting" THEN {request.seq} ELSE {}

(* What has been collected in response answers the request that waits, and  *)
(* is a beginning of what the kernel answered: sequence numbers keep late   *)
(* answers out although they wrap.                                          *)
ResponseIsOwn ==
    phase = "waiting" /\ response # <<>> =>
        /\ answer[request.call] # NoAnswer
        /\ Len(response) <= Len(answer[request.call])
        /\ response = SubSeq(answer[request.call], 1, Len(response))

(* SendMessageAndGetResponses keeps the promise of RequestReply: true means *)
(* the whole answer of the kernel to this very request.                     *)
Abstract == INSTANCE RequestReply WITH
    Answers <- UNION {AnswersTo(r) : r \in Request},
    response <- IF result THEN response ELSE NoAnswer

ImplementsRequestReply == Abstract!Spec

(* Commands acknowledged to SendMessageAndGetAck were carried out by the    *)
(* kernel without an error, whatever else was late, lost or garbled.        *)
AckMeansDone ==
    phase = "idle" /\ request.kind = "ack" /\ SendMessageAndGetAck =>
        answer[request.call] = <<Msg(request, "error", FALSE, 0)>>

(* With one event to a datagram no event is skipped, repeated or reordered, *)
(* even though handlers make requests that read into the same buffer.       *)
EventsAreKept ==
    frame.at = "none" /\ async_socket = <<>> =>
        dispatched = [i \in 1..sent |-> i]

(* A call returns: neither late answers nor errors nor a silent kernel keep *)
(* wificond in the loop of SendMessageAndGetResponses.                      *)
CallReturns == phase = "waiting" ~> phase = "idle"

(* Every event reaches its handler.                                         *)
EventsAreDispatched ==
    \A n \in 1..MaxEvents :
        sent >= n ~> \E i \in DOMAIN dispatched : dispatched[i] = n
=============================================================================
