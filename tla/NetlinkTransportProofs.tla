----------------------- MODULE NetlinkTransportProofs -----------------------
(***************************************************************************)
(* The bookkeeping of NetlinkManager, for any number of requests and events *)
(* and any sequence space: the handlers of replies, the sequence numbers,   *)
(* the loop over a datagram of events.  Then what                           *)
(* SendMessageAndGetResponses gives its caller: a beginning of the kernel's *)
(* answer to this request, all of it if the answer arrives as it was sent.  *)
(* The last fact is the refinement of RequestReply.                         *)
(***************************************************************************)
EXTENDS NetlinkTransport, Integers, SequenceTheorems, WellFoundedInduction, TLAPS

---------------------------------------------------------------------------
(* No handler of a reply outlives the call it was registered for.  The      *)
(* invariant is inductive as it stands: outside a call the map is empty,    *)
(* so the number of a new request is its only key, and every way out of the *)
(* loop of SendMessageAndGetResponses removes it.                           *)

(* The loop test leaves the map empty when it leaves the loop.              *)
LEMMA LoopTestKeepsHandlers ==
    ASSUME NEW handlers, NEW time, phase = "waiting",
           handlers \subseteq {request.seq}, LoopTest(handlers, time),
           request' = request
    PROVE  HandlersEndWithTheirCall'
<1>1. CASE phase' = "idle" /\ message_handlers' = handlers \ {request.seq}
  BY <1>1 DEF HandlersEndWithTheirCall
<1>2. CASE /\ phase' = "idle"
           /\ request.seq \notin handlers
           /\ message_handlers' = handlers
  BY <1>2 DEF HandlersEndWithTheirCall
<1>3. CASE /\ phase' = phase
           /\ request.seq \in handlers
           /\ message_handlers' = handlers
  BY <1>3 DEF HandlersEndWithTheirCall
<1> QED
  BY <1>1, <1>2, <1>3 DEF LoopTest

(* Every step keeps the invariant.                                          *)
LEMMA HandlersStep ==
    HandlersEndWithTheirCall /\ [Next]_vars => HandlersEndWithTheirCall'
<1> SUFFICES ASSUME HandlersEndWithTheirCall, [Next]_vars
             PROVE  HandlersEndWithTheirCall'
  OBVIOUS
<1>1. ASSUME NEW kind \in Kind, SendMessageAndGetResponses(kind)
      PROVE  HandlersEndWithTheirCall'
  <2>1. phase = "idle" /\ message_handlers = {}
    BY <1>1 DEF SendMessageAndGetResponses, MayCall, HandlersEndWithTheirCall
  <2>2. CASE /\ phase' = "waiting"
             /\ message_handlers' = message_handlers \cup {request'.seq}
    BY <2>1, <2>2 DEF HandlersEndWithTheirCall
  <2>3. CASE phase' = phase /\ message_handlers' = message_handlers
    BY <2>1, <2>3 DEF HandlersEndWithTheirCall
  <2> QED
    BY <1>1, <2>2, <2>3 DEF SendMessageAndGetResponses
<1>2. CASE PollFails
  BY <1>2 DEF PollFails, HandlersEndWithTheirCall
<1>3. ASSUME NEW elapsed \in 0..MaxWait, PollReturns(elapsed)
      PROVE  HandlersEndWithTheirCall'
  <2>1. phase = "waiting" /\ request' = request
    BY <1>3 DEF PollReturns
  <2>2. message_handlers = {request.seq}
    BY <2>1 DEF HandlersEndWithTheirCall
  <2>3. PICK handlers : /\ handlers \subseteq {request.seq}
                        /\ LoopTest(handlers, time_remaining')
    BY <1>3, <2>2 DEF PollReturns
  <2> QED
    BY <2>1, <2>3, LoopTestKeepsHandlers
<1>4. CASE ReadEvents \/ RunHandler \/ HandlerReturns \/ Kernel
  BY <1>4 DEF ReadEvents, RunHandler, HandlerReturns, Kernel, callerVars,
              managerVars, HandlersEndWithTheirCall
<1>5. CASE UNCHANGED vars
  BY <1>5 DEF vars, callerVars, managerVars, HandlersEndWithTheirCall
<1> QED
  BY <1>1, <1>2, <1>3, <1>4, <1>5 DEF Next, Wait

(* Whatever the kernel answers and whenever, and on every way out of        *)
(* SendMessageAndGetResponses (send failure, poll error, timeout, complete  *)
(* or garbled answer), message_handlers_ never keeps a handler that is      *)
(* bound to the response vector of a call that has returned.                *)
THEOREM NoHandlerIsLeftBehind == Spec => []HandlersEndWithTheirCall
<1>1. Init => HandlersEndWithTheirCall
  BY DEF Init, HandlersEndWithTheirCall
<1> QED
  BY <1>1, HandlersStep, PTL DEF Spec

---------------------------------------------------------------------------
(* Sequence numbers.  s is the number of request c, counted back from the   *)
(* latest, which is n and has the number sn; 0 is left out.                 *)
Known(n, sn, c, s) ==
    /\ c \in 1..n /\ n <= c + MaxAge
    /\ s \in 1..(SeqMod - 1)
    /\ s = IF n - c < sn THEN sn - (n - c) ELSE sn - (n - c) + (SeqMod - 1)

(* The messages ms are about request c.                                     *)
About(n, sn, ms, c) ==
    \A i \in DOMAIN ms : ms[i].about = c /\ Known(n, sn, c, ms[i].seq)

(* Every request that is not yet answered, and every message of an answer   *)
(* on its way, has the number of its request.                               *)
Numbered ==
    /\ request.call = calls /\ request.seq = sequence_number
    /\ calls > 0 => sequence_number > 0
    /\ \A c \in Call : c > calls => answer[c] = NoAnswer
    /\ \A r \in unanswered :
          /\ Known(calls, sequence_number, r.call, r.seq)
          /\ answer[r.call] = NoAnswer
          /\ \A q \in unanswered : q.call = r.call => q = r
          /\ r.call = calls => r = request
    /\ \A c \in Call : /\ About(calls, sequence_number, leaving[c], c)
                       /\ leaving[c] # <<>> => answer[c] # NoAnswer
    /\ \A i \in DOMAIN socket :
          /\ socket[i] # <<>>
          /\ \E c \in Call : /\ About(calls, sequence_number, socket[i], c)
                             /\ answer[c] # NoAnswer

(* The loop over a datagram of events stays inside the buffer, and finds    *)
(* events and replies there.                                                *)
FrameOK ==
    /\ phase = "waiting" => frame.at # "loop"
    /\ frame.at # "none" =>
          frame.ptr \in 1..frame.len /\ frame.len <= Len(ReceiveBuffer)
    /\ \A i \in DOMAIN ReceiveBuffer :
          ReceiveBuffer[i].seq = 0 => ReceiveBuffer[i].about \in 1..MaxEvents
    /\ \A k \in DOMAIN async_socket :
          /\ async_socket[k] # <<>>
          /\ \A i \in DOMAIN async_socket[k] :
                async_socket[k][i].about \in 1..MaxEvents

(* The inductive invariant of the bookkeeping.                              *)
BookInv == StateTypes /\ HandlersEndWithTheirCall /\ Numbered /\ FrameOK

---------------------------------------------------------------------------
(* A set of numbers has a least one.                                        *)
LEMMA LeastExists ==
    ASSUME NEW S \in SUBSET Nat, S # {}
    PROVE  \E x \in S : \A y \in S : x <= y
<1> DEFINE R == OpToRel(<, Nat)
<1>1. IsWellFoundedOn(R, Nat)
  BY NatLessThanWellFounded, Zenon
<1>2. \A x, y \in Nat : y < x => <<y, x>> \in R
  BY DEF OpToRel
<1> HIDE DEF R
<1>3. PICK x \in S : \A y \in S : ~(<<y, x>> \in R)
  BY <1>1, WFMin
<1>4. ASSUME NEW y \in S PROVE x <= y
  <2>1. x \in Nat /\ y \in Nat /\ ~(y < x)
    BY <1>2, <1>3
  <2> QED
    BY <2>1
<1> QED
  BY <1>3, <1>4

---------------------------------------------------------------------------
(* A new request has the next number, and the others keep theirs although   *)
(* numbers wrap, as long as no answer is more than MaxAge requests late.    *)
LEMMA NextNumber ==
    ASSUME StateTypes
    PROVE  GetSequenceNumber \in 1..(SeqMod - 1)
BY TransportAssumption DEF StateTypes, GetSequenceNumber

LEMMA KnownAfterCall ==
    ASSUME NEW n \in Nat, NEW sn \in 0..(SeqMod - 1), NEW c, NEW s,
           Known(n, sn, c, s), n + 1 <= c + MaxAge
    PROVE  Known(n + 1, IF sn + 1 = SeqMod THEN 1 ELSE sn + 1, c, s)
BY TransportAssumption DEF Known

LEMMA LatestIsKnown ==
    ASSUME NEW n \in Nat, NEW sn \in 1..(SeqMod - 1)
    PROVE  Known(n + 1, sn, n + 1, sn)
BY TransportAssumption DEF Known

(* The number of the latest request is that of no other.                    *)
LEMMA OnlyLatest ==
    ASSUME NEW n \in Nat, NEW sn \in 0..(SeqMod - 1), NEW c, Known(n, sn, c, sn)
    PROVE  c = n
BY TransportAssumption DEF Known

---------------------------------------------------------------------------
(* The types.  Messages are messages.                                       *)
LEMMA MsgType ==
    ASSUME NEW r \in Request, NEW type \in Type, NEW multi \in BOOLEAN,
           NEW part \in Nat
    PROVE  /\ Msg(r, type, multi, part) \in Message
           /\ Msg(r, type, multi, part).seq = r.seq
           /\ Msg(r, type, multi, part).about = r.call
BY TransportAssumption DEF Msg, Message, Request, Call

LEMMA AnswerType ==
    ASSUME NEW r \in Request, NEW a \in AnswersTo(r)
    PROVE  /\ a \in Seq(Message) /\ a # NoAnswer
           /\ \A i \in DOMAIN a : a[i].about = r.call /\ a[i].seq = r.seq
<1>1. ASSUME NEW m \in Message, a = <<m>>, m.about = r.call, m.seq = r.seq
      PROVE  /\ a \in Seq(Message)
             /\ \A i \in DOMAIN a : a[i].about = r.call /\ a[i].seq = r.seq
  BY <1>1
<1>2. ASSUME NEW n \in 0..MaxParts, a = DumpOf(r, n)
      PROVE  /\ a \in Seq(Message)
             /\ \A i \in DOMAIN a : a[i].about = r.call /\ a[i].seq = r.seq
  <2>1. ASSUME NEW i \in 1..n
        PROVE  /\ Msg(r, "data", TRUE, i) \in Message
               /\ Msg(r, "data", TRUE, i).about = r.call
               /\ Msg(r, "data", TRUE, i).seq = r.seq
    <3>1. i \in Nat /\ "data" \in Type
      BY DEF Type
    <3> QED
      BY <3>1, MsgType
  <2>2. a \in [1..n -> Message] /\ DOMAIN a = 1..n
    BY <1>2, <2>1 DEF DumpOf
  <2>3. a \in Seq(Message)
    BY <2>2, TransportAssumption
  <2> QED
    BY <1>2, <2>1, <2>2, <2>3 DEF DumpOf
<1>3. ASSUME NEW type \in {"error", "data"}, NEW part \in {0, 1}
      PROVE  /\ Msg(r, type, FALSE, part) \in Message
             /\ Msg(r, type, FALSE, part).about = r.call
             /\ Msg(r, type, FALSE, part).seq = r.seq
  <2>1. type \in Type /\ part \in Nat
    BY DEF Type
  <2> QED
    BY <2>1, MsgType
<1>4. \/ \E type \in {"error", "data"}, part \in {0, 1} : a = <<Msg(r, type, FALSE, part)>>
      \/ \E n \in 0..MaxParts : a = DumpOf(r, n)
  <2>1. r.kind \in {"dump", "single", "ack"}
    BY DEF Request, Kind
  <2> QED
    BY <2>1 DEF AnswersTo
<1>5. /\ a \in Seq(Message)
      /\ \A i \in DOMAIN a : a[i].about = r.call /\ a[i].seq = r.seq
  BY <1>1, <1>2, <1>3, <1>4
<1> QED
  BY <1>5, NoAnswerAssumption

(* Messages ms of request r.                                                *)
OfRequest(ms, r) ==
    /\ ms \in Seq(Message)
    /\ \A i \in DOMAIN ms : ms[i].about = r.call /\ ms[i].seq = r.seq

LEMMA OfRequestConcat ==
    ASSUME NEW r, NEW s, NEW t, OfRequest(s, r), OfRequest(t, r)
    PROVE  OfRequest(s \o t, r)
<1>1. s \in Seq(Message) /\ t \in Seq(Message)
  BY DEF OfRequest
<1>2. /\ s \o t \in Seq(Message)
      /\ Len(s \o t) = Len(s) + Len(t)
      /\ \A i \in 1 .. Len(s) + Len(t) :
            (s \o t)[i] = IF i <= Len(s) THEN s[i] ELSE t[i - Len(s)]
  BY <1>1, ConcatProperties
<1>3. /\ DOMAIN s = 1..Len(s) /\ DOMAIN t = 1..Len(t)
      /\ DOMAIN (s \o t) = 1..(Len(s) + Len(t))
      /\ Len(s) \in Nat /\ Len(t) \in Nat
  BY <1>1, <1>2
<1>4. ASSUME NEW i \in 1..(Len(s) + Len(t))
      PROVE  (s \o t)[i].about = r.call /\ (s \o t)[i].seq = r.seq
  <2>1. CASE i <= Len(s)
    <3>1. i \in DOMAIN s /\ (s \o t)[i] = s[i]
      BY <1>2, <1>3, <2>1
    <3> QED
      BY <3>1 DEF OfRequest
  <2>2. CASE ~(i <= Len(s))
    <3>1. i - Len(s) \in DOMAIN t /\ (s \o t)[i] = t[i - Len(s)]
      BY <1>2, <1>3, <2>2
    <3> QED
      BY <3>1 DEF OfRequest
  <2> QED
    BY <2>1, <2>2
<1> QED
  BY <1>2, <1>3, <1>4 DEF OfRequest

LEMMA OfRequestSub ==
    ASSUME NEW r, NEW s, OfRequest(s, r), NEW m \in Int, NEW n \in Int,
           1 <= m, n <= Len(s)
    PROVE  OfRequest(SubSeq(s, m, n), r)
<1>1. s \in Seq(Message) /\ Len(s) \in Nat /\ DOMAIN s = 1..Len(s)
  BY DEF OfRequest
<1>2. \A i \in m..n : i \in DOMAIN s /\ s[i] \in Message
  BY <1>1
<1>3. /\ SubSeq(s, m, n) \in Seq(Message)
      /\ Len(SubSeq(s, m, n)) = IF m <= n THEN n - m + 1 ELSE 0
      /\ \A i \in 1 .. n - m + 1 : SubSeq(s, m, n)[i] = s[m + i - 1]
  BY <1>2, SubSeqProperties
<1>4. DOMAIN SubSeq(s, m, n) = 1..Len(SubSeq(s, m, n))
  BY <1>3
<1>5. ASSUME NEW i \in DOMAIN SubSeq(s, m, n)
      PROVE  /\ SubSeq(s, m, n)[i].about = r.call
             /\ SubSeq(s, m, n)[i].seq = r.seq
  <2>1. i \in 1..(n - m + 1) /\ m + i - 1 \in m..n
    BY <1>3, <1>4
  <2> QED
    BY <1>2, <1>3, <2>1 DEF OfRequest
<1> QED
  BY <1>3, <1>5 DEF OfRequest

LEMMA OfRequestOne ==
    ASSUME NEW r \in Request, NEW type \in Type, NEW multi \in BOOLEAN, NEW part \in Nat
    PROVE  OfRequest(<<Msg(r, type, multi, part)>>, r)
<1>1. PICK m \in Message : /\ m = Msg(r, type, multi, part)
                           /\ m.seq = r.seq /\ m.about = r.call
  BY MsgType
<1>2. OfRequest(<<m>>, r)
  BY <1>1 DEF OfRequest
<1> QED
  BY <1>1, <1>2

(* What leaves the kernel is about the request it answers.                  *)
LEMMA WireType ==
    ASSUME NEW r \in Request, NEW a \in AnswersTo(r)
    PROVE  OfRequest(a, r) /\ OfRequest(Wire(r, a), r)
<1>1. OfRequest(a, r)
  BY AnswerType DEF OfRequest
<1>2. OfRequest(<<Msg(r, "done", TRUE, 0)>>, r)
  BY OfRequestOne DEF Type
<1> QED
  BY <1>1, <1>2, OfRequestConcat DEF Wire

LEMMA GarbledType ==
    ASSUME NEW r \in Request, NEW a, OfRequest(a, r), NEW w \in Garbled(r, a)
    PROVE  OfRequest(w, r)
<1>1. ASSUME NEW i \in 0..(Len(a) - 1), NEW t \in {"done", "overrun"},
             w = SubSeq(a, 1, i) \o <<Msg(r, t, TRUE, 0)>>
      PROVE  OfRequest(w, r)
  <2>1. Len(a) \in Nat /\ i \in Int /\ i <= Len(a)
    BY DEF OfRequest
  <2>2. OfRequest(SubSeq(a, 1, i), r)
    BY <2>1, OfRequestSub
  <2>3. OfRequest(<<Msg(r, t, TRUE, 0)>>, r)
    BY OfRequestOne DEF Type
  <2> QED
    BY <1>1, <2>2, <2>3, OfRequestConcat
<1>2. CASE w = <<Msg(r, "noop", FALSE, 0)>> \o a
  <2>1. OfRequest(<<Msg(r, "noop", FALSE, 0)>>, r)
    BY OfRequestOne DEF Type
  <2> QED
    BY <1>2, <2>1, OfRequestConcat
<1>3. \/ w = <<Msg(r, "noop", FALSE, 0)>> \o a
      \/ \E i \in 0..(Len(a) - 1), t \in {"done", "overrun"} :
            w = SubSeq(a, 1, i) \o <<Msg(r, t, TRUE, 0)>>
  BY DEF Garbled
<1> QED
  BY <1>1, <1>2, <1>3

---------------------------------------------------------------------------
(* The steps.  A request.                                                   *)
LEMMA CallBook ==
    ASSUME BookInv, NEW kind \in Kind, SendMessageAndGetResponses(kind)
    PROVE  StateTypes' /\ Numbered' /\ FrameOK'
<1> USE DEF BookInv
<1> DEFINE req == [call |-> calls + 1, seq |-> GetSequenceNumber, kind |-> kind]
<1>1. /\ calls' = calls + 1 /\ sequence_number' = GetSequenceNumber
      /\ response' = <<>> /\ result' = FALSE /\ request' = req
      /\ \/ /\ phase' = "waiting" /\ time_remaining' = MaxWait
            /\ message_handlers' = message_handlers \cup {req.seq}
            /\ unanswered' = unanswered \cup {req}
         \/ UNCHANGED <<phase, time_remaining, message_handlers, unanswered>>
      /\ UNCHANGED <<frame, ReceiveBuffer, dispatched, async_socket, sent, leaving,
                     socket, sock_err, answer>>
  BY DEF SendMessageAndGetResponses, frameVars, eventVars
<1>2. /\ phase = "idle" /\ frame.at # "loop" /\ calls < MaxCalls
      /\ \A c \in Late : calls + 1 <= c + MaxAge
  BY DEF SendMessageAndGetResponses, MayCall
<1>3. /\ calls \in Nat /\ calls + 1 \in Call /\ GetSequenceNumber \in 1..(SeqMod - 1)
      /\ sequence_number \in 0..(SeqMod - 1)
      /\ req \in Request
  BY <1>2, NextNumber, TransportAssumption DEF StateTypes, Call, Request
<1>4. req.call = calls + 1 /\ req.seq = GetSequenceNumber
  OBVIOUS
<1> HIDE DEF req
<1>5. StateTypes'
  <2>1. /\ phase' \in {"idle", "waiting"} /\ time_remaining' \in 0..MaxWait
        /\ message_handlers' \subseteq 0..(SeqMod - 1)
        /\ unanswered' \subseteq Request
    <3>1. MaxWait \in 0..MaxWait
      BY TransportAssumption
    <3>2. req.seq \in 0..(SeqMod - 1)
      BY <1>3, <1>4, TransportAssumption
    <3>3. phase' \in {"idle", "waiting"} /\ time_remaining' \in 0..MaxWait
      BY <1>1, <3>1 DEF StateTypes
    <3>4. message_handlers' \subseteq 0..(SeqMod - 1)
      BY <1>1, <3>2 DEF StateTypes
    <3>5. unanswered' \subseteq Request
      BY <1>1, <1>3 DEF StateTypes
    <3> QED
      BY <3>3, <3>4, <3>5
  <2>2. /\ calls' \in 0..MaxCalls /\ sequence_number' \in 0..(SeqMod - 1)
        /\ response' \in Seq(Message) /\ request' \in Request
    BY <1>1, <1>2, <1>3 DEF StateTypes, Call
  <2> QED
    BY <1>1, <2>1, <2>2 DEF StateTypes
<1>6. ASSUME NEW c \in Late, NEW n, Known(calls, sequence_number, c, n)
      PROVE  Known(calls', sequence_number', c, n)
  <2>1. Known(calls + 1, IF sequence_number + 1 = SeqMod THEN 1
                         ELSE sequence_number + 1, c, n)
    BY <1>2, <1>3, <1>6, KnownAfterCall
  <2> QED
    BY <1>1, <2>1 DEF GetSequenceNumber
<1>7. /\ \A r \in unanswered : r.call \in Late
      /\ \A c \in Call : leaving[c] # <<>> => c \in Late
      /\ \A i \in DOMAIN socket, c \in Call :
            socket[i] # <<>> /\ About(calls, sequence_number, socket[i], c) => c \in Late
  <2>1. \A r \in unanswered : r.call \in Call
    BY DEF StateTypes, Request
  <2>2. \A r \in unanswered : r.call \in Late
    BY <2>1 DEF Late
  <2>3. \A c \in Call : leaving[c] # <<>> => c \in Late
    BY DEF Late
  <2>4. ASSUME NEW i \in DOMAIN socket, NEW c \in Call, socket[i] # <<>>,
               About(calls, sequence_number, socket[i], c)
        PROVE  c \in Late
    <3>1. socket[i] \in Seq(Message)
      BY DEF StateTypes
    <3>2. 1 \in DOMAIN socket[i]
      BY <2>4, <3>1
    <3>3. socket[i][1].about = c
      BY <2>4, <3>2 DEF About
    <3> QED
      BY <3>2, <3>3 DEF Late
  <2> QED
    BY <2>2, <2>3, <2>4
<1>8. Known(calls', sequence_number', req.call, req.seq)
  BY <1>1, <1>3, <1>4, LatestIsKnown
<1>9. Numbered'
  <2>1. /\ request'.call = calls' /\ request'.seq = sequence_number'
        /\ calls' > 0 => sequence_number' > 0
        /\ \A c \in Call : c > calls' => answer'[c] = NoAnswer
    BY <1>1, <1>3, <1>4 DEF Numbered, Call
  <2>2. ASSUME NEW r \in unanswered'
        PROVE  /\ Known(calls', sequence_number', r.call, r.seq)
               /\ answer'[r.call] = NoAnswer
               /\ \A q \in unanswered' : q.call = r.call => q = r
               /\ r.call = calls' => r = request'
    <3>1. \A q \in unanswered : q.call # calls + 1
      BY <1>3 DEF Numbered, Known
    <3>2. answer[calls + 1] = NoAnswer
      BY <1>3 DEF Numbered
    <3>3. \A q \in unanswered : Known(calls', sequence_number', q.call, q.seq)
      BY <1>6, <1>7 DEF Numbered
    <3>4. unanswered' \subseteq unanswered \cup {req}
      BY <1>1
    <3>5. CASE r = req
      BY <1>1, <1>4, <1>8, <3>1, <3>2, <3>4, <3>5
    <3>6. CASE r \in unanswered
      BY <1>1, <1>4, <3>1, <3>3, <3>4, <3>6 DEF Numbered
    <3> QED
      BY <3>4, <3>5, <3>6
  <2>3. ASSUME NEW c \in Call
        PROVE  About(calls', sequence_number', leaving'[c], c)
    <3>1. leaving[c] # <<>> \/ DOMAIN leaving[c] = {}
      BY DEF StateTypes
    <3> QED
      BY <1>1, <1>6, <1>7, <3>1 DEF Numbered, About
  <2>4. ASSUME NEW i \in DOMAIN socket'
        PROVE  /\ socket'[i] # <<>>
               /\ \E c \in Call : /\ About(calls', sequence_number', socket'[i], c)
                                  /\ answer'[c] # NoAnswer
    <3>1. i \in DOMAIN socket /\ socket' = socket /\ socket[i] # <<>>
      BY <1>1 DEF Numbered
    <3>2. PICK c \in Call : /\ About(calls, sequence_number, socket[i], c)
                            /\ answer[c] # NoAnswer
      BY <3>1 DEF Numbered
    <3>3. c \in Late
      BY <1>7, <3>1, <3>2
    <3>4. About(calls', sequence_number', socket[i], c)
      BY <1>6, <3>2, <3>3 DEF About
    <3> QED
      BY <1>1, <3>1, <3>2, <3>4
  <2>5. \A c \in Call : leaving'[c] # <<>> => answer'[c] # NoAnswer
    BY <1>1 DEF Numbered
  <2> QED
    BY <2>1, <2>2, <2>3, <2>4, <2>5 DEF Numbered
<1>10. FrameOK'
  BY <1>1, <1>2 DEF FrameOK
<1> QED
  BY <1>5, <1>9, <1>10

(* The socket is read.                                                      *)
LEMMA ShorterSocket ==
    ASSUME BookInv, socket # <<>>, socket' = Tail(socket),
           UNCHANGED <<request, calls, sequence_number, unanswered, leaving, answer>>
    PROVE  Numbered'
<1> USE DEF BookInv
<1>1. socket \in Seq(Seq(Message))
  BY DEF StateTypes
<1>2. ASSUME NEW i \in DOMAIN socket'
      PROVE  i + 1 \in DOMAIN socket /\ socket'[i] = socket[i + 1]
  BY <1>1
<1> QED
  BY <1>2 DEF Numbered

(* The messages a request of wificond finds in the socket.                  *)
LEMMA HeadOfSocket ==
    ASSUME BookInv, socket # <<>>
    PROVE  /\ Head(socket) = socket[1] /\ Head(socket) \in Seq(Message)
           /\ Head(socket) # <<>> /\ 1 \in DOMAIN Head(socket)
           /\ \E c \in Call : /\ About(calls, sequence_number, Head(socket), c)
                              /\ answer[c] # NoAnswer
<1> USE DEF BookInv
<1>1. socket \in Seq(Seq(Message)) /\ 1 \in DOMAIN socket /\ Head(socket) = socket[1]
  BY DEF StateTypes
<1>2. Head(socket) \in Seq(Message)
  BY <1>1
<1>3. Head(socket) # <<>> /\ \E c \in Call : /\ About(calls, sequence_number, Head(socket), c)
                                            /\ answer[c] # NoAnswer
  BY <1>1 DEF Numbered
<1>4. 1 \in DOMAIN Head(socket)
  BY <1>2, <1>3
<1> QED
  BY <1>1, <1>2, <1>3, <1>4

(* The buffer after a reply is read into it in the middle of a loop.        *)
LEMMA OverwrittenSeq ==
    ASSUME NEW d \in Seq(Message), NEW buf \in Seq(Message)
    PROVE  LET b == d \o SubSeq(buf, Len(d) + 1, Len(buf)) IN
           /\ b \in Seq(Message)
           /\ Len(buf) <= Len(b)
           /\ \A i \in DOMAIN b : \/ i \in DOMAIN d /\ b[i] = d[i]
                                  \/ i \in DOMAIN buf /\ b[i] = buf[i]
<1> DEFINE rest == SubSeq(buf, Len(d) + 1, Len(buf))
           b == d \o rest
<1>1. PICK l \in Nat, n \in Nat : l = Len(d) /\ n = Len(buf)
  OBVIOUS
<1>2. DOMAIN d = 1..l /\ DOMAIN buf = 1..n
  BY <1>1
<1>3. CASE n <= l
  <2>1. rest = <<>>
    BY <1>1, <1>3, SubSeqEmpty
  <2>2. b = d
    BY <2>1, ConcatEmptySeq
  <2> QED
    BY <1>1, <1>3, <2>2
<1>4. CASE l < n
  <2>1. \A i \in (l + 1)..n : buf[i] \in Message
    BY <1>2
  <2>2. /\ rest \in Seq(Message)
        /\ Len(rest) = IF l + 1 <= n THEN n - (l + 1) + 1 ELSE 0
        /\ \A i \in 1..(n - (l + 1) + 1) : rest[i] = buf[(l + 1) + i - 1]
    BY <1>1, <2>1, SubSeqProperties
  <2>3. Len(rest) = n - l
    BY <1>4, <2>2
  <2> HIDE DEF rest
  <2>4. /\ b \in Seq(Message) /\ Len(b) = l + (n - l)
        /\ \A i \in 1 .. l + (n - l) :
              b[i] = IF i <= l THEN d[i] ELSE rest[i - l]
    BY <1>1, <2>2, <2>3, ConcatProperties
  <2> HIDE DEF b
  <2>5. Len(b) = n /\ DOMAIN b = 1..n
    BY <2>4
  <2>6. ASSUME NEW i \in 1..n
        PROVE  \/ i \in DOMAIN d /\ b[i] = d[i]
               \/ i \in DOMAIN buf /\ b[i] = buf[i]
    <3>1. CASE i <= l
      BY <1>2, <1>4, <2>4, <3>1
    <3>2. CASE ~(i <= l)
      <4>1. i - l \in 1..(n - (l + 1) + 1) /\ (l + 1) + (i - l) - 1 = i
        BY <1>4, <3>2
      <4>2. b[i] = rest[i - l]
        BY <1>4, <2>4, <3>2
      <4> QED
        BY <1>2, <2>2, <4>1, <4>2
    <3> QED
      BY <3>1, <3>2
  <2>7. /\ b \in Seq(Message)
        /\ Len(buf) <= Len(b)
        /\ \A i \in DOMAIN b : \/ i \in DOMAIN d /\ b[i] = d[i]
                               \/ i \in DOMAIN buf /\ b[i] = buf[i]
    BY <1>1, <2>4, <2>5, <2>6
  <2> QED
    BY <2>7, Zenon DEF b, rest
<1> QED
  BY <1>3, <1>4

LEMMA OverwrittenType ==
    ASSUME BookInv, socket # <<>>
    PROVE  LET b == Overwritten(Head(socket)) IN
           /\ b \in Seq(Message)
           /\ Len(ReceiveBuffer) <= Len(b)
           /\ \A i \in DOMAIN b : b[i].seq = 0 => b[i].about \in 1..MaxEvents
<1> USE DEF BookInv
<1> DEFINE d == Head(socket)
           b == Overwritten(d)
<1>1. d \in Seq(Message) /\ \A i \in DOMAIN d : d[i].seq # 0
  <2>1. PICK c : About(calls, sequence_number, d, c)
    BY HeadOfSocket
  <2>2. d \in Seq(Message)
    BY HeadOfSocket
  <2> QED
    BY <2>1, <2>2, TransportAssumption DEF About, Known
<1> HIDE DEF d
<1>2. ReceiveBuffer \in Seq(Message)
  BY DEF StateTypes
<1>3. /\ b \in Seq(Message)
      /\ Len(ReceiveBuffer) <= Len(b)
      /\ \A i \in DOMAIN b : \/ i \in DOMAIN d /\ b[i] = d[i]
                             \/ i \in DOMAIN ReceiveBuffer /\ b[i] = ReceiveBuffer[i]
  BY <1>1, <1>2, OverwrittenSeq DEF Overwritten
<1> HIDE DEF b
<1>4. \A i \in DOMAIN b : b[i].seq = 0 => b[i].about \in 1..MaxEvents
  BY <1>1, <1>3 DEF FrameOK
<1> QED
  BY <1>3, <1>4 DEF b, d

---------------------------------------------------------------------------
(* What the handler is given of a datagram is a beginning of it.            *)
LEMMA DeliveredType ==
    ASSUME NEW d \in Seq(Message)
    PROVE  Delivered(d) \in Seq(Message)
<1> DEFINE last == {i \in DOMAIN d : IsLast(d[i])}
           first == CHOOSE i \in last : \A j \in last : i <= j
<1>1. CASE last = {}
  BY <1>1 DEF Delivered
<1>2. CASE last # {}
  <2>1. last \in SUBSET Nat
    OBVIOUS
  <2>2. first \in last
    BY <1>2, <2>1, LeastExists
  <2> HIDE DEF first
  <2>3. first \in 1..Len(d)
    BY <2>2
  <2>4. PICK n \in 0..Len(d) : n = IF IsPayload(d[first]) THEN first ELSE first - 1
    BY <2>3
  <2>5. \A i \in 1..n : d[i] \in Message
    BY <2>4
  <2>6. SubSeq(d, 1, n) \in Seq(Message)
    BY <2>4, <2>5, SubSeqProperties
  <2> QED
    BY <1>2, <2>4, <2>6 DEF Delivered, first
<1> QED
  BY <1>1, <1>2

(* Numbered is about these variables only.                                  *)
numberVars == <<request, calls, sequence_number, unanswered, leaving, socket, answer>>

LEMMA NumberedUnchanged ==
    ASSUME Numbered, UNCHANGED numberVars
    PROVE  Numbered'
BY DEF Numbered, numberVars

(* The loop of SendMessageAndGetResponses.                                  *)
LEMMA LoopTestType ==
    ASSUME NEW handlers \in SUBSET (0..(SeqMod - 1)), NEW time, StateTypes,
           LoopTest(handlers, time)
    PROVE  /\ phase' \in {"idle", "waiting"} /\ result' \in BOOLEAN
           /\ message_handlers' \subseteq 0..(SeqMod - 1)
           /\ phase' = "waiting" => phase = "waiting"
BY DEF LoopTest, StateTypes

LEMMA PollReturnsBook ==
    ASSUME BookInv, NEW elapsed \in 0..MaxWait, PollReturns(elapsed)
    PROVE  StateTypes' /\ Numbered' /\ FrameOK'
<1> USE DEF BookInv
<1>1. /\ time_remaining' = Minus(time_remaining, elapsed)
      /\ UNCHANGED <<request, sequence_number, frame, dispatched, async_socket, sent,
                     unanswered, leaving, answer, calls>>
      /\ phase = "waiting" /\ frame.at # "loop"
  BY DEF PollReturns, eventVars, FrameOK
<1>2. time_remaining' \in 0..MaxWait
  BY <1>1, TransportAssumption DEF StateTypes, Minus
<1>3. CASE sock_err
  <2>1. /\ sock_err' = FALSE /\ UNCHANGED <<socket, ReceiveBuffer, response>>
        /\ LoopTest(message_handlers, time_remaining')
    BY <1>3 DEF PollReturns
  <2>2. /\ phase' \in {"idle", "waiting"} /\ result' \in BOOLEAN
        /\ message_handlers' \subseteq 0..(SeqMod - 1)
    BY <2>1, LoopTestType DEF StateTypes
  <2>3. StateTypes'
    BY <1>1, <1>2, <2>1, <2>2 DEF StateTypes
  <2>4. Numbered'
    BY <1>1, <2>1, NumberedUnchanged DEF numberVars
  <2>5. FrameOK'
    BY <1>1, <2>1 DEF FrameOK
  <2> QED
    BY <2>3, <2>4, <2>5
<1>4. CASE ~sock_err
  <2> DEFINE d == Head(socket)
  <2>1. /\ socket # <<>> /\ socket' = Tail(socket) /\ UNCHANGED sock_err
        /\ LoopTest(message_handlers \ Removed(d), time_remaining')
        /\ ReceiveBuffer' = IF frame.at = "none" THEN <<>> ELSE Overwritten(d)
        /\ response' = IF HasHandler(d) THEN response \o Delivered(d) ELSE response
    BY <1>4 DEF PollReturns, Receive
  <2>2. /\ phase' \in {"idle", "waiting"} /\ result' \in BOOLEAN
        /\ message_handlers' \subseteq 0..(SeqMod - 1)
    <3>1. message_handlers \ Removed(d) \in SUBSET (0..(SeqMod - 1))
      BY DEF StateTypes
    <3> QED
      BY <2>1, <3>1, LoopTestType
  <2>3. response' \in Seq(Message)
    <3>1. Delivered(d) \in Seq(Message)
      BY <2>1, HeadOfSocket, DeliveredType
    <3>2. response \in Seq(Message)
      BY DEF StateTypes
    <3>3. response \o Delivered(d) \in Seq(Message)
      BY <3>1, <3>2, ConcatProperties
    <3> QED
      BY <2>1, <3>2, <3>3
  <2>4. /\ ReceiveBuffer' \in Seq(Message)
        /\ frame.at # "none" => Len(ReceiveBuffer) <= Len(ReceiveBuffer')
        /\ \A i \in DOMAIN ReceiveBuffer' : ReceiveBuffer'[i].seq = 0 =>
              ReceiveBuffer'[i].about \in 1..MaxEvents
    <3>1. CASE frame.at = "none"
      BY <2>1, <3>1
    <3>2. CASE frame.at # "none"
      BY <2>1, <3>2, OverwrittenType
    <3> QED
      BY <3>1, <3>2
  <2>5. socket' \in Seq(Seq(Message))
    BY <2>1 DEF StateTypes
  <2> HIDE DEF d
  <2>6. StateTypes'
    BY <1>1, <1>2, <2>1, <2>2, <2>3, <2>4, <2>5 DEF StateTypes
  <2>7. Numbered'
    BY <1>1, <2>1, ShorterSocket
  <2>8. FrameOK'
    <3>1. Len(ReceiveBuffer) \in Nat /\ Len(ReceiveBuffer') \in Nat /\ frame.len \in Nat
      BY <2>4 DEF StateTypes
    <3>2. frame.at # "none" => /\ frame.ptr \in 1..frame.len
                               /\ frame.len <= Len(ReceiveBuffer')
      BY <2>4, <3>1 DEF FrameOK
    <3> QED
      BY <1>1, <2>4, <3>2 DEF FrameOK
  <2> QED
    BY <2>6, <2>7, <2>8
<1> QED
  BY <1>3, <1>4

LEMMA PollFailsBook ==
    ASSUME BookInv, PollFails
    PROVE  StateTypes' /\ Numbered' /\ FrameOK'
<1> USE DEF BookInv
<1>1. /\ phase' = "idle" /\ result' = FALSE
      /\ message_handlers' \subseteq message_handlers
      /\ UNCHANGED <<request, time_remaining, response, sequence_number, frame,
                     ReceiveBuffer, dispatched, async_socket, sent, unanswered, leaving,
                     socket, sock_err, answer, calls>>
  BY DEF PollFails, frameVars, eventVars, kernelVars
<1>2. StateTypes'
  BY <1>1 DEF StateTypes
<1>3. Numbered'
  BY <1>1, NumberedUnchanged DEF numberVars
<1>4. FrameOK'
  BY <1>1 DEF FrameOK
<1> QED
  BY <1>2, <1>3, <1>4

---------------------------------------------------------------------------
(* The loop over a datagram of events.                                      *)
LEMMA EventsBook ==
    ASSUME BookInv, ReadEvents \/ RunHandler \/ HandlerReturns
    PROVE  StateTypes' /\ Numbered' /\ FrameOK'
<1> USE DEF BookInv
<1>1. /\ UNCHANGED <<phase, request, time_remaining, response, result, sequence_number,
                     message_handlers, sent, unanswered, leaving, socket, sock_err, answer,
                     calls>>
  BY DEF ReadEvents, RunHandler, HandlerReturns, callerVars, managerVars, eventVars,
         kernelVars
<1>2. Numbered'
  BY <1>1, NumberedUnchanged DEF numberVars
<1>3. frame \in [at : {"none", "loop", "handler"}, ptr : Nat, len : Nat]
  BY DEF StateTypes
<1>4. CASE ReadEvents
  <2> DEFINE d == Head(async_socket)
  <2>1. /\ phase = "idle" /\ async_socket # <<>> /\ async_socket' = Tail(async_socket)
        /\ ReceiveBuffer' = d /\ frame' = [at |-> "loop", ptr |-> 1, len |-> Len(d)]
        /\ UNCHANGED dispatched
    BY <1>4 DEF ReadEvents
  <2>2. /\ async_socket \in Seq(Seq(Message)) /\ 1 \in DOMAIN async_socket
        /\ d = async_socket[1] /\ d \in Seq(Message)
    BY <2>1 DEF StateTypes
  <2>3. /\ d # <<>>
        /\ \A i \in DOMAIN d : d[i].about \in 1..MaxEvents
    BY <2>2 DEF FrameOK
  <2>4. async_socket' \in Seq(Seq(Message))
        /\ \A k \in DOMAIN async_socket' : /\ k + 1 \in DOMAIN async_socket
                                           /\ async_socket'[k] = async_socket[k + 1]
    BY <2>1, <2>2
  <2>5. Len(d) \in Nat /\ Len(d) >= 1
    BY <2>2, <2>3
  <2> HIDE DEF d
  <2>6. StateTypes'
    <3>1. frame' \in [at : {"none", "loop", "handler"}, ptr : Nat, len : Nat]
      BY <2>1, <2>5
    <3> QED
      BY <1>1, <2>1, <2>2, <2>4, <3>1 DEF StateTypes
  <2>7. FrameOK'
    BY <1>1, <2>1, <2>3, <2>4, <2>5 DEF FrameOK
  <2> QED
    BY <1>2, <2>6, <2>7
<1>5. ASSUME EndFrame, UNCHANGED <<async_socket, dispatched>>
      PROVE  StateTypes' /\ FrameOK'
  <2>1. frame' \in [at : {"none", "loop", "handler"}, ptr : Nat, len : Nat]
        /\ frame'.at = "none" /\ ReceiveBuffer' = <<>>
    BY <1>5 DEF EndFrame, NoFrame
  <2>2. StateTypes'
    BY <1>1, <1>5, <2>1 DEF StateTypes
  <2>3. FrameOK'
    BY <1>1, <1>5, <2>1 DEF FrameOK
  <2> QED
    BY <2>2, <2>3
<1>6. CASE RunHandler
  <2>1. frame.at = "loop" /\ UNCHANGED <<async_socket>>
    BY <1>6 DEF RunHandler, eventVars
  <2>2. CASE ReceiveBuffer[frame.ptr].seq = 0
    <3>1. /\ frame' = [frame EXCEPT !.at = "handler"] /\ UNCHANGED ReceiveBuffer
          /\ dispatched' = Append(dispatched, ReceiveBuffer[frame.ptr].about)
      BY <1>6, <2>2 DEF RunHandler
    <3>2. frame.ptr \in DOMAIN ReceiveBuffer
      BY <1>3, <2>1 DEF FrameOK, StateTypes
    <3>3. ReceiveBuffer[frame.ptr].about \in 1..MaxEvents
      BY <2>2, <3>2 DEF FrameOK
    <3>4. /\ frame' \in [at : {"none", "loop", "handler"}, ptr : Nat, len : Nat]
          /\ frame'.at = "handler" /\ frame'.ptr = frame.ptr /\ frame'.len = frame.len
      BY <1>3, <3>1
    <3>5. dispatched' \in Seq(1..MaxEvents)
      <4>1. dispatched \in Seq(1..MaxEvents)
        BY DEF StateTypes
      <4> QED
        BY <3>1, <3>3, <4>1, AppendProperties
    <3>6. StateTypes'
      BY <1>1, <2>1, <3>1, <3>4, <3>5 DEF StateTypes
    <3>7. FrameOK'
      BY <1>1, <2>1, <3>1, <3>4 DEF FrameOK
    <3> QED
      BY <1>2, <3>6, <3>7
  <2>3. CASE ReceiveBuffer[frame.ptr].seq # 0
    BY <1>2, <1>5, <1>6, <2>1, <2>3 DEF RunHandler
  <2> QED
    BY <2>2, <2>3
<1>7. CASE HandlerReturns
  <2>1. frame.at = "handler" /\ phase = "idle" /\ UNCHANGED <<async_socket, dispatched>>
    BY <1>7 DEF HandlerReturns, eventVars
  <2>2. CASE frame.ptr = frame.len
    BY <1>2, <1>5, <1>7, <2>1, <2>2 DEF HandlerReturns
  <2>3. CASE frame.ptr # frame.len
    <3>1. /\ frame' = [frame EXCEPT !.at = "loop", !.ptr = @ + 1]
          /\ UNCHANGED ReceiveBuffer
      BY <1>7, <2>3 DEF HandlerReturns
    <3>2. frame.ptr + 1 \in 1..frame.len
      BY <1>3, <2>1, <2>3 DEF FrameOK
    <3>3. /\ frame' \in [at : {"none", "loop", "handler"}, ptr : Nat, len : Nat]
          /\ frame'.at = "loop" /\ frame'.ptr = frame.ptr + 1 /\ frame'.len = frame.len
      <4>1. frame' = [at |-> "loop", ptr |-> frame.ptr + 1, len |-> frame.len]
        BY <1>3, <3>1
      <4>2. frame.ptr + 1 \in Nat /\ frame.len \in Nat
        BY <1>3
      <4> QED
        BY <4>1, <4>2
    <3>4. StateTypes'
      BY <1>1, <2>1, <3>1, <3>3 DEF StateTypes
    <3>5. FrameOK'
      BY <1>1, <2>1, <3>1, <3>2, <3>3 DEF FrameOK
    <3> QED
      BY <1>2, <3>4, <3>5
  <2> QED
    BY <2>2, <2>3
<1> QED
  BY <1>4, <1>6, <1>7

---------------------------------------------------------------------------
(* The kernel.                                                              *)
LEMMA FrameUnchanged ==
    ASSUME FrameOK, UNCHANGED <<phase, frame, ReceiveBuffer, async_socket>>
    PROVE  FrameOK'
BY DEF FrameOK

LEMMA ServesBook ==
    ASSUME BookInv, NEW r \in unanswered, KernelServes(r),
           UNCHANGED <<callerVars, managerVars, frameVars, eventVars, calls>>
    PROVE  StateTypes' /\ Numbered' /\ FrameOK'
<1> USE DEF BookInv
<1>1. PICK a \in AnswersTo(r) :
         /\ answer' = [answer EXCEPT ![r.call] = a]
         /\ \E w \in {Wire(r, a)} \cup Garbled(r, Wire(r, a)) :
               leaving' = [leaving EXCEPT ![r.call] = w]
  BY DEF KernelServes
<1>2. PICK w \in {Wire(r, a)} \cup Garbled(r, Wire(r, a)) :
         leaving' = [leaving EXCEPT ![r.call] = w]
  BY <1>1
<1>3. /\ unanswered' = unanswered \ {r} /\ UNCHANGED <<socket, sock_err>>
      /\ UNCHANGED <<phase, request, time_remaining, response, result, sequence_number,
                     message_handlers, frame, ReceiveBuffer, dispatched, async_socket, sent,
                     calls>>
  BY DEF KernelServes, callerVars, managerVars, frameVars, eventVars
<1>4. r \in Request /\ r.call \in Call
  BY DEF StateTypes, Request
<1>5. OfRequest(a, r) /\ OfRequest(w, r) /\ a # NoAnswer
  <2>1. OfRequest(a, r) /\ OfRequest(Wire(r, a), r)
    BY <1>1, <1>4, WireType
  <2>2. OfRequest(w, r)
    BY <1>2, <1>4, <2>1, GarbledType
  <2> QED
    BY <1>1, <1>4, <2>1, <2>2, AnswerType
<1>6. /\ answer' \in [Call -> Seq(Message) \cup {NoAnswer}]
      /\ leaving' \in [Call -> Seq(Message)]
      /\ answer'[r.call] = a /\ leaving'[r.call] = w
      /\ \A c \in Call : c # r.call => answer'[c] = answer[c] /\ leaving'[c] = leaving[c]
  BY <1>1, <1>2, <1>4, <1>5 DEF StateTypes, OfRequest
<1>7. StateTypes'
  BY <1>3, <1>6 DEF StateTypes
<1>8. Known(calls, sequence_number, r.call, r.seq)
  BY DEF Numbered
<1>9. Numbered'
  <2>1. \A c \in Call : c > calls' => answer'[c] = NoAnswer
    <3>1. r.call \in 1..calls
      BY <1>8 DEF Known
    <3> QED
      BY <1>3, <1>6, <3>1 DEF Numbered, StateTypes, Call
  <2>2. ASSUME NEW q \in unanswered'
        PROVE  /\ Known(calls', sequence_number', q.call, q.seq)
               /\ answer'[q.call] = NoAnswer
               /\ \A p \in unanswered' : p.call = q.call => p = q
               /\ q.call = calls' => q = request'
    <3>1. q \in unanswered /\ q # r /\ q.call \in Call
      BY <1>3 DEF StateTypes, Request
    <3>2. q.call # r.call
      BY <3>1 DEF Numbered
    <3> QED
      BY <1>3, <1>6, <3>1, <3>2 DEF Numbered
  <2>3. ASSUME NEW c \in Call
        PROVE  /\ About(calls', sequence_number', leaving'[c], c)
               /\ leaving'[c] # <<>> => answer'[c] # NoAnswer
    <3>1. CASE c = r.call
      BY <1>3, <1>5, <1>6, <1>8, <3>1 DEF About, OfRequest
    <3>2. CASE c # r.call
      BY <1>3, <1>6, <3>2 DEF Numbered
    <3> QED
      BY <3>1, <3>2
  <2>4. ASSUME NEW i \in DOMAIN socket'
        PROVE  /\ socket'[i] # <<>>
               /\ \E c \in Call : /\ About(calls', sequence_number', socket'[i], c)
                                  /\ answer'[c] # NoAnswer
    <3>1. PICK c \in Call : /\ About(calls, sequence_number, socket[i], c)
                            /\ answer[c] # NoAnswer
      BY <1>3 DEF Numbered
    <3>2. answer'[c] # NoAnswer
      BY <1>5, <1>6, <3>1
    <3> QED
      BY <1>3, <3>1, <3>2 DEF Numbered
  <2>5. request'.call = calls' /\ request'.seq = sequence_number'
        /\ (calls' > 0 => sequence_number' > 0)
    BY <1>3 DEF Numbered
  <2> QED
    BY <2>1, <2>2, <2>3, <2>4, <2>5 DEF Numbered
<1> QED
  BY <1>3, <1>7, <1>9, FrameUnchanged

LEMMA RepliesBook ==
    ASSUME BookInv, NEW c \in Call, KernelReplies(c),
           UNCHANGED <<callerVars, managerVars, frameVars, eventVars, calls>>
    PROVE  StateTypes' /\ Numbered' /\ FrameOK'
<1> USE DEF BookInv
<1>1. /\ leaving[c] # <<>> /\ UNCHANGED <<unanswered, answer>>
      /\ UNCHANGED <<phase, request, time_remaining, response, result, sequence_number,
                     message_handlers, frame, ReceiveBuffer, dispatched, async_socket, sent,
                     calls>>
  BY DEF KernelReplies, callerVars, managerVars, frameVars, eventVars
<1>2. /\ leaving[c] \in Seq(Message) /\ Len(leaving[c]) \in Nat
      /\ DOMAIN leaving[c] = 1..Len(leaving[c])
      /\ About(calls, sequence_number, leaving[c], c) /\ answer[c] # NoAnswer
      /\ leaving \in [Call -> Seq(Message)]
  BY <1>1 DEF StateTypes, Numbered
<1>3. ASSUME NEW k \in 1..Len(leaving[c]),
             socket' = Append(socket, SubSeq(leaving[c], 1, k)),
             leaving' = [leaving EXCEPT ![c] = SubSeq(@, k + 1, Len(@))],
             UNCHANGED sock_err
      PROVE  StateTypes' /\ Numbered'
  <2> DEFINE d == SubSeq(leaving[c], 1, k)
             l == SubSeq(leaving[c], k + 1, Len(leaving[c]))
  <2>1. /\ \A i \in 1..k : leaving[c][i] \in Message
        /\ \A i \in (k + 1)..Len(leaving[c]) : leaving[c][i] \in Message
    BY <1>2, <1>3
  <2>2. /\ d \in Seq(Message) /\ Len(d) = k
        /\ \A i \in 1..k : d[i] = leaving[c][i]
    <3>1. /\ d \in Seq(Message) /\ Len(d) = IF 1 <= k THEN k - 1 + 1 ELSE 0
          /\ \A i \in 1..(k - 1 + 1) : d[i] = leaving[c][1 + i - 1]
      BY <1>2, <1>3, <2>1, SubSeqProperties
    <3> HIDE DEF d
    <3>2. Len(d) = k /\ \A i \in 1..k : d[i] = leaving[c][i]
      BY <3>1
    <3> QED
      BY <3>1, <3>2
  <2>3. /\ l \in Seq(Message)
        /\ \A i \in DOMAIN l : /\ i + k \in DOMAIN leaving[c] /\ l[i] = leaving[c][i + k]
    <3>0. PICK n \in Nat : n = Len(leaving[c])
      BY <1>2
    <3>1. /\ l \in Seq(Message) /\ Len(l) = IF k + 1 <= n THEN n - (k + 1) + 1 ELSE 0
          /\ \A i \in 1..(n - (k + 1) + 1) : l[i] = leaving[c][(k + 1) + i - 1]
      BY <1>2, <1>3, <2>1, <3>0, SubSeqProperties
    <3> HIDE DEF l
    <3>2. Len(l) = n - k /\ n - k \in Nat
      BY <1>3, <3>0, <3>1
    <3>3. DOMAIN l = 1..(n - k)
      BY <3>1, <3>2
    <3>4. ASSUME NEW i \in 1..(n - k)
          PROVE  i + k \in 1..n /\ l[i] = leaving[c][i + k]
      <4>1. i + k \in 1..n /\ i \in 1..(n - (k + 1) + 1) /\ (k + 1) + i - 1 = i + k
        BY <1>3, <3>0, <3>2
      <4> QED
        BY <3>1, <4>1
    <3> QED
      BY <1>2, <3>0, <3>1, <3>3, <3>4
  <2>4. socket' = Append(socket, d) /\ leaving' = [leaving EXCEPT ![c] = l]
    BY <1>3
  <2> HIDE DEF d, l
  <2>5. /\ leaving' \in [Call -> Seq(Message)] /\ leaving'[c] = l
        /\ \A x \in Call : x # c => leaving'[x] = leaving[x]
    BY <1>2, <2>3, <2>4
  <2>6. /\ socket' \in Seq(Seq(Message)) /\ Len(socket') = Len(socket) + 1
        /\ \A i \in 1..Len(socket) : socket'[i] = socket[i]
        /\ socket'[Len(socket) + 1] = d
        /\ socket \in Seq(Seq(Message))
    <3>1. socket \in Seq(Seq(Message))
      BY DEF StateTypes
    <3> QED
      BY <2>2, <2>4, <3>1, AppendProperties
  <2>7. StateTypes'
    BY <1>1, <1>3, <2>5, <2>6 DEF StateTypes
  <2>8. About(calls, sequence_number, d, c) /\ d # <<>>
    <3>1. DOMAIN d = 1..k /\ k >= 1
      BY <1>3, <2>2
    <3>2. d # <<>>
      BY <2>2, <3>1
    <3>3. \A i \in 1..k : i \in DOMAIN leaving[c]
      BY <1>2, <1>3
    <3> QED
      BY <1>2, <2>2, <3>1, <3>2, <3>3 DEF About
  <2>9. About(calls, sequence_number, l, c)
    BY <1>2, <2>3 DEF About
  <2>10. ASSUME NEW i \in DOMAIN socket'
         PROVE  /\ socket'[i] # <<>>
                /\ \E x \in Call : /\ About(calls, sequence_number, socket'[i], x)
                                   /\ answer[x] # NoAnswer
    <3>1. (i \in DOMAIN socket /\ socket'[i] = socket[i]) \/ socket'[i] = d
      BY <2>6
    <3> QED
      BY <1>2, <2>8, <3>1 DEF Numbered
  <2>11. \A x \in Call : /\ About(calls, sequence_number, leaving'[x], x)
                         /\ leaving'[x] # <<>> => answer[x] # NoAnswer
    BY <1>2, <2>5, <2>9 DEF Numbered
  <2>12. Numbered'
    BY <1>1, <2>10, <2>11 DEF Numbered
  <2> QED
    BY <2>7, <2>12
<1>4. ASSUME leaving' = [leaving EXCEPT ![c] = <<>>], sock_err' = TRUE, UNCHANGED socket
      PROVE  StateTypes' /\ Numbered'
  <2>1. /\ leaving' \in [Call -> Seq(Message)] /\ leaving'[c] = <<>>
        /\ \A x \in Call : x # c => leaving'[x] = leaving[x]
    BY <1>2, <1>4
  <2>2. StateTypes'
    BY <1>1, <1>4, <2>1 DEF StateTypes
  <2>3. \A x \in Call : /\ About(calls, sequence_number, leaving'[x], x)
                        /\ leaving'[x] # <<>> => answer[x] # NoAnswer
    BY <1>2, <2>1 DEF Numbered, About
  <2> QED
    BY <1>1, <1>4, <2>2, <2>3 DEF Numbered
<1> QED
  BY <1>1, <1>3, <1>4, FrameUnchanged DEF KernelReplies

LEMMA SendsBook ==
    ASSUME BookInv, NEW n \in 1..2, KernelSendsEvents(n),
           UNCHANGED <<callerVars, managerVars, frameVars, kernelVars, calls>>
    PROVE  /\ StateTypes' /\ Numbered' /\ FrameOK'
           /\ [i \in 1..n |-> Event(sent + i)] \in Seq(Message)
<1> USE DEF BookInv
<1> DEFINE d == [i \in 1..n |-> Event(sent + i)]
<1>1. /\ UNCHANGED <<phase, request, time_remaining, response, result, sequence_number,
                     message_handlers, frame, ReceiveBuffer, dispatched, unanswered, leaving,
                     socket, sock_err, answer, calls>>
      /\ sent + n <= MaxEvents /\ sent' = sent + n
      /\ async_socket' = Append(async_socket, d)
  BY DEF KernelSendsEvents, callerVars, managerVars, frameVars, kernelVars
<1>2. /\ sent \in Nat /\ n \in Nat /\ n >= 1 /\ sent' \in 0..MaxEvents
  BY <1>1, TransportAssumption DEF StateTypes
<1>3. ASSUME NEW i \in 1..n
      PROVE  Event(sent + i) \in Message /\ Event(sent + i).about \in 1..MaxEvents
  <2>1. sent + i \in 1..MaxEvents /\ sent + i \in Nat /\ 0 \in 0..(SeqMod - 1)
    BY <1>1, <1>2, TransportAssumption
  <2> QED
    BY <2>1 DEF Event, Message, Type
<1>4. d \in Seq(Message) /\ DOMAIN d = 1..n /\ \A i \in 1..n : d[i] = Event(sent + i)
  BY <1>2, <1>3
<1> HIDE DEF d
<1>5. d # <<>>
  BY <1>2, <1>4
<1>6. /\ async_socket \in Seq(Seq(Message))
      /\ async_socket' \in Seq(Seq(Message)) /\ Len(async_socket') = Len(async_socket) + 1
      /\ \A i \in 1..Len(async_socket) : async_socket'[i] = async_socket[i]
      /\ async_socket'[Len(async_socket) + 1] = d
  <2>1. async_socket \in Seq(Seq(Message))
    BY DEF StateTypes
  <2> QED
    BY <1>1, <1>4, <2>1, AppendProperties
<1>7. StateTypes'
  BY <1>1, <1>2, <1>6 DEF StateTypes
<1>8. Numbered'
  BY <1>1, NumberedUnchanged DEF numberVars
<1>9. \A k \in DOMAIN async_socket' :
         \/ k \in DOMAIN async_socket /\ async_socket'[k] = async_socket[k]
         \/ async_socket'[k] = d
  <2> SUFFICES ASSUME NEW k \in DOMAIN async_socket'
               PROVE  \/ k \in DOMAIN async_socket /\ async_socket'[k] = async_socket[k]
                      \/ async_socket'[k] = d
    OBVIOUS
  <2>1. /\ DOMAIN async_socket' = 1..(Len(async_socket) + 1)
        /\ DOMAIN async_socket = 1..Len(async_socket) /\ Len(async_socket) \in Nat
    BY <1>6
  <2>2. CASE k = Len(async_socket) + 1
    BY <1>6, <2>2
  <2>3. CASE k \in 1..Len(async_socket)
    BY <1>6, <2>1, <2>3
  <2> QED
    BY <2>1, <2>2, <2>3
<1>10. FrameOK'
  BY <1>1, <1>3, <1>4, <1>5, <1>9 DEF FrameOK
<1> QED
  BY <1>4, <1>7, <1>8, <1>10 DEF d

---------------------------------------------------------------------------
LEMMA BookStep ==
    ASSUME BookInv, [Next]_vars
    PROVE  BookInv'
<1>1. HandlersEndWithTheirCall'
  BY HandlersStep DEF BookInv
<1>2. CASE \E kind \in Kind : SendMessageAndGetResponses(kind)
  BY <1>1, <1>2, CallBook DEF BookInv
<1>3. CASE Wait
  BY <1>1, <1>3, PollFailsBook, PollReturnsBook DEF Wait, BookInv
<1>4. CASE ReadEvents \/ RunHandler \/ HandlerReturns
  BY <1>1, <1>4, EventsBook DEF BookInv
<1>5. CASE Kernel
  BY <1>1, <1>5, ServesBook, RepliesBook, SendsBook DEF Kernel, BookInv
<1>6. CASE UNCHANGED vars
  <2>1. StateTypes'
    BY <1>6 DEF vars, callerVars, managerVars, frameVars, eventVars, kernelVars, StateTypes,
                BookInv
  <2>2. Numbered' /\ FrameOK'
    BY <1>6, NumberedUnchanged, FrameUnchanged
       DEF vars, callerVars, managerVars, frameVars, eventVars, kernelVars, BookInv,
           numberVars
  <2> QED
    BY <1>1, <2>1, <2>2 DEF BookInv
<1> QED
  BY <1>2, <1>3, <1>4, <1>5, <1>6 DEF Next

LEMMA BookInit ==
    ASSUME Init
    PROVE  BookInv
<1>1. StateTypes
  <2>1. /\ 0 \in 0..(SeqMod - 1) /\ 0 \in 0..MaxWait /\ 0 \in 0..MaxCalls
        /\ 0 \in 0..MaxEvents
    BY TransportAssumption
  <2>2. /\ leaving \in [Call -> Seq(Message)]
        /\ answer \in [Call -> Seq(Message) \cup {NoAnswer}]
        /\ frame \in [at : {"none", "loop", "handler"}, ptr : Nat, len : Nat]
    BY DEF Init, NoFrame
  <2>3. /\ <<>> \in Seq(Message) /\ <<>> \in Seq(Seq(Message)) /\ <<>> \in Seq(1..MaxEvents)
    BY EmptySeq
  <2>4. /\ response \in Seq(Message) /\ ReceiveBuffer \in Seq(Message)
        /\ socket \in Seq(Seq(Message)) /\ async_socket \in Seq(Seq(Message))
        /\ dispatched \in Seq(1..MaxEvents)
    BY <2>3 DEF Init
  <2>5. /\ sequence_number \in 0..(SeqMod - 1) /\ time_remaining \in 0..MaxWait
        /\ calls \in 0..MaxCalls /\ sent \in 0..MaxEvents
    BY <2>1 DEF Init
  <2>6. /\ message_handlers \subseteq 0..(SeqMod - 1) /\ phase \in {"idle", "waiting"}
        /\ request \in Request \cup {NoRequest} /\ result \in BOOLEAN
        /\ unanswered \subseteq Request /\ sock_err \in BOOLEAN
    BY DEF Init
  <2> QED
    BY <2>2, <2>4, <2>5, <2>6 DEF StateTypes
<1>2. HandlersEndWithTheirCall
  BY DEF Init, HandlersEndWithTheirCall
<1>3. Numbered
  BY DEF Init, Numbered, NoRequest, About
<1>4. FrameOK
  BY DEF Init, FrameOK, NoFrame
<1> QED
  BY <1>1, <1>2, <1>3, <1>4 DEF BookInv

LEMMA BookInvariant == Spec => []BookInv
<1>1. Init => BookInv
  BY BookInit
<1>2. BookInv /\ [Next]_vars => BookInv'
  BY BookStep
<1> QED
  BY <1>1, <1>2, PTL DEF Spec

(* A call that waits has been made, with a number of its own.               *)
LEMMA WaitingCallIsMade ==
    Spec => [](BookInv /\ (phase = "waiting" => calls > 0))
<1> DEFINE Made == phase = "waiting" => calls > 0
<1>1. Init => Made
  BY DEF Init
<1>2. BookInv /\ Made /\ [Next]_vars => Made'
  <2> SUFFICES ASSUME BookInv, Made, [Next]_vars PROVE Made'
    OBVIOUS
  <2>1. calls \in Nat
    BY DEF BookInv, StateTypes
  <2>2. CASE \E kind \in Kind : SendMessageAndGetResponses(kind)
    BY <2>1, <2>2 DEF SendMessageAndGetResponses
  <2>3. CASE Wait
    BY <2>3 DEF Wait, PollFails, PollReturns
  <2>4. CASE ReadEvents \/ RunHandler \/ HandlerReturns \/ Kernel
    BY <2>4 DEF ReadEvents, RunHandler, HandlerReturns, Kernel, callerVars
  <2>5. CASE UNCHANGED vars
    BY <2>5 DEF vars, callerVars
  <2> QED
    BY <2>2, <2>3, <2>4, <2>5 DEF Next
<1> QED
  BY <1>1, <1>2, BookInvariant, PTL DEF Spec

(* Type correctness of NetlinkManager over the kernel: sequence numbers     *)
(* wrap, none that is in use is the 0 of multicasts, and the loop over a    *)
(* datagram never reads outside of the buffer, even one that a request of a *)
(* handler has read into.                                                   *)
THEOREM TypeCorrect == Spec => []TypeOK
<1>1. BookInv /\ (phase = "waiting" => calls > 0) => TypeOK
  <2> SUFFICES ASSUME BookInv, phase = "waiting" => calls > 0 PROVE TypeOK
    OBVIOUS
  <2>1. calls \in Nat /\ sequence_number \in Nat
    BY TransportAssumption DEF BookInv, StateTypes
  <2>2. calls > 0 => sequence_number # 0
    BY <2>1 DEF BookInv, Numbered
  <2>3. 0 \notin message_handlers
    BY <2>2 DEF BookInv, Numbered, HandlersEndWithTheirCall
  <2>4. \A r \in unanswered : r.seq # 0
    BY DEF BookInv, Numbered, Known
  <2> QED
    BY <2>2, <2>3, <2>4 DEF BookInv, TypeOK, NumbersOK, LoopInside, FrameOK
<1> QED
  BY <1>1, WaitingCallIsMade, PTL

---------------------------------------------------------------------------
(* One event to a datagram.  The event in the loop is the next one, those   *)
(* in the socket follow it, and the last is the last one sent.              *)
InLoop == IF frame.at = "loop" THEN 1 ELSE 0

Kept ==
    /\ \A i \in 1..Len(dispatched) : dispatched[i] = i
    /\ \A j \in DOMAIN async_socket :
          async_socket[j] = <<Event(Len(dispatched) + InLoop + j)>>
    /\ sent = Len(dispatched) + InLoop + Len(async_socket)
    /\ frame.at # "none" => frame.ptr = 1 /\ frame.len = 1
    /\ frame.at = "loop" => ReceiveBuffer[1] = Event(Len(dispatched) + 1)

LEMMA KeptStep ==
    ASSUME "batch" \notin Faults, BookInv, Kept, [Next]_vars
    PROVE  Kept'
<1> USE DEF BookInv
<1>1. /\ dispatched \in Seq(1..MaxEvents) /\ Len(dispatched) \in Nat
      /\ async_socket \in Seq(Seq(Message)) /\ Len(async_socket) \in Nat
      /\ DOMAIN async_socket = 1..Len(async_socket)
      /\ frame \in [at : {"none", "loop", "handler"}, ptr : Nat, len : Nat]
      /\ sent \in Nat
  BY DEF StateTypes
<1>l. InLoop \in Nat
  BY DEF InLoop
<1>2. ASSUME UNCHANGED <<dispatched, async_socket, sent, frame>>,
             ReceiveBuffer' = ReceiveBuffer \/ frame.at # "loop"
      PROVE  Kept'
  BY <1>2 DEF Kept, InLoop
<1>3. CASE \E kind \in Kind : SendMessageAndGetResponses(kind)
  BY <1>2, <1>3 DEF SendMessageAndGetResponses, frameVars, eventVars
<1>4. CASE Wait
  <2>1. phase = "waiting" /\ UNCHANGED <<dispatched, async_socket, sent, frame>>
    BY <1>4 DEF Wait, PollFails, PollReturns, frameVars, eventVars
  <2> QED
    BY <1>2, <2>1 DEF FrameOK
<1>5. CASE ReadEvents
  <2>1. /\ frame.at = "none" /\ async_socket # <<>> /\ async_socket' = Tail(async_socket)
        /\ ReceiveBuffer' = Head(async_socket)
        /\ frame' = [at |-> "loop", ptr |-> 1, len |-> Len(Head(async_socket))]
        /\ UNCHANGED <<dispatched, sent>>
    BY <1>5 DEF ReadEvents
  <2>2. /\ Len(async_socket) > 0 /\ Len(async_socket') = Len(async_socket) - 1
        /\ DOMAIN async_socket' = 1..(Len(async_socket) - 1)
        /\ \A j \in DOMAIN async_socket' : async_socket'[j] = async_socket[j + 1]
        /\ Head(async_socket) = async_socket[1]
    BY <1>1, <2>1
  <2>3. Head(async_socket) = <<Event(Len(dispatched) + 1)>>
    <3>1. 1 \in DOMAIN async_socket /\ InLoop = 0 /\ Len(dispatched) + 0 + 1 = Len(dispatched) + 1
      BY <1>1, <2>1, <2>2 DEF InLoop
    <3> QED
      BY <2>2, <3>1 DEF Kept
  <2>4. ReceiveBuffer'[1] = Event(Len(dispatched) + 1) /\ Len(Head(async_socket)) = 1
    <3>1. PICK e : e = Event(Len(dispatched) + 1)
      OBVIOUS
    <3>2. <<e>>[1] = e /\ Len(<<e>>) = 1
      OBVIOUS
    <3> QED
      BY <2>1, <2>3, <3>1, <3>2
  <2>5. InLoop = 0 /\ InLoop' = 1
    BY <2>1 DEF InLoop
  <2>6. ASSUME NEW j \in DOMAIN async_socket'
        PROVE  async_socket'[j] = <<Event(Len(dispatched') + InLoop' + j)>>
    <3>1. j + 1 \in DOMAIN async_socket /\ Len(dispatched) + 0 + (j + 1) = Len(dispatched) + 1 + j
      BY <1>1, <2>2
    <3>2. async_socket[j + 1] = <<Event(Len(dispatched) + 1 + j)>>
      BY <2>5, <3>1 DEF Kept
    <3> QED
      BY <2>1, <2>2, <2>5, <3>2
  <2>7. sent' = Len(dispatched') + InLoop' + Len(async_socket')
    BY <1>1, <2>1, <2>2, <2>5 DEF Kept
  <2> QED
    BY <2>1, <2>4, <2>6, <2>7 DEF Kept
<1>6. CASE RunHandler
  <2>1. frame.at = "loop" /\ UNCHANGED <<async_socket, sent>>
    BY <1>6 DEF RunHandler, eventVars
  <2>2. ReceiveBuffer[frame.ptr] = Event(Len(dispatched) + 1)
    BY <2>1 DEF Kept
  <2>3. /\ frame' = [frame EXCEPT !.at = "handler"]
        /\ dispatched' = Append(dispatched, Len(dispatched) + 1)
    BY <1>6, <2>2 DEF RunHandler, Event
  <2>4. frame'.at = "handler" /\ frame'.ptr = frame.ptr /\ frame'.len = frame.len
    BY <1>1, <2>3
  <2>5. /\ Len(dispatched') = Len(dispatched) + 1
        /\ \A i \in 1..Len(dispatched) : dispatched'[i] = dispatched[i]
        /\ dispatched'[Len(dispatched) + 1] = Len(dispatched) + 1
    BY <1>1, <2>3
  <2>6. InLoop = 1 /\ InLoop' = 0
    BY <2>1, <2>4 DEF InLoop
  <2>7. ASSUME NEW i \in 1..Len(dispatched') PROVE dispatched'[i] = i
    <3>1. i \in 1..Len(dispatched) \/ i = Len(dispatched) + 1
      BY <1>1, <2>5
    <3> QED
      BY <2>5, <3>1 DEF Kept
  <2>8. ASSUME NEW j \in DOMAIN async_socket'
        PROVE  async_socket'[j] = <<Event(Len(dispatched') + InLoop' + j)>>
    <3>1. Len(dispatched) + 1 + j = (Len(dispatched) + 1) + 0 + j
      BY <1>1, <2>1
    <3> QED
      BY <2>1, <2>5, <2>6, <3>1 DEF Kept
  <2>9. sent' = Len(dispatched') + InLoop' + Len(async_socket')
    BY <1>1, <2>1, <2>5, <2>6 DEF Kept
  <2> QED
    BY <2>1, <2>4, <2>7, <2>8, <2>9 DEF Kept
<1>7. CASE HandlerReturns
  <2>1. /\ frame.at = "handler" /\ UNCHANGED <<async_socket, sent, dispatched>>
        /\ frame.ptr = frame.len
    BY <1>7 DEF HandlerReturns, eventVars, Kept
  <2>2. frame'.at = "none"
    BY <1>7, <2>1 DEF HandlerReturns, EndFrame, NoFrame
  <2> QED
    BY <2>1, <2>2 DEF Kept, InLoop
<1>8. CASE Kernel
  <2>1. ASSUME UNCHANGED <<callerVars, managerVars, frameVars, eventVars, calls>>
        PROVE  Kept'
    BY <1>2, <2>1 DEF frameVars, eventVars
  <2>2. ASSUME NEW n \in 1..2, KernelSendsEvents(n),
               UNCHANGED <<callerVars, managerVars, frameVars, kernelVars, calls>>
        PROVE  Kept'
    <3> DEFINE d == [i \in 1..n |-> Event(sent + i)]
    <3>1. /\ n = 1 /\ sent' = sent + 1 /\ UNCHANGED <<frame, ReceiveBuffer, dispatched>>
          /\ async_socket' = Append(async_socket, d)
      BY <2>2 DEF KernelSendsEvents, frameVars
    <3>2. d \in Seq(Message)
      BY <2>2, SendsBook
    <3>3. d = <<Event(sent + 1)>>
      BY <3>1
    <3> HIDE DEF d
    <3>4. /\ Len(async_socket') = Len(async_socket) + 1
          /\ \A i \in 1..Len(async_socket) : async_socket'[i] = async_socket[i]
          /\ async_socket'[Len(async_socket) + 1] = d
          /\ async_socket' \in Seq(Seq(Message))
      BY <1>1, <3>1, <3>2, AppendProperties
    <3>5. ASSUME NEW j \in DOMAIN async_socket'
          PROVE  async_socket'[j] = <<Event(Len(dispatched') + InLoop' + j)>>
      <4>1. CASE j \in 1..Len(async_socket)
        BY <1>1, <3>1, <3>4, <4>1 DEF Kept, InLoop
      <4>2. CASE j = Len(async_socket) + 1
        <5>1. sent + 1 = Len(dispatched) + InLoop + j
          BY <1>1, <1>l, <4>2 DEF Kept
        <5> QED
          BY <3>1, <3>3, <3>4, <4>2, <5>1 DEF InLoop
      <4> QED
        BY <1>1, <3>4, <4>1, <4>2
    <3>6. sent' = Len(dispatched') + InLoop' + Len(async_socket')
      <4>1. InLoop' = InLoop
        BY <3>1 DEF InLoop
      <4>2. sent = Len(dispatched) + InLoop + Len(async_socket)
        BY DEF Kept
      <4> QED
        BY <1>1, <1>l, <3>1, <3>4, <4>1, <4>2
    <3> QED
      BY <3>1, <3>5, <3>6 DEF Kept
  <2> QED
    BY <1>8, <2>1, <2>2 DEF Kernel
<1>9. CASE UNCHANGED vars
  BY <1>2, <1>9 DEF vars, frameVars, eventVars
<1> QED
  BY <1>3, <1>4, <1>5, <1>6, <1>7, <1>8, <1>9 DEF Next

(* As long as the kernel sends one event to a datagram, as nl80211 does:    *)
(* when there is nothing left to read, all events have been dispatched,     *)
(* once and in their order, whatever requests their handlers made that read *)
(* replies into the buffer the loop reads from.                             *)
THEOREM NoEventIsSkipped == "batch" \notin Faults => (Spec => []EventsAreKept)
<1> SUFFICES ASSUME "batch" \notin Faults
             PROVE  Spec => []EventsAreKept
  OBVIOUS
<1>1. Init => Kept
  BY DEF Init, Kept, InLoop, NoFrame
<1>2. BookInv /\ BookInv' /\ Kept /\ [Next]_vars => Kept'
  BY KeptStep
<1>3. BookInv /\ Kept => EventsAreKept
  <2> SUFFICES ASSUME BookInv, Kept, frame.at = "none", async_socket = <<>>
               PROVE  dispatched = [i \in 1..sent |-> i]
    BY DEF EventsAreKept
  <2>1. dispatched \in Seq(1..MaxEvents) /\ Len(dispatched) \in Nat
    BY DEF BookInv, StateTypes
  <2>2. sent = Len(dispatched)
    BY <2>1 DEF Kept, InLoop
  <2> QED
    BY <2>1, <2>2 DEF Kept
<1> QED
  BY <1>1, <1>2, <1>3, BookInvariant, PTL DEF Spec

---------------------------------------------------------------------------
(* What the replies contain.                                                *)

(* The handler is given message m when m is reached.                        *)
Given(m) == ~IsLast(m) \/ IsPayload(m)

(* Nothing garbles an answer on its way.                                    *)
Exact == Faults \cap {"cut", "noop"} = {}

(* w leaves for the answer a: what the handler is given of w is of a, and   *)
(* is all of a when w ends, unless an answer can be garbled.                *)
Faithful(w, a) ==
    /\ w \in Seq(Message) /\ a \in Seq(Message)
    /\ \A j \in 1..Len(w) : (\A k \in 1..(j - 1) : ~IsLast(w[k])) =>
          /\ Given(w[j]) => j <= Len(a) /\ w[j] = a[j]
          /\ Exact /\ IsLast(w[j]) => Len(a) = IF IsPayload(w[j]) THEN j ELSE j - 1

(* The answer w to the latest request is in the socket: at[i] of its        *)
(* messages have left when the i-th datagram has, at[0] have been read.     *)
Stream(w, at) ==
    /\ at \in [0..Len(socket) -> Nat]
    /\ \A i \in 1..Len(socket) :
          IF socket[i][1].about = calls
          THEN /\ at[i] = at[i - 1] + Len(socket[i])
               /\ \A k \in 1..Len(socket[i]) : socket[i][k] = w[at[i - 1] + k]
          ELSE at[i] = at[i - 1]
    /\ \A i \in 0..Len(socket) : at[i] <= Len(w)
    /\ leaving[calls] # <<>> =>
          /\ Len(w) = at[Len(socket)] + Len(leaving[calls])
          /\ \A k \in 1..Len(leaving[calls]) :
                leaving[calls][k] = w[at[Len(socket)] + k]

(* The first n messages of w have been read, and w goes on after them.      *)
Heard(w, n) ==
    /\ Len(response) = n
    /\ \A j \in 1..n : response[j] = w[j] /\ ~IsLast(w[j])

Incoming ==
    \E w, at : Faithful(w, answer[calls]) /\ Stream(w, at) /\ Heard(w, at[0])

(* response is a beginning of the answer a.                                 *)
Begins(a) ==
    /\ Len(response) <= Len(a)
    /\ \A j \in 1..Len(response) : response[j] = a[j]

(* The inductive invariant, with BookInv.                                   *)
Replies ==
    /\ phase = "waiting" =>
          /\ calls > 0 /\ ~result
          /\ IF answer[calls] = NoAnswer THEN response = <<>> ELSE Incoming
    /\ result =>
          /\ calls > 0 /\ answer[calls] # NoAnswer
          /\ Begins(answer[calls])
          /\ Exact => response = answer[calls]
    /\ calls > 0 /\ answer[calls] # NoAnswer => answer[calls] \in AnswersTo(request)

---------------------------------------------------------------------------
(* The messages of an answer.                                               *)
LEMMA AnswerShape ==
    ASSUME NEW r \in Request, NEW a \in AnswersTo(r)
    PROVE  /\ a \in Seq(Message)
           /\ \/ Len(a) = 1 /\ ~a[1].multi /\ IsPayload(a[1])
              \/ \A i \in 1..Len(a) : a[i].multi /\ a[i].type = "data"
<1>1. a \in Seq(Message)
  BY AnswerType
<1>2. \/ \E type \in {"error", "data"}, part \in {0, 1} : a = <<Msg(r, type, FALSE, part)>>
      \/ \E n \in 0..MaxParts : a = DumpOf(r, n)
  <2>1. r.kind \in {"dump", "single", "ack"}
    BY DEF Request, Kind
  <2> QED
    BY <2>1 DEF AnswersTo
<1>3. ASSUME NEW type \in {"error", "data"}, NEW part \in {0, 1},
             a = <<Msg(r, type, FALSE, part)>>
      PROVE  Len(a) = 1 /\ ~a[1].multi /\ IsPayload(a[1])
  <2>1. PICK m : m = Msg(r, type, FALSE, part)
    OBVIOUS
  <2>2. ~m.multi /\ IsPayload(m)
    BY <2>1 DEF Msg, IsPayload
  <2>3. Len(<<m>>) = 1 /\ <<m>>[1] = m
    OBVIOUS
  <2> QED
    BY <1>3, <2>1, <2>2, <2>3
<1>4. ASSUME NEW n \in 0..MaxParts, a = DumpOf(r, n)
      PROVE  \A i \in 1..Len(a) : a[i].multi /\ a[i].type = "data"
  <2>1. n \in Nat /\ DOMAIN a = 1..n
    BY <1>4, TransportAssumption DEF DumpOf
  <2>2. Len(a) = n
    BY <1>1, <2>1
  <2>3. \A i \in 1..n : a[i] = Msg(r, "data", TRUE, i)
    BY <1>4 DEF DumpOf
  <2> QED
    BY <2>2, <2>3 DEF Msg
<1> QED
  BY <1>1, <1>2, <1>3, <1>4

(* An answer leaves as it is, followed by DONE if it is a dump.             *)
LEMMA WireIsFaithful ==
    ASSUME NEW r \in Request, NEW a \in AnswersTo(r)
    PROVE  Faithful(Wire(r, a), a)
<1>1. a \in Seq(Message) /\ Len(a) \in Nat /\ DOMAIN a = 1..Len(a)
  BY AnswerShape
<1>2. Wire(r, a) \in Seq(Message)
  BY WireType DEF OfRequest
<1>3. CASE Len(a) = 1 /\ ~a[1].multi /\ IsPayload(a[1])
  <2>1. Wire(r, a) = a
    BY <1>1, <1>3 DEF Wire
  <2>2. IsLast(a[1])
    BY <1>3 DEF IsLast
  <2> QED
    BY <1>1, <1>3, <2>1, <2>2 DEF Faithful
<1>4. CASE \A i \in 1..Len(a) : a[i].multi /\ a[i].type = "data"
  <2>1. PICK m \in Message : m = Msg(r, "done", TRUE, 0)
    <3>1. "done" \in Type
      BY DEF Type
    <3> QED
      BY <3>1, MsgType
  <2>2. Wire(r, a) = a \o <<m>>
    BY <1>1, <1>4, <2>1 DEF Wire
  <2>3. ~Given(m) /\ IsLast(m) /\ ~IsPayload(m)
    BY <2>1 DEF Msg, Given, IsLast, IsPayload
  <2> DEFINE w == a \o <<m>>
  <2>4. /\ w \in Seq(Message) /\ Len(w) = Len(a) + 1
        /\ \A i \in 1..Len(a) : w[i] = a[i]
        /\ w[Len(a) + 1] = m
    BY <1>1
  <2>5. \A i \in 1..Len(a) : ~IsLast(w[i])
    BY <1>4, <2>4 DEF IsLast
  <2> HIDE DEF w
  <2>6. ASSUME NEW j \in 1..Len(w)
        PROVE  /\ Given(w[j]) => j <= Len(a) /\ w[j] = a[j]
               /\ IsLast(w[j]) => Len(a) = IF IsPayload(w[j]) THEN j ELSE j - 1
    <3>1. CASE j \in 1..Len(a)
      <4>1. w[j] = a[j] /\ ~IsLast(w[j]) /\ j <= Len(a)
        BY <1>1, <2>4, <2>5, <3>1
      <4> QED
        BY <4>1
    <3>2. CASE j = Len(a) + 1
      <4>1. ~Given(w[j]) /\ ~IsPayload(w[j])
        BY <2>3, <2>4, <3>2
      <4>2. Len(a) = j - 1
        BY <1>1, <3>2
      <4> QED
        BY <4>1, <4>2
    <3> QED
      BY <1>1, <2>4, <3>1, <3>2
  <2> QED
    BY <1>1, <2>2, <2>4, <2>6 DEF Faithful, w
<1> QED
  BY <1>3, <1>4, AnswerShape

(* A garbled answer ends too early, never with something else.              *)
LEMMA GarbledIsFaithful ==
    ASSUME NEW r \in Request, NEW a, NEW ms, Faithful(ms, a), OfRequest(ms, r),
           NEW w \in Garbled(r, ms)
    PROVE  Faithful(w, a)
<1>1. /\ ms \in Seq(Message) /\ Len(ms) \in Nat /\ DOMAIN ms = 1..Len(ms)
      /\ a \in Seq(Message) /\ Len(a) \in Nat
      /\ w \in Seq(Message)
  BY GarbledType DEF Faithful, OfRequest
<1>2. ~Exact
  BY DEF Garbled, Exact
<1>3. ASSUME NEW i \in 0..(Len(ms) - 1), NEW t \in {"done", "overrun"},
             w = SubSeq(ms, 1, i) \o <<Msg(r, t, TRUE, 0)>>
      PROVE  Faithful(w, a)
  <2>1. PICK m : m = Msg(r, t, TRUE, 0)
    OBVIOUS
  <2>2. ~Given(m) /\ m \in Message
    <3>1. ~Given(m)
      BY <2>1 DEF Msg, Given, IsLast, IsPayload
    <3>2. t \in Type
      BY DEF Type
    <3> QED
      BY <2>1, <3>1, <3>2, MsgType
  <2> DEFINE u == SubSeq(ms, 1, i)
  <2>3. u \in Seq(Message) /\ Len(u) = i /\ \A j \in 1..i : u[j] = ms[j]
    <3>1. \A j \in 1..i : ms[j] \in Message
      BY <1>1
    <3>2. /\ u \in Seq(Message) /\ Len(u) = IF 1 <= i THEN i - 1 + 1 ELSE 0
          /\ \A j \in 1..(i - 1 + 1) : u[j] = ms[1 + j - 1]
      BY <3>1, SubSeqProperties
    <3> HIDE DEF u
    <3>3. Len(u) = i /\ \A j \in 1..i : u[j] = ms[j]
      BY <3>2
    <3> QED
      BY <3>2, <3>3
  <2> HIDE DEF u
  <2>4. /\ Len(w) = i + 1 /\ w[i + 1] = m
        /\ \A j \in 1..i : w[j] = ms[j]
    <3>1. w = u \o <<m>>
      BY <1>3, <2>1 DEF u
    <3> QED
      BY <2>2, <2>3, <3>1
  <2>5. ASSUME NEW j \in 1..Len(w), \A k \in 1..(j - 1) : ~IsLast(w[k]), Given(w[j])
        PROVE  j <= Len(a) /\ w[j] = a[j]
    <3>1. j \in 1..i /\ j \in 1..Len(ms)
      BY <1>1, <2>2, <2>4, <2>5
    <3>2. \A k \in 1..(j - 1) : w[k] = ms[k]
      BY <2>4, <3>1
    <3> QED
      BY <2>4, <2>5, <3>1, <3>2 DEF Faithful
  <2> QED
    BY <1>1, <1>2, <2>5 DEF Faithful
<1>4. CASE w = <<Msg(r, "noop", FALSE, 0)>> \o ms
  <2>1. PICK m \in Message : m = Msg(r, "noop", FALSE, 0)
    <3>1. "noop" \in Type
      BY DEF Type
    <3> QED
      BY <3>1, MsgType
  <2>2. ~Given(m) /\ IsLast(m)
    BY <2>1 DEF Msg, Given, IsLast, IsPayload
  <2>3. w[1] = m
    BY <1>1, <1>4, <2>1
  <2>4. ASSUME NEW j \in 1..Len(w), \A k \in 1..(j - 1) : ~IsLast(w[k])
        PROVE  ~Given(w[j])
    <3>1. j = 1 \/ 1 \in 1..(j - 1)
      OBVIOUS
    <3> QED
      BY <2>2, <2>3, <2>4, <3>1
  <2> QED
    BY <1>1, <1>2, <2>4 DEF Faithful
<1>5. \/ w = <<Msg(r, "noop", FALSE, 0)>> \o ms
      \/ \E i \in 0..(Len(ms) - 1), t \in {"done", "overrun"} :
            w = SubSeq(ms, 1, i) \o <<Msg(r, t, TRUE, 0)>>
  BY DEF Garbled
<1> QED
  BY <1>3, <1>4, <1>5

(* What the handler is given of a datagram.                                 *)
LEMMA DeliveredIs ==
    ASSUME NEW d \in Seq(Message)
    PROVE  \/ Delivered(d) = d /\ \A i \in 1..Len(d) : ~IsLast(d[i])
           \/ \E f \in 1..Len(d), g \in 0..Len(d) :
                 /\ IsLast(d[f]) /\ \A i \in 1..(f - 1) : ~IsLast(d[i])
                 /\ g = IF IsPayload(d[f]) THEN f ELSE f - 1
                 /\ Delivered(d) \in Seq(Message) /\ Len(Delivered(d)) = g
                 /\ \A i \in 1..g : Delivered(d)[i] = d[i]
<1> DEFINE last == {i \in DOMAIN d : IsLast(d[i])}
           f == CHOOSE i \in last : \A j \in last : i <= j
<1>1. DOMAIN d = 1..Len(d) /\ Len(d) \in Nat
  OBVIOUS
<1>2. CASE last = {}
  BY <1>1, <1>2 DEF Delivered
<1>3. CASE last # {}
  <2>1. f \in last /\ \A j \in last : f <= j
    <3>1. last \in SUBSET Nat
      BY <1>1
    <3> QED
      BY <1>3, <3>1, LeastExists
  <2>2. PICK g \in 0..Len(d) : g = IF IsPayload(d[f]) THEN f ELSE f - 1
    BY <1>1, <2>1
  <2>3. Delivered(d) = SubSeq(d, 1, g)
    <3>1. Delivered(d) = IF last = {} THEN d
                         ELSE SubSeq(d, 1, IF IsPayload(d[f]) THEN f ELSE f - 1)
      BY DEF Delivered
    <3> HIDE DEF f, last
    <3> QED
      BY <1>3, <2>2, <3>1
  <2> HIDE DEF f
  <2>4. f \in 1..Len(d) /\ IsLast(d[f]) /\ \A i \in 1..(f - 1) : ~IsLast(d[i])
    BY <1>1, <2>1
  <2>5. \A i \in 1..g : d[i] \in Message
    BY <1>1
  <2>6. /\ SubSeq(d, 1, g) \in Seq(Message)
        /\ Len(SubSeq(d, 1, g)) = IF 1 <= g THEN g - 1 + 1 ELSE 0
        /\ \A i \in 1..(g - 1 + 1) : SubSeq(d, 1, g)[i] = d[1 + i - 1]
    BY <2>5, SubSeqProperties
  <2>7. Len(SubSeq(d, 1, g)) = g /\ \A i \in 1..g : SubSeq(d, 1, g)[i] = d[i]
    BY <2>6
  <2> QED
    BY <2>2, <2>3, <2>4, <2>6, <2>7
<1> QED
  BY <1>2, <1>3

---------------------------------------------------------------------------
(* The steps.  Those that neither call nor read a reply.                    *)
replyVars == <<phase, request, calls, result, response, answer, socket, leaving>>

LEMMA RepliesUnchanged ==
    ASSUME Replies, UNCHANGED replyVars
    PROVE  Replies'
<1>1. /\ phase' = phase /\ request' = request /\ calls' = calls /\ result' = result
      /\ response' = response /\ answer' = answer /\ socket' = socket
      /\ leaving' = leaving
  BY DEF replyVars
<1>2. Incoming => Incoming'
  BY <1>1 DEF Incoming, Stream, Heard
<1>3. Begins(answer[calls]) => Begins(answer[calls])'
  BY <1>1 DEF Begins
<1> QED
  BY <1>1, <1>2, <1>3 DEF Replies

LEMMA PollFailsReplies ==
    ASSUME Replies, PollFails
    PROVE  Replies'
BY DEF PollFails, kernelVars, Replies

(* Nothing has been answered to a new request.                              *)
LEMMA CallReplies ==
    ASSUME BookInv, NEW kind \in Kind, SendMessageAndGetResponses(kind)
    PROVE  Replies'
<1>1. /\ calls' = calls + 1 /\ calls < MaxCalls /\ response' = <<>> /\ result' = FALSE
      /\ answer' = answer
  BY DEF SendMessageAndGetResponses, MayCall
<1>2. calls \in Nat /\ calls + 1 \in Call
  BY <1>1, TransportAssumption DEF BookInv, StateTypes, Call
<1>3. answer'[calls'] = NoAnswer /\ calls' > 0
  BY <1>1, <1>2 DEF BookInv, Numbered
<1> QED
  BY <1>1, <1>3 DEF Replies

(* Whom a datagram is about.                                                *)
LEMMA DatagramIs ==
    ASSUME BookInv, NEW i \in 1..Len(socket)
    PROVE  /\ socket[i] \in Seq(Message) /\ Len(socket[i]) \in Nat \ {0}
           /\ \E c \in Call : /\ About(calls, sequence_number, socket[i], c)
                              /\ socket[i][1].about = c
                              /\ answer[c] # NoAnswer
<1>1. socket \in Seq(Seq(Message)) /\ DOMAIN socket = 1..Len(socket)
  BY DEF BookInv, StateTypes
<1>2. PICK c \in Call : About(calls, sequence_number, socket[i], c) /\ answer[c] # NoAnswer
  BY <1>1 DEF BookInv, Numbered
<1>3. socket[i] \in Seq(Message) /\ socket[i] # <<>>
  BY <1>1 DEF BookInv, Numbered
<1>4. Len(socket[i]) \in Nat \ {0} /\ 1 \in DOMAIN socket[i]
  BY <1>3
<1> QED
  BY <1>2, <1>3, <1>4 DEF About

(* The kernel answers.                                                      *)
LEMMA ServesReplies ==
    ASSUME BookInv, Replies, NEW r \in unanswered, KernelServes(r),
           UNCHANGED <<callerVars, managerVars, frameVars, eventVars, calls>>
    PROVE  Replies'
<1> USE DEF BookInv
<1>1. /\ phase' = phase /\ request' = request /\ calls' = calls /\ result' = result
      /\ response' = response /\ socket' = socket
  BY DEF KernelServes, callerVars
<1>2. /\ r \in Request /\ r.call \in Call /\ answer[r.call] = NoAnswer
      /\ r.call = calls => r = request
      /\ calls \in Nat /\ r.call \in 1..calls /\ calls \in Call
  <2>1. r \in Request /\ calls \in 0..MaxCalls
    BY DEF StateTypes
  <2>2. r.call \in Call
    BY <2>1 DEF Request
  <2>3. answer[r.call] = NoAnswer /\ (r.call = calls => r = request)
    BY DEF Numbered
  <2>4. r.call \in 1..calls
    BY DEF Numbered, Known
  <2> QED
    BY <2>1, <2>2, <2>3, <2>4, TransportAssumption DEF Call
<1>a. PICK a \in AnswersTo(r) :
         /\ answer' = [answer EXCEPT ![r.call] = a]
         /\ \E w \in {Wire(r, a)} \cup Garbled(r, Wire(r, a)) :
               leaving' = [leaving EXCEPT ![r.call] = w]
  BY DEF KernelServes
<1>3. PICK w \in {Wire(r, a)} \cup Garbled(r, Wire(r, a)) :
         answer' = [answer EXCEPT ![r.call] = a] /\ leaving' = [leaving EXCEPT ![r.call] = w]
  BY <1>a
<1>4. /\ answer'[r.call] = a /\ leaving'[r.call] = w
      /\ \A c \in Call : c # r.call => answer'[c] = answer[c] /\ leaving'[c] = leaving[c]
  BY <1>2, <1>3 DEF StateTypes
<1>5. CASE r.call # calls
  <2>1. answer'[calls] = answer[calls] /\ leaving'[calls] = leaving[calls]
    BY <1>2, <1>4, <1>5
  <2>2. Incoming => Incoming'
    BY <1>1, <2>1 DEF Incoming, Stream, Heard
  <2>3. Begins(answer[calls]) => Begins(answer[calls])'
    BY <1>1, <2>1 DEF Begins
  <2> QED
    BY <1>1, <2>1, <2>2, <2>3 DEF Replies
<1>6. CASE r.call = calls
  <2>1. r = request /\ answer[calls] = NoAnswer /\ answer'[calls] = a /\ leaving'[calls] = w
    BY <1>2, <1>4, <1>6
  <2>2. ~result /\ (phase = "waiting" => response = <<>>)
    BY <2>1 DEF Replies
  <2>3. a # NoAnswer /\ a \in AnswersTo(request)
    BY <1>2, <2>1, AnswerType
  <2>4. Faithful(w, a)
    <3>1. Faithful(Wire(r, a), a) /\ OfRequest(Wire(r, a), r)
      BY <1>2, WireIsFaithful, WireType
    <3> QED
      BY <1>2, <3>1, GarbledIsFaithful
  <2>5. \A i \in 1..Len(socket) : socket[i][1].about # calls
    BY <2>1, DatagramIs
  <2>6. Len(socket) \in Nat /\ Len(w) \in Nat
    BY <2>4 DEF StateTypes, Faithful
  <2>7. PICK at : at = [i \in 0..Len(socket) |-> 0]
    OBVIOUS
  <2>8. Stream(w, at)'
    BY <1>1, <2>1, <2>5, <2>6, <2>7 DEF Stream
  <2>9. ASSUME phase = "waiting" PROVE Heard(w, at[0])'
    BY <1>1, <2>2, <2>6, <2>7, <2>9 DEF Heard
  <2>10. phase = "waiting" => Incoming'
    BY <1>1, <2>1, <2>4, <2>8, <2>9 DEF Incoming
  <2> QED
    BY <1>1, <1>2, <2>1, <2>2, <2>3, <2>10 DEF Replies
<1> QED
  BY <1>5, <1>6

(* A datagram leaves, or the rest of an answer is dropped.                  *)
LEMMA RepliesReplies ==
    ASSUME BookInv, Replies, NEW c \in Call, KernelReplies(c),
           UNCHANGED <<callerVars, managerVars, frameVars, eventVars, calls>>
    PROVE  Replies'
<1> USE DEF BookInv
<1>1. /\ phase' = phase /\ request' = request /\ calls' = calls /\ result' = result
      /\ response' = response /\ answer' = answer
  BY DEF KernelReplies, callerVars
<1>2. PICK l \in Seq(Message) :
         l = leaving[c] /\ l # <<>> /\ Len(l) \in Nat /\ DOMAIN l = 1..Len(l)
  BY DEF KernelReplies, StateTypes
<1>3. /\ calls \in Call /\ calls \in Nat
      /\ \A j \in 1..Len(l) : l[j].about = c
  <2>1. calls \in Nat /\ calls <= MaxCalls /\ c \in 1..MaxCalls
    BY TransportAssumption DEF StateTypes, Call
  <2>2. answer[c] # NoAnswer
    BY <1>2 DEF Numbered
  <2>3. ~(c > calls)
    BY <2>2 DEF Numbered
  <2> QED
    BY <1>2, <2>1, <2>3, TransportAssumption DEF Numbered, About, Call
<1>4. ASSUME phase = "waiting", Incoming PROVE Incoming'
  <2>1. PICK w, at : Faithful(w, answer[calls]) /\ Stream(w, at) /\ Heard(w, at[0])
    BY <1>4 DEF Incoming
  <2>2. PICK n \in Nat : n = Len(socket)
    BY DEF StateTypes
  <2>3. /\ at \in [0..n -> Nat] /\ Len(w) \in Nat /\ at[n] \in Nat
        /\ \A i \in 1..n :
              IF socket[i][1].about = calls
              THEN /\ at[i] = at[i - 1] + Len(socket[i])
                   /\ \A j \in 1..Len(socket[i]) : socket[i][j] = w[at[i - 1] + j]
              ELSE at[i] = at[i - 1]
        /\ \A i \in 0..n : at[i] <= Len(w)
        /\ leaving[calls] # <<>> =>
              /\ Len(w) = at[n] + Len(leaving[calls])
              /\ \A j \in 1..Len(leaving[calls]) : leaving[calls][j] = w[at[n] + j]
    BY <2>1, <2>2 DEF Stream, Faithful
  <2>4. ASSUME NEW k \in 1..Len(l),
               socket' = Append(socket, SubSeq(l, 1, k)),
               leaving' = [leaving EXCEPT ![c] = SubSeq(l, k + 1, Len(l))]
        PROVE  Incoming'
    <3>1. PICK d \in Seq(Message) : d = SubSeq(l, 1, k)
      <4>1. \A j \in 1..k : l[j] \in Message
        BY <1>2
      <4>2. SubSeq(l, 1, k) \in Seq(Message)
        BY <1>2, <4>1, SubSeqProperties
      <4> QED
        BY <4>2
    <3>2. Len(d) = k /\ \A j \in 1..k : d[j] = l[j]
      BY <1>2, <3>1
    <3>3. PICK m \in Seq(Message) : m = SubSeq(l, k + 1, Len(l))
      <4>1. \A j \in (k + 1)..Len(l) : l[j] \in Message
        BY <1>2
      <4>2. SubSeq(l, k + 1, Len(l)) \in Seq(Message)
        BY <1>2, <4>1, SubSeqProperties
      <4> QED
        BY <4>2
    <3>4. Len(m) = Len(l) - k /\ \A j \in 1..Len(m) : m[j] = l[k + j]
      BY <1>2, <3>3
    <3>5. d[1].about = c
      BY <1>2, <1>3, <3>2
    <3>6. /\ Len(socket') = n + 1 /\ socket'[n + 1] = d
          /\ \A i \in 1..n : socket'[i] = socket[i]
      BY <2>2, <2>4, <3>1 DEF StateTypes
    <3>7. /\ leaving'[c] = m
          /\ c # calls => leaving'[calls] = leaving[calls]
      BY <1>3, <2>4, <3>3 DEF StateTypes
    <3>8. PICK e \in Nat : e = IF c = calls THEN k ELSE 0
      OBVIOUS
    <3>9. PICK up : up = [i \in 0..(n + 1) |-> IF i <= n THEN at[i] ELSE at[n] + e]
      OBVIOUS
    <3>10. /\ up \in [0..(n + 1) -> Nat] /\ up[n + 1] = at[n] + e
           /\ \A i \in 0..n : up[i] = at[i]
      BY <2>3, <3>8, <3>9
    <3>11. c = calls => Len(w) = at[n] + Len(l) /\ \A j \in 1..Len(l) : l[j] = w[at[n] + j]
      BY <1>2, <2>3
    <3>12. ASSUME NEW i \in 1..(n + 1)
           PROVE  IF socket'[i][1].about = calls
                  THEN /\ up[i] = up[i - 1] + Len(socket'[i])
                       /\ \A j \in 1..Len(socket'[i]) : socket'[i][j] = w[up[i - 1] + j]
                  ELSE up[i] = up[i - 1]
      <4>1. CASE i \in 1..n
        <5>1. socket'[i] = socket[i] /\ up[i] = at[i] /\ up[i - 1] = at[i - 1]
          <6>1. i \in 0..n /\ i - 1 \in 0..n
            BY <4>1
          <6> QED
            BY <3>6, <3>10, <4>1, <6>1
        <5> QED
          BY <2>3, <4>1, <5>1
      <4>2. CASE i = n + 1
        <5>1. socket'[i] = d /\ up[i] = at[n] + e /\ up[i - 1] = at[n]
          <6>1. i - 1 = n /\ n \in 0..n
            BY <4>2
          <6> QED
            BY <3>6, <3>10, <4>2, <6>1
        <5>2. CASE c = calls
          <6>1. e = k /\ Len(d) = k /\ d[1].about = calls
            BY <3>2, <3>5, <3>8, <5>2
          <6>2. \A j \in 1..k : d[j] = w[at[n] + j]
            BY <1>2, <3>2, <3>11, <5>2
          <6> QED
            BY <5>1, <6>1, <6>2
        <5>3. CASE c # calls
          BY <2>3, <3>5, <3>8, <5>1, <5>3
        <5> QED
          BY <5>2, <5>3
      <4> QED
        BY <4>1, <4>2
    <3>13. ASSUME NEW i \in 0..(n + 1) PROVE up[i] <= Len(w)
      <4>1. CASE i \in 0..n
        BY <2>3, <3>10, <4>1
      <4>2. CASE i = n + 1
        <5>1. CASE c = calls
          BY <1>2, <2>3, <3>8, <3>10, <3>11, <4>2, <5>1
        <5>2. CASE c # calls
          <6>1. at[n] <= Len(w) /\ e = 0
            BY <2>3, <3>8, <5>2
          <6> QED
            BY <2>3, <3>10, <4>2, <6>1
        <5> QED
          BY <5>1, <5>2
      <4> QED
        BY <4>1, <4>2
    <3>14. ASSUME leaving'[calls] # <<>>
           PROVE  /\ Len(w) = up[n + 1] + Len(leaving'[calls])
                  /\ \A j \in 1..Len(leaving'[calls]) :
                        leaving'[calls][j] = w[up[n + 1] + j]
      <4>1. CASE c = calls
        <5>1. leaving'[calls] = m /\ up[n + 1] = at[n] + k
          BY <3>7, <3>8, <3>10, <4>1
        <5>2. Len(w) = (at[n] + k) + Len(m)
          BY <1>2, <2>3, <3>4, <3>11, <4>1
        <5>3. ASSUME NEW j \in 1..Len(m) PROVE m[j] = w[(at[n] + k) + j]
          <6>1. k + j \in 1..Len(l) /\ at[n] + (k + j) = (at[n] + k) + j
            BY <1>2, <2>3, <3>4
          <6>2. m[j] = l[k + j]
            BY <3>4
          <6>3. l[k + j] = w[at[n] + (k + j)]
            BY <3>11, <4>1, <6>1
          <6> QED
            BY <6>1, <6>2, <6>3
        <5> QED
          BY <5>1, <5>2, <5>3
      <4>2. CASE c # calls
        <5>1. leaving'[calls] = leaving[calls] /\ up[n + 1] = at[n]
          BY <2>3, <3>7, <3>8, <3>10, <4>2
        <5> QED
          BY <2>3, <3>14, <5>1
      <4> QED
        BY <4>1, <4>2
    <3>15. Stream(w, up)'
      BY <1>1, <3>6, <3>10, <3>12, <3>13, <3>14 DEF Stream
    <3>16. Heard(w, up[0])'
      BY <1>1, <2>1, <3>10 DEF Heard
    <3> QED
      BY <1>1, <2>1, <3>15, <3>16 DEF Incoming
  <2>5. ASSUME leaving' = [leaving EXCEPT ![c] = <<>>], UNCHANGED socket
        PROVE  Incoming'
    <3>1. leaving'[calls] = <<>> \/ leaving'[calls] = leaving[calls]
      BY <1>3, <2>5 DEF StateTypes
    <3>2. Stream(w, at)' /\ Heard(w, at[0])'
      BY <1>1, <2>1, <2>5, <3>1 DEF Stream, Heard
    <3> QED
      BY <1>1, <2>1, <3>2 DEF Incoming
  <2> QED
    BY <1>2, <2>4, <2>5 DEF KernelReplies
<1>5. Begins(answer[calls]) => Begins(answer[calls])'
  BY <1>1 DEF Begins
<1> QED
  BY <1>1, <1>4, <1>5 DEF Replies

---------------------------------------------------------------------------
(* Reading.  A datagram finds the handler if it is about the request that   *)
(* waits.                                                                   *)
LEMMA HandlerIsFound ==
    ASSUME BookInv, phase = "waiting", socket # <<>>, calls > 0
    PROVE  /\ HasHandler(socket[1]) <=> socket[1][1].about = calls
           /\ HasHandler(socket[1]) => answer[calls] # NoAnswer
           /\ 1 \in 1..Len(socket)
<1> USE DEF BookInv
<1>1. 1 \in 1..Len(socket)
  BY DEF StateTypes
<1>2. PICK c \in Call : /\ About(calls, sequence_number, socket[1], c)
                        /\ socket[1][1].about = c
                        /\ answer[c] # NoAnswer
                        /\ 1 \in DOMAIN socket[1]
  <2>1. socket[1] \in Seq(Message) /\ Len(socket[1]) \in Nat \ {0}
    BY <1>1, DatagramIs
  <2>2. 1 \in DOMAIN socket[1]
    BY <2>1
  <2> QED
    BY <1>1, <2>2, DatagramIs
<1>3. Known(calls, sequence_number, c, socket[1][1].seq)
  BY <1>2 DEF About
<1>4. HasHandler(socket[1]) <=> socket[1][1].seq = sequence_number
  BY DEF HasHandler, HandlersEndWithTheirCall, Numbered
<1>5. calls \in Nat /\ sequence_number \in 0..(SeqMod - 1) /\ sequence_number > 0
  BY TransportAssumption DEF StateTypes, Numbered
<1>6. socket[1][1].seq = sequence_number => c = calls
  BY <1>3, <1>5, OnlyLatest
<1>7. c = calls => socket[1][1].seq = sequence_number
  BY <1>3, <1>5, TransportAssumption DEF Known
<1> QED
  BY <1>1, <1>2, <1>4, <1>6, <1>7

(* What has been given to the handler begins the answer.                    *)
LEMMA GivenIsOfAnswer ==
    ASSUME NEW w, NEW a, Faithful(w, a), NEW x \in Seq(Message), Len(x) <= Len(w),
           \A j \in 1..Len(x) : x[j] = w[j] /\ Given(w[j]),
           \A j \in 1..(Len(x) - 1) : ~IsLast(w[j])
    PROVE  Len(x) <= Len(a) /\ \A j \in 1..Len(x) : x[j] = a[j]
<1>1. PICK n \in Nat : n = Len(x)
  OBVIOUS
<1>2. Len(w) \in Nat /\ Len(a) \in Nat
  BY DEF Faithful
<1>3. ASSUME NEW j \in 1..n PROVE j <= Len(a) /\ x[j] = a[j]
  <2>1. j \in 1..Len(w) /\ \A k \in 1..(j - 1) : ~IsLast(w[k])
    BY <1>1, <1>2
  <2>2. x[j] = w[j] /\ Given(w[j])
    BY <1>1
  <2> QED
    BY <2>1, <2>2 DEF Faithful
<1>4. n <= Len(a)
  <2>1. CASE n = 0
    BY <1>2, <2>1
  <2>2. CASE n \in 1..n
    BY <1>3, <2>2
  <2> QED
    BY <2>1, <2>2
<1> QED
  BY <1>1, <1>3, <1>4

(* The message that ends a call ends the answer.                            *)
LEMMA LastReplies ==
    ASSUME BookInv, Replies, phase = "waiting", socket # <<>>,
           HasHandler(socket[1]), \E i \in DOMAIN socket[1] : IsLast(socket[1][i]),
           response' = response \o Delivered(socket[1]),
           UNCHANGED <<calls, answer>>
    PROVE  /\ calls > 0 /\ answer[calls] # NoAnswer
           /\ Begins(answer[calls])'
           /\ Exact => response' = answer[calls]
<1> USE DEF BookInv
<1>1. calls > 0 /\ answer[calls] # NoAnswer /\ Incoming
  <2>1. calls > 0
    BY DEF Replies
  <2>2. answer[calls] # NoAnswer
    BY <2>1, HandlerIsFound
  <2> QED
    BY <2>1, <2>2 DEF Replies
<1>2. PICK w, at : Faithful(w, answer[calls]) /\ Stream(w, at) /\ Heard(w, at[0])
  BY <1>1 DEF Incoming
<1>3. PICK d \in Seq(Message) : d = socket[1] /\ Len(d) \in Nat \ {0}
  BY <1>1, HandlerIsFound, DatagramIs
<1>4. PICK n \in Nat : n = at[0] /\ Len(response) = n
  BY <1>2 DEF Heard, StateTypes
<1>5. /\ 1 \in 1..Len(socket) /\ d[1].about = calls /\ Len(socket) \in Nat
  BY <1>1, <1>3, HandlerIsFound DEF StateTypes
<1>6. /\ n + Len(d) <= Len(w) /\ Len(w) \in Nat
      /\ \A k \in 1..Len(d) : d[k] = w[n + k]
  <2>1. at[1] = at[0] + Len(d) /\ \A k \in 1..Len(d) : d[k] = w[at[0] + k]
    <3>1. /\ at[1] = at[1 - 1] + Len(socket[1])
          /\ \A k \in 1..Len(socket[1]) : socket[1][k] = w[at[1 - 1] + k]
      BY <1>2, <1>3, <1>5 DEF Stream
    <3>2. 1 - 1 = 0
      OBVIOUS
    <3> QED
      BY <1>3, <3>1, <3>2
  <2>2. at[1] <= Len(w) /\ Len(w) \in Nat
    BY <1>2, <1>5 DEF Stream, Faithful
  <2> QED
    BY <1>4, <2>1, <2>2
<1>7. \A j \in 1..n : response[j] = w[j] /\ ~IsLast(w[j])
  BY <1>2, <1>4 DEF Heard
<1>8. PICK f \in 1..Len(d), g \in 0..Len(d) :
         /\ IsLast(d[f]) /\ \A i \in 1..(f - 1) : ~IsLast(d[i])
         /\ g = IF IsPayload(d[f]) THEN f ELSE f - 1
         /\ Delivered(d) \in Seq(Message) /\ Len(Delivered(d)) = g
         /\ \A i \in 1..g : Delivered(d)[i] = d[i]
  <2>1. \E i \in 1..Len(d) : IsLast(d[i])
    BY <1>3
  <2> QED
    BY <2>1, DeliveredIs
<1>9. PICK x \in Seq(Message) : x = response'
  <2>1. response \in Seq(Message) /\ response' = response \o Delivered(d)
    BY <1>3 DEF StateTypes
  <2> QED
    BY <1>8, <2>1, ConcatProperties
<1>10. /\ Len(x) = n + g
       /\ \A j \in 1..(n + g) : x[j] = IF j <= n THEN response[j] ELSE Delivered(d)[j - n]
  <2>1. response \in Seq(Message) /\ x = response \o Delivered(d)
    BY <1>3, <1>9 DEF StateTypes
  <2>2. /\ Len(x) = Len(response) + Len(Delivered(d))
        /\ \A j \in 1 .. Len(response) + Len(Delivered(d)) :
              x[j] = IF j <= Len(response) THEN response[j]
                     ELSE Delivered(d)[j - Len(response)]
    BY <1>8, <2>1, ConcatProperties
  <2>3. Len(response) = n /\ Len(Delivered(d)) = g
    BY <1>4, <1>8
  <2> QED
    BY <2>2, <2>3
<1>11. ASSUME NEW j \in 1..(n + g)
       PROVE  x[j] = w[j] /\ Given(w[j]) /\ (j < n + f => ~IsLast(w[j]))
  <2>1. CASE j <= n
    BY <1>7, <1>10, <2>1 DEF Given
  <2>2. CASE ~(j <= n)
    <3>1. PICK i \in 1..g : i = j - n
      BY <2>2
    <3>2. i \in 1..Len(d) /\ n + i = j
      BY <1>3, <1>8, <3>1
    <3>3. x[j] = d[i] /\ d[i] = w[j]
      BY <1>6, <1>8, <1>10, <2>2, <3>1, <3>2
    <3>4. i < f => ~IsLast(d[i])
      BY <1>8, <3>2
    <3>5. i = f => IsPayload(d[i])
      BY <1>8, <3>1
    <3>6. i <= f /\ (i < f <=> j < n + f)
      BY <1>8, <3>1
    <3> QED
      BY <3>3, <3>4, <3>5, <3>6 DEF Given
  <2> QED
    BY <2>1, <2>2
<1>12. g <= f /\ n + f \in 1..Len(w) /\ w[n + f] = d[f]
  BY <1>6, <1>8
<1>13. \A j \in 1..((n + f) - 1) : ~IsLast(w[j])
  <2> SUFFICES ASSUME NEW j \in 1..((n + f) - 1) PROVE ~IsLast(w[j])
    OBVIOUS
  <2>1. CASE j <= n
    BY <1>7, <2>1
  <2>2. CASE ~(j <= n)
    <3>1. PICK i \in 1..(f - 1) : i = j - n
      BY <2>2
    <3>2. i \in 1..Len(d) /\ n + i = j
      BY <1>8, <3>1
    <3> QED
      BY <1>6, <1>8, <3>1, <3>2
  <2> QED
    BY <2>1, <2>2
<1>14. /\ Len(x) <= Len(answer[calls])
       /\ \A j \in 1..Len(x) : x[j] = answer[calls][j]
  <2>1. Len(x) <= Len(w)
    BY <1>6, <1>8, <1>10
  <2>2. \A j \in 1..Len(x) : x[j] = w[j] /\ Given(w[j])
    BY <1>10, <1>11
  <2>3. \A j \in 1..(Len(x) - 1) : ~IsLast(w[j])
    BY <1>10, <1>12, <1>13
  <2> QED
    BY <1>2, <2>1, <2>2, <2>3, GivenIsOfAnswer
<1>15. Begins(answer[calls])'
  BY <1>9, <1>14 DEF Begins
<1>16. ASSUME Exact PROVE x = answer[calls]
  <2>1. Len(answer[calls]) = IF IsPayload(d[f]) THEN n + f ELSE (n + f) - 1
    <3>1. IsLast(w[n + f])
      BY <1>8, <1>12
    <3> QED
      BY <1>2, <1>12, <1>13, <1>16, <3>1 DEF Faithful
  <2>2. Len(answer[calls]) = n + g
    BY <1>8, <2>1
  <2>3. answer[calls] \in Seq(Message)
    BY <1>2 DEF Faithful
  <2> QED
    BY <1>10, <1>14, <2>2, <2>3
<1> QED
  BY <1>1, <1>9, <1>15, <1>16

(* A datagram without the end of the answer, or of another answer.          *)
LEMMA MoreReplies ==
    ASSUME BookInv, Replies, phase = "waiting", socket # <<>>,
           ~(HasHandler(socket[1]) /\ \E i \in DOMAIN socket[1] : IsLast(socket[1][i])),
           response' = IF HasHandler(socket[1]) THEN response \o Delivered(socket[1])
                       ELSE response,
           socket' = Tail(socket),
           UNCHANGED <<calls, answer, leaving>>
    PROVE  IF answer[calls] = NoAnswer THEN response' = <<>> ELSE Incoming'
<1> USE DEF BookInv
<1>1. calls > 0
  BY DEF Replies
<1>2. CASE answer[calls] = NoAnswer
  BY <1>1, <1>2, HandlerIsFound DEF Replies
<1>3. CASE answer[calls] # NoAnswer
  <2>1. PICK w, at : Faithful(w, answer[calls]) /\ Stream(w, at) /\ Heard(w, at[0])
    BY <1>3 DEF Replies, Incoming
  <2>2. PICK d \in Seq(Message) : d = socket[1] /\ Len(d) \in Nat \ {0}
    BY <1>1, HandlerIsFound, DatagramIs
  <2>3. PICK n \in Nat : n + 1 = Len(socket)
    <3>1. Len(socket) \in Nat /\ 1 \in 1..Len(socket)
      BY <1>1, HandlerIsFound DEF StateTypes
    <3>2. Len(socket) - 1 \in Nat /\ (Len(socket) - 1) + 1 = Len(socket)
      BY <3>1
    <3> QED
      BY <3>2
  <2>4. Len(socket') = n /\ \A i \in 1..n : socket'[i] = socket[i + 1]
    BY <2>3 DEF StateTypes
  <2>5. /\ at \in [0..(n + 1) -> Nat]
        /\ \A i \in 1..(n + 1) :
              IF socket[i][1].about = calls
              THEN /\ at[i] = at[i - 1] + Len(socket[i])
                   /\ \A k \in 1..Len(socket[i]) : socket[i][k] = w[at[i - 1] + k]
              ELSE at[i] = at[i - 1]
        /\ \A i \in 0..(n + 1) : at[i] <= Len(w)
        /\ leaving[calls] # <<>> =>
              /\ Len(w) = at[n + 1] + Len(leaving[calls])
              /\ \A k \in 1..Len(leaving[calls]) : leaving[calls][k] = w[at[n + 1] + k]
    BY <2>1, <2>3 DEF Stream
  <2>6. PICK up : up = [i \in 0..n |-> at[i + 1]]
    OBVIOUS
  <2>7. up \in [0..n -> Nat] /\ \A i \in 0..n : up[i] = at[i + 1]
    BY <2>5, <2>6
  <2>8. ASSUME NEW i \in 1..n
        PROVE  IF socket'[i][1].about = calls
               THEN /\ up[i] = up[i - 1] + Len(socket'[i])
                    /\ \A k \in 1..Len(socket'[i]) : socket'[i][k] = w[up[i - 1] + k]
               ELSE up[i] = up[i - 1]
    <3>1. i + 1 \in 1..(n + 1) /\ (i + 1) - 1 = i /\ i \in 0..n /\ i - 1 \in 0..n
          /\ (i - 1) + 1 = i
      OBVIOUS
    <3>2. socket'[i] = socket[i + 1] /\ up[i] = at[i + 1] /\ up[i - 1] = at[i]
      BY <2>4, <2>7, <3>1
    <3>3. IF socket[i + 1][1].about = calls
          THEN /\ at[i + 1] = at[(i + 1) - 1] + Len(socket[i + 1])
               /\ \A k \in 1..Len(socket[i + 1]) :
                     socket[i + 1][k] = w[at[(i + 1) - 1] + k]
          ELSE at[i + 1] = at[(i + 1) - 1]
      BY <2>5, <3>1
    <3> QED
      BY <3>1, <3>2, <3>3
  <2>9. \A i \in 0..n : up[i] <= Len(w)
    BY <2>5, <2>7
  <2>10. up[n] = at[n + 1]
    BY <2>7
  <2>11. Stream(w, up)'
    BY <2>4, <2>5, <2>7, <2>8, <2>9, <2>10 DEF Stream
  <2>12. Heard(w, up[0])'
    <3>1. /\ 1 \in 1..(n + 1) /\ 1 - 1 = 0 /\ 0 \in 0..n /\ 0 + 1 = 1
      OBVIOUS
    <3>2. up[0] = at[1] /\ 1 - 1 = 0
      BY <2>7, <3>1
    <3>3. IF d[1].about = calls
          THEN at[1] = at[0] + Len(d) /\ \A k \in 1..Len(d) : d[k] = w[at[0] + k]
          ELSE at[1] = at[0]
      <4>1. IF socket[1][1].about = calls
            THEN /\ at[1] = at[1 - 1] + Len(socket[1])
                 /\ \A k \in 1..Len(socket[1]) : socket[1][k] = w[at[1 - 1] + k]
            ELSE at[1] = at[1 - 1]
        BY <2>5, <3>1
      <4> QED
        BY <2>2, <3>2, <4>1
    <3>4. CASE ~HasHandler(d)
      <4>1. d[1].about # calls /\ response' = response
        BY <1>1, <2>2, <3>4, HandlerIsFound
      <4> QED
        BY <2>1, <3>2, <3>3, <4>1 DEF Heard
    <3>5. CASE HasHandler(d)
      <4>1. d[1].about = calls /\ \A i \in 1..Len(d) : ~IsLast(d[i])
        BY <1>1, <2>2, <3>5, HandlerIsFound
      <4>2. Delivered(d) = d
        BY <4>1, DeliveredIs
      <4>3. PICK m \in Nat : m = at[0] /\ Len(response) = m /\ response \in Seq(Message)
        BY <2>1 DEF Heard, StateTypes
      <4>4. /\ Len(response') = m + Len(d)
            /\ \A j \in 1..(m + Len(d)) :
                  response'[j] = IF j <= m THEN response[j] ELSE d[j - m]
        <5>1. response' = response \o d
          BY <2>2, <3>5, <4>2
        <5>2. PICK x \in Seq(Message) : x = response /\ Len(x) = m
          BY <4>3
        <5>3. /\ Len(x \o d) = Len(x) + Len(d)
              /\ \A j \in 1 .. Len(x) + Len(d) :
                    (x \o d)[j] = IF j <= Len(x) THEN x[j] ELSE d[j - Len(x)]
          BY ConcatProperties
        <5> QED
          BY <5>1, <5>2, <5>3
      <4>5. up[0] = m + Len(d)
        BY <3>2, <3>3, <4>1, <4>3
      <4>6. ASSUME NEW j \in 1..(m + Len(d)) PROVE response'[j] = w[j] /\ ~IsLast(w[j])
        <5>1. CASE j <= m
          BY <2>1, <4>3, <4>4, <5>1 DEF Heard
        <5>2. CASE ~(j <= m)
          <6>1. PICK k \in 1..Len(d) : k = j - m /\ m + k = j
            BY <2>2, <5>2
          <6>2. response'[j] = d[k]
            BY <4>4, <5>2, <6>1
          <6>3. d[k] = w[m + k]
            BY <3>3, <4>1, <4>3
          <6> QED
            BY <4>1, <6>1, <6>2, <6>3
        <5> QED
          BY <5>1, <5>2
      <4> QED
        BY <4>4, <4>5, <4>6 DEF Heard
    <3> QED
      BY <3>4, <3>5
  <2> QED
    BY <1>3, <2>1, <2>11, <2>12 DEF Incoming
<1> QED
  BY <1>2, <1>3

LEMMA PollReturnsReplies ==
    ASSUME BookInv, Replies, NEW elapsed \in 0..MaxWait, PollReturns(elapsed)
    PROVE  Replies'
<1> USE DEF BookInv
<1>1. /\ phase = "waiting" /\ ~result
      /\ UNCHANGED <<request, leaving, answer, calls>>
      /\ calls > 0
      /\ answer[calls] # NoAnswer => answer[calls] \in AnswersTo(request)
      /\ message_handlers = {request.seq}
  BY DEF PollReturns, Replies, HandlersEndWithTheirCall
<1>2. ASSUME phase' = "idle", result' = FALSE PROVE Replies'
  BY <1>1, <1>2 DEF Replies
<1>3. CASE sock_err
  <2>1. LoopTest(message_handlers, time_remaining') /\ UNCHANGED <<socket, response>>
    BY <1>3 DEF PollReturns
  <2>2. \/ phase' = "idle" /\ result' = FALSE
        \/ UNCHANGED <<phase, result>>
    BY <1>1, <2>1 DEF LoopTest
  <2> QED
    BY <1>1, <1>2, <2>1, <2>2, RepliesUnchanged DEF replyVars
<1>4. CASE ~sock_err
  <2>1. /\ socket # <<>> /\ Receive(socket[1])
        /\ LoopTest(message_handlers \ Removed(socket[1]), time_remaining')
    BY <1>4 DEF PollReturns, StateTypes
  <2>2. /\ socket' = Tail(socket)
        /\ response' = IF HasHandler(socket[1]) THEN response \o Delivered(socket[1])
                       ELSE response
    BY <2>1 DEF Receive
  <2>3. CASE phase' = "idle" /\ result' = TRUE
                /\ request.seq \notin message_handlers \ Removed(socket[1])
    <3>1. HasHandler(socket[1]) /\ \E i \in DOMAIN socket[1] : IsLast(socket[1][i])
      BY <1>1, <2>3 DEF Removed
    <3>2. /\ Begins(answer[calls])' /\ answer[calls] # NoAnswer
          /\ Exact => response' = answer[calls]
      BY <1>1, <2>1, <2>2, <3>1, LastReplies
    <3> QED
      BY <1>1, <2>3, <3>2 DEF Replies
  <2>4. CASE UNCHANGED <<phase, result>>
                /\ request.seq \in message_handlers \ Removed(socket[1])
    <3>1. ~(HasHandler(socket[1]) /\ \E i \in DOMAIN socket[1] : IsLast(socket[1][i]))
      BY <2>4 DEF Removed
    <3>2. IF answer[calls] = NoAnswer THEN response' = <<>> ELSE Incoming'
      BY <1>1, <2>1, <2>2, <3>1, MoreReplies
    <3> QED
      BY <1>1, <2>4, <3>2 DEF Replies
  <2> QED
    BY <1>2, <2>1, <2>3, <2>4 DEF LoopTest
<1> QED
  BY <1>3, <1>4

LEMMA RepliesStep ==
    ASSUME BookInv, Replies, [Next]_vars
    PROVE  Replies'
<1>1. CASE \E kind \in Kind : SendMessageAndGetResponses(kind)
  BY <1>1, CallReplies
<1>2. CASE Wait
  BY <1>2, PollFailsReplies, PollReturnsReplies DEF Wait
<1>3. CASE ReadEvents \/ RunHandler \/ HandlerReturns
  BY <1>3, RepliesUnchanged
     DEF ReadEvents, RunHandler, HandlerReturns, callerVars, kernelVars, replyVars
<1>4. CASE Kernel
  <2>1. ASSUME UNCHANGED <<callerVars, managerVars, frameVars, kernelVars, calls>>
        PROVE  Replies'
    BY <2>1, RepliesUnchanged DEF callerVars, kernelVars, replyVars
  <2> QED
    BY <1>4, <2>1, ServesReplies, RepliesReplies DEF Kernel
<1>5. CASE UNCHANGED vars
  BY <1>5, RepliesUnchanged DEF vars, callerVars, kernelVars, replyVars
<1> QED
  BY <1>1, <1>2, <1>3, <1>4, <1>5 DEF Next

LEMMA RepliesInvariant == Spec => [](BookInv /\ Replies)
<1>1. Init => Replies
  BY DEF Init, Replies
<1>2. BookInv /\ Replies /\ [Next]_vars => Replies'
  BY RepliesStep
<1> QED
  BY <1>1, <1>2, BookInvariant, PTL DEF Spec

---------------------------------------------------------------------------
(* The response that SendMessageAndGetResponses collects is a beginning of  *)
(* the answer to the request it has sent.  Answers that are up to MaxAge    *)
(* requests late, and numbers that have wrapped since, do not change that,  *)
(* nor does an answer that is cut short, dropped or garbled.                *)
THEOREM ResponseIsOfItsRequest == Spec => []ResponseIsOwn
<1>1. BookInv /\ Replies => ResponseIsOwn
  <2> SUFFICES ASSUME BookInv, Replies, phase = "waiting", response # <<>>
               PROVE  /\ answer[request.call] # NoAnswer
                      /\ Len(response) <= Len(answer[request.call])
                      /\ response = SubSeq(answer[request.call], 1, Len(response))
    BY DEF ResponseIsOwn
  <2>1. request.call = calls /\ answer[calls] # NoAnswer
    BY DEF BookInv, Numbered, Replies
  <2>2. PICK w, at : Faithful(w, answer[calls]) /\ Stream(w, at) /\ Heard(w, at[0])
    BY <2>1 DEF Replies, Incoming
  <2>3. PICK x \in Seq(Message) : x = response
    BY DEF BookInv, StateTypes
  <2>4. PICK a \in Seq(Message) : a = answer[calls]
    BY <2>2 DEF Faithful
  <2>5. Len(x) <= Len(w)
    BY <2>2, <2>3 DEF Stream, Heard, BookInv, StateTypes
  <2>6. Len(x) <= Len(a) /\ \A j \in 1..Len(x) : x[j] = a[j]
    <3>1. \A j \in 1..Len(x) : x[j] = w[j] /\ ~IsLast(w[j]) /\ Given(w[j])
      BY <2>2, <2>3 DEF Heard, Given
    <3> QED
      BY <2>2, <2>4, <2>5, <3>1, GivenIsOfAnswer
  <2>7. x = SubSeq(a, 1, Len(x))
    <3>1. PICK y \in Seq(Message) : y = SubSeq(a, 1, Len(x))
      <4>1. \A j \in 1..Len(x) : a[j] \in Message
        BY <2>6
      <4>2. SubSeq(a, 1, Len(x)) \in Seq(Message)
        BY <4>1, SubSeqProperties
      <4> QED
        BY <4>2
    <3>2. Len(y) = Len(x) /\ \A j \in 1..Len(x) : y[j] = a[j]
      BY <2>6, <3>1
    <3> QED
      BY <2>6, <3>2
  <2> QED
    BY <2>1, <2>3, <2>4, <2>6, <2>7
<1> QED
  BY <1>1, RepliesInvariant, PTL

(* If SendMessageAndGetAck reports success, the kernel has carried out this *)
(* very command without an error.                                           *)
THEOREM AckIsTrue == Spec => []AckMeansDone
<1>1. BookInv /\ Replies => AckMeansDone
  <2> SUFFICES ASSUME BookInv, Replies, request.kind = "ack", SendMessageAndGetAck
               PROVE  answer[request.call] = <<Msg(request, "error", FALSE, 0)>>
    BY DEF AckMeansDone
  <2>1. /\ result /\ Len(response) = 1 /\ response[1].part = 0
    BY DEF SendMessageAndGetAck, SendMessageAndGetAckOrError,
           SendMessageAndGetSingleResponseOrError
  <2>2. request.call = calls
    BY DEF BookInv, Numbered
  <2>3. PICK a \in AnswersTo(request) : a = answer[calls] /\ response[1] = a[1]
    BY <2>1 DEF Replies, Begins
  <2>4. PICK bad, good : /\ bad = Msg(request, "error", FALSE, 1)
                         /\ good = Msg(request, "error", FALSE, 0)
    OBVIOUS
  <2>5. a = <<bad>> \/ a = <<good>>
    BY <2>4 DEF AnswersTo
  <2>6. a # <<bad>>
    <3>1. <<bad>>[1] = bad
      OBVIOUS
    <3>2. bad.part = 1
      BY <2>4 DEF Msg
    <3> QED
      BY <2>1, <2>3, <3>1, <3>2
  <2> QED
    BY <2>2, <2>3, <2>4, <2>5, <2>6
<1> QED
  BY <1>1, RepliesInvariant, PTL

---------------------------------------------------------------------------
(* The refinement.  A request, an answer of the kernel and the end of a     *)
(* call are steps of RequestReply; reading a part of an answer is none.     *)
told == IF result THEN response ELSE NoAnswer
replyStep == <<calls, phase, answer, result, told>>

LEMMA CallRefines ==
    ASSUME NEW kind \in Kind, SendMessageAndGetResponses(kind)
    PROVE  Abstract!Call
<1>1. /\ phase = "idle" /\ calls < MaxCalls /\ calls' = calls + 1
      /\ phase' \in {"idle", "waiting"} /\ result' = FALSE /\ answer' = answer
  BY DEF SendMessageAndGetResponses, MayCall
<1> QED
  BY <1>1 DEF Abstract!Call, Abstract!Told

LEMMA ServesRefines ==
    ASSUME BookInv, NEW r \in unanswered, KernelServes(r),
           UNCHANGED <<callerVars, managerVars, frameVars, eventVars, calls>>
    PROVE  \E c \in 1..MaxCalls, a \in UNION {AnswersTo(q) : q \in Request} :
              Abstract!Serve(c, a)
<1>1. /\ r \in Request /\ r.call \in 1..MaxCalls /\ r.call <= calls
      /\ answer[r.call] = NoAnswer
  <2>1. r \in Request
    BY DEF BookInv, StateTypes
  <2>2. r.call \in 1..calls /\ answer[r.call] = NoAnswer /\ calls \in 0..MaxCalls
    BY DEF BookInv, Numbered, Known, StateTypes
  <2>3. r.call \in 1..MaxCalls /\ r.call <= calls
    BY <2>2, TransportAssumption
  <2> QED
    BY <2>1, <2>2, <2>3
<1>2. PICK a \in AnswersTo(r) : answer' = [answer EXCEPT ![r.call] = a]
  BY DEF KernelServes
<1>3. UNCHANGED <<calls, phase, result, response>>
  BY DEF callerVars
<1>4. Abstract!Serve(r.call, a)
  BY <1>1, <1>2, <1>3 DEF Abstract!Serve
<1>5. a \in UNION {AnswersTo(q) : q \in Request}
  BY <1>1
<1> QED
  BY <1>1, <1>4, <1>5

LEMMA WaitRefines ==
    ASSUME Exact, BookInv, Replies, Replies', Wait
    PROVE  Abstract!Return \/ UNCHANGED replyStep
<1>1. phase = "waiting" /\ ~result /\ UNCHANGED <<calls, answer>>
  BY DEF Wait, PollFails, PollReturns, kernelVars, Replies
<1>2. \/ phase' = "idle" /\ result' = FALSE
      \/ phase' = "idle" /\ result' = TRUE
      \/ UNCHANGED <<phase, result>>
  BY DEF Wait, PollFails, PollReturns, LoopTest
<1>3. CASE phase' = "idle" /\ result' = FALSE
  BY <1>1, <1>3 DEF Abstract!Return, Abstract!Told
<1>4. CASE phase' = "idle" /\ result' = TRUE
  <2>1. answer[calls] # NoAnswer /\ response' = answer[calls]
    BY <1>1, <1>4 DEF Replies
  <2> QED
    BY <1>1, <1>4, <2>1 DEF Abstract!Return, Abstract!Told
<1>5. CASE UNCHANGED <<phase, result>>
  BY <1>1, <1>5 DEF replyStep, told
<1> QED
  BY <1>2, <1>3, <1>4, <1>5

LEMMA StepRefines ==
    ASSUME Exact, BookInv, Replies, Replies', [Next]_vars
    PROVE  Abstract!Next \/ UNCHANGED replyStep
<1>1. ASSUME UNCHANGED <<callerVars, answer, calls>>
      PROVE  UNCHANGED replyStep
  BY <1>1 DEF callerVars, replyStep, told
<1>2. CASE \E kind \in Kind : SendMessageAndGetResponses(kind)
  BY <1>2, CallRefines DEF Abstract!Next
<1>3. CASE Wait
  BY <1>3, WaitRefines DEF Abstract!Next
<1>4. CASE ReadEvents \/ RunHandler \/ HandlerReturns
  BY <1>1, <1>4 DEF ReadEvents, RunHandler, HandlerReturns, kernelVars
<1>5. CASE Kernel
  <2>1. ASSUME NEW r \in unanswered, KernelServes(r),
               UNCHANGED <<callerVars, managerVars, frameVars, eventVars, calls>>
        PROVE  Abstract!Next
    BY <2>1, ServesRefines DEF Abstract!Next
  <2>2. ASSUME NEW c \in Call, KernelReplies(c),
               UNCHANGED <<callerVars, managerVars, frameVars, eventVars, calls>>
        PROVE  UNCHANGED replyStep
    BY <1>1, <2>2 DEF KernelReplies
  <2>3. ASSUME UNCHANGED <<callerVars, managerVars, frameVars, kernelVars, calls>>
        PROVE  UNCHANGED replyStep
    BY <1>1, <2>3 DEF kernelVars
  <2> QED
    BY <1>5, <2>1, <2>2, <2>3 DEF Kernel
<1>6. CASE UNCHANGED vars
  BY <1>1, <1>6 DEF vars, kernelVars
<1> QED
  BY <1>2, <1>3, <1>4, <1>5, <1>6 DEF Next

(* As long as no answer is garbled on its way, SendMessageAndGetResponses   *)
(* returns true only with the whole answer of the kernel to the request it  *)
(* was called with: late and dropped answers, poll errors, timeouts and     *)
(* reads of other answers all show as RequestReply allows.                  *)
THEOREM RequestsAreAnswered == Exact => (Spec => ImplementsRequestReply)
<1> SUFFICES ASSUME Exact
             PROVE  Spec => ImplementsRequestReply
  OBVIOUS
<1>1. Init => Abstract!Init
  BY DEF Init, Abstract!Init, Call
<1>2. BookInv /\ Replies /\ (BookInv /\ Replies)' /\ [Next]_vars
         => [Abstract!Next]_(Abstract!vars)
  <2>1. (UNCHANGED replyStep) => UNCHANGED Abstract!vars
    BY DEF replyStep, told, Abstract!vars
  <2> QED
    BY <2>1, StepRefines
<1> QED
  BY <1>1, <1>2, RepliesInvariant, PTL DEF Spec, ImplementsRequestReply, Abstract!Spec
=============================================================================
