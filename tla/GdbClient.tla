----------------------------- MODULE GdbClient -----------------------------
(***************************************************************************)
(* The gdb-remote client: GdbBackend (gdb_backend.cpp) over GdbClient      *)
(* (gdb_client.cpp) over FrameDecoder (frame.cpp) over one TCP stream.     *)
(* Requests carry no number: transact() takes the next payload that can be *)
(* deframed as the answer to the request it has just sent.                 *)
(*                                                                         *)
(* The stream is a sequence of tokens: an ack byte, a head ("$payload")    *)
(* and a tail ("#xx").  A recv returns any non-empty prefix of what is     *)
(* under way, so a frame may arrive in two pieces.                         *)
(***************************************************************************)
EXTENDS Integers, Sequences, FiniteSets

CONSTANTS
  Ops,          \* the requests callers make
  Stops,        \* the stop replies the guest can produce
  MaxRequests,  \* bound: requests sent over the client's life
  MaxAttempts,  \* recv calls per transact (64)
  MaxOutput,    \* bound: console-output packets per run request
  Corrupts      \* BOOLEAN: a frame may arrive with a wrong checksum

Request == {"qSupported", "?", "g", "m", "M", "Z", "z", "c", "s"}
RunOps == {"c", "s"}
StopOps == {"?", "c", "s"}
OkOps == {"M", "Z", "z"}
StopBody == {"S", "Tbreak", "W", "X"}

ASSUME OpsAssumption      == Ops \subseteq Request \ {"qSupported", "?"}
ASSUME StopsAssumption    == Stops \subseteq StopBody
ASSUME BoundsAssumption   ==
  MaxRequests \in Nat /\ MaxAttempts \in Nat \ {0} /\ MaxOutput \in Nat
ASSUME CorruptsAssumption == Corrupts \in BOOLEAN

\* What a payload is; "hex" is any run of hex digits, "feat" the feature list.
Body == {"feat", "hex", "OK", "Exx", "O"} \cup StopBody
Id == 1 .. MaxRequests
Payload == [id : Id, body : Body]   \* id: the request it answers (history)

ack == [t |-> "ack"]
head(p) == [t |-> "head", p |-> p]
tail(good) == [t |-> "tail", good |-> good]

VARIABLES
  conn,   \* sock_ >= 0
  buf,    \* decoder_.buf_
  call,   \* the transact in progress
  reply,  \* the result of the last call
  net,    \* tokens under way to the client
  todo,   \* requests the stub has not answered
  hist    \* history, see below

vars == <<conn, buf, call, reply, net, todo, hist>>

NoCall == [op |-> "none"]

(***************************************************************************)
(* hist.reqs    requests sent                                              *)
(* hist.failed  the requests whose transact ended in an error, or took     *)
(*              console output for an answer                               *)
(* hist.sent    requests the stub has answered                             *)
(* hist.taken   requests whose answer a transact returned                  *)
(* hist.intact  no checksum was wrong and the client connected only once   *)
(***************************************************************************)
Init ==
  /\ conn = FALSE
  /\ buf = << >>
  /\ call = NoCall
  /\ reply = [res |-> "none"]
  /\ net = << >>
  /\ todo = << >>
  /\ hist = [reqs |-> 0, failed |-> {}, sent |-> {}, taken |-> {}, intact |-> TRUE]

----------------------------------------------------------------------------
(***************************************************************************)
(* FrameDecoder::next_payload                                              *)
(***************************************************************************)
FirstHead(b) ==
  { i \in DOMAIN b : b[i].t = "head" /\ \A j \in 1 .. i - 1 : b[j].t # "head" }

\* The first '#xx' after the first '$'.
FirstTail(b) ==
  { i \in DOMAIN b : /\ b[i].t = "tail"
                     /\ \E h \in FirstHead(b) : h < i /\ \A j \in h .. i - 1 : b[j].t # "tail" }

\* A complete packet is at the front of the buffer, junk before it included.
Complete(b) == FirstTail(b) # {}

TailAt(b) == CHOOSE i \in FirstTail(b) : TRUE

\* Its checksum is right: it is one frame, as the stub sent it.
Good(b) == b[TailAt(b)].good /\ TailAt(b) - 1 \in FirstHead(b)

Yields(b) == Complete(b) /\ Good(b)

Yielded(b) == b[TailAt(b) - 1].p

\* Mutant: what was received behind the packet is thrown away.
RestClears(b) ==
  IF Complete(b) \/ FirstHead(b) = {} THEN << >> ELSE b

\* buf_ afterwards: past the packet, emptied when there is no '$', or without
\* its leading acks.
Rest(b) ==
  IF Complete(b) THEN SubSeq(b, TailAt(b) + 1, Len(b))
  ELSE IF FirstHead(b) = {} THEN << >>
  ELSE LET notAck == { i \in DOMAIN b : b[i].t # "ack" }
       IN  SubSeq(b, CHOOSE i \in notAck : \A j \in notAck : i <= j, Len(b))

----------------------------------------------------------------------------
(***************************************************************************)
(* How the callers read a payload: parse_stop_reply and translate_stop,    *)
(* hex_decode, reply_error_code, reply_is_ok.                              *)
(***************************************************************************)
translate_stop(body) ==
  CASE body = "S"      -> "Signal"
    [] body = "Tbreak" -> "Breakpoint"
    [] body = "W"      -> "Exited"
    [] body = "X"      -> "Error"
    [] OTHER           -> "Unknown"

\* The call accepts the payload as its answer.
Accepts(op, body) ==
  \/ op \in StopOps \cup {"qSupported"}
  \/ op \in {"g", "m"} /\ body = "hex"
  \/ op \in OkOps /\ body = "OK"

Answer(op, id, p) ==
  IF ~Accepts(op, p.body) THEN [res |-> "err"]
  ELSE IF op \in StopOps
  THEN [res |-> "stop", op |-> op, id |-> id, from |-> p, kind |-> translate_stop(p.body)]
  ELSE [res |-> "answer", op |-> op, id |-> id, from |-> p]

----------------------------------------------------------------------------
(***************************************************************************)
(* The client                                                              *)
(***************************************************************************)
Idle == call = NoCall

\* transact up to its loop: the request is framed and handed to the socket.
\* Its id is history.
send(op) ==
  /\ hist.reqs < MaxRequests
  /\ call' = [op |-> op, id |-> hist.reqs + 1, attempts |-> 0]
  /\ todo' = Append(todo, [id |-> hist.reqs + 1, op |-> op, output |-> 0])

\* GdbBackend::attach: connect, the handshake, then (see Ends) the halt reason.
attach ==
  /\ Idle /\ ~conn
  /\ hist.reqs + 1 < MaxRequests
  /\ conn' = TRUE
  /\ send("qSupported")
  /\ hist' = [hist EXCEPT !.reqs = @ + 1, !.intact = hist.reqs = 0]
  /\ UNCHANGED <<buf, reply, net>>

\* A request of a caller.
request(op) ==
  /\ Idle /\ conn
  /\ send(op)
  /\ hist' = [hist EXCEPT !.reqs = @ + 1]
  /\ UNCHANGED <<conn, buf, reply, net>>

\* The requests that change nothing: unconnected, or not supported.
refused ==
  /\ Idle
  /\ reply' = [res |-> "err"]
  /\ UNCHANGED <<conn, buf, call, net, todo, hist>>

\* A transact ends with result r, history h.  The handshake's is ignored and
\* the halt reason asked for next.
Ends(r, h) ==
  IF call.op = "qSupported"
  THEN /\ call' = [op |-> "?", id |-> h.reqs + 1, attempts |-> 0]
       /\ todo' = Append(todo, [id |-> h.reqs + 1, op |-> "?", output |-> 0])
       /\ hist' = [h EXCEPT !.reqs = @ + 1]
       /\ UNCHANGED reply
  ELSE /\ call' = NoCall
       /\ reply' = r
       /\ hist' = h
       /\ UNCHANGED todo

Failed == [hist EXCEPT !.failed = @ \cup {call.id}]

\* The loop's next_payload yields a payload.
transact_returns ==
  /\ ~Idle
  /\ Yields(buf)
  /\ LET p == Yielded(buf)
     IN  /\ Ends(Answer(call.op, call.id, p),
                 IF p.body = "O" THEN Failed ELSE [hist EXCEPT !.taken = @ \cup {p.id}])
         /\ buf' = Rest(buf)
         /\ UNCHANGED <<conn, net>>

\* It yields none and recv returns n tokens.  The last attempt's bytes are fed
\* to the decoder and not looked at.
transact_receives(n) ==
  /\ ~Idle
  /\ ~Yields(buf)
  /\ buf' = Rest(buf) \o SubSeq(net, 1, n)
  /\ net' = SubSeq(net, n + 1, Len(net))
  /\ IF call.attempts + 1 = MaxAttempts
     THEN Ends([res |-> "err"], Failed)
     ELSE call' = [call EXCEPT !.attempts = @ + 1] /\ UNCHANGED <<reply, todo, hist>>
  /\ UNCHANGED conn

\* Mutant: recv waits without a timeout.
NoTimeout ==
  /\ ~Idle
  /\ ~Yields(buf)
  /\ ~conn
  /\ UNCHANGED vars

\* Mutant: an error drops the bytes received so far, half a frame perhaps.
TimeoutFlushes ==
  /\ ~Idle
  /\ ~Yields(buf)
  /\ buf' = << >>
  /\ Ends([res |-> "err"], Failed)
  /\ UNCHANGED <<conn, net>>

\* It yields none and recv fails: nothing for kTimeoutMs, or the peer is gone.
transact_times_out ==
  /\ ~Idle
  /\ ~Yields(buf)
  /\ buf' = Rest(buf)
  /\ Ends([res |-> "err"], Failed)
  /\ UNCHANGED <<conn, net>>

\* detach: the socket is closed, the decoder keeps its bytes.
detach ==
  /\ Idle /\ conn
  /\ conn' = FALSE
  /\ net' = << >>
  /\ todo' = << >>
  /\ reply' = [res |-> "ok"]
  /\ UNCHANGED <<buf, call, hist>>

----------------------------------------------------------------------------
(***************************************************************************)
(* The stub (external): it acks a request and answers requests in order,   *)
(* a run request only once the guest stops.                                *)
(***************************************************************************)
Bodies(op) ==
  CASE op = "qSupported"    -> {"feat"}
    [] op \in {"g", "m"}    -> {"hex", "Exx"}
    [] op \in OkOps         -> {"OK", "Exx"}
    [] op \in StopOps       -> Stops

Frame(p, good) == <<head(p), tail(good)>>

stub_answers ==
  /\ todo # << >>
  /\ \E b \in Bodies(Head(todo).op), good \in (IF Corrupts THEN BOOLEAN ELSE {TRUE}) :
       /\ net' = net \o <<ack>> \o Frame([id |-> Head(todo).id, body |-> b], good)
       /\ hist' = [hist EXCEPT !.sent = @ \cup {Head(todo).id}, !.intact = @ /\ good]
  /\ todo' = Tail(todo)
  /\ UNCHANGED <<conn, buf, call, reply>>

\* The running guest writes to its console.
stub_outputs ==
  /\ todo # << >>
  /\ Head(todo).op \in RunOps
  /\ Head(todo).output < MaxOutput
  /\ net' = net \o Frame([id |-> Head(todo).id, body |-> "O"], TRUE)
  /\ todo' = [todo EXCEPT ![1].output = @ + 1]
  /\ UNCHANGED <<conn, buf, call, reply, hist>>

----------------------------------------------------------------------------
Client ==
  \/ transact_returns
  \/ \E n \in 1 .. Len(net) : transact_receives(n)
  \/ transact_times_out

Next ==
  \/ attach
  \/ \E op \in Ops : request(op)
  \/ refused
  \/ Client
  \/ detach
  \/ stub_answers
  \/ stub_outputs

Spec == Init /\ [][Next]_vars

\* The client's loop runs; a recv returns within kTimeoutMs.  Nothing is
\* assumed of the stub.
FairSpec == Spec /\ WF_vars(Client)

----------------------------------------------------------------------------
(***************************************************************************)
(* Properties                                                              *)
(***************************************************************************)
Accepted == reply.res \in {"answer", "stop"}

\* The answers under way, in the stream or already in the decoder.
UnderWay ==
  LET s == buf \o net
  IN  { s[i].p.id : i \in { j \in DOMAIN s : s[j].t = "head" /\ s[j].p.body # "O" } }

(***************************************************************************)
(* Timeouts, late answers, split frames and console output never reorder,  *)
(* duplicate or lose an answer: the answers returned so far are those of   *)
(* the first requests, each answer sent is returned or still under way,    *)
(* and none is both.  (transact leaves what it did not consume in the      *)
(* decoder; next_payload erases exactly one packet)                        *)
(***************************************************************************)
AnswersInOrder ==
  hist.intact =>
    /\ \A i \in hist.taken : \A j \in 1 .. i - 1 : j \in hist.taken
    /\ conn => hist.sent = hist.taken \cup UnderWay
    /\ hist.taken \cap UnderWay = {}

(***************************************************************************)
(* A failed transact is never made up for: from then on the client is one  *)
(* answer behind for each transact that failed before, exactly, also for   *)
(* the handshake, whose result connect ignores.  (transact neither numbers *)
(* requests nor flushes the stream after an error)                         *)
(***************************************************************************)
LagIsExact ==
  (hist.intact /\ Accepted /\ reply.from.body # "O") =>
    reply.from.id = reply.id - Cardinality({ i \in hist.failed : i < reply.id })

(***************************************************************************)
(* Every transact ends, whatever the stub does.                            *)
(***************************************************************************)
TransactEnds == (~Idle) ~> Idle
============================================================================
