--------------------------- MODULE GdbClientProofs ---------------------------
(***************************************************************************)
(* Theorems about the gdb-remote client, for any number of requests and    *)
(* attempts, any console output, and a stream cut into pieces anywhere.    *)
(***************************************************************************)
EXTENDS GdbClient, FiniteSetTheorems, SequenceTheorems, NaturalsInduction,
        WellFoundedInduction, TLAPS

\* The client's requests, as records.
Asked == [id : Nat, op : Request, output : Nat]
Token == [t : {"ack"}]
           \cup [t : {"head"}, p : [id : Nat, body : Body]]
           \cup [t : {"tail"}, good : BOOLEAN]
History == [reqs : Nat, failed : SUBSET Nat, sent : SUBSET Nat, taken : SUBSET Nat,
            intact : BOOLEAN]

TypeOK ==
  /\ conn \in BOOLEAN
  /\ buf \in Seq(Token) /\ net \in Seq(Token)
  /\ call = NoCall \/ call \in [op : Request, id : Nat, attempts : Nat]
  /\ todo \in Seq(Asked)
  /\ hist \in History

\* Everything received or under way, in order.
stream == buf \o net

\* The stream's i-th token is the head of an answer.
IsAnswer(i) == stream[i].t = "head" /\ stream[i].p.body # "O"

\* Requests whose transact has ended; answers returned; answers sent.
Done == IF Idle THEN hist.reqs ELSE hist.reqs - 1
Taken == Done - Cardinality(hist.failed)
Answered == hist.reqs - Len(todo)

\* Nothing was sent yet.
Fresh ==
  /\ ~conn /\ Idle /\ ~Accepted
  /\ buf = << >> /\ net = << >> /\ todo = << >>
  /\ hist.failed = {} /\ hist.taken = {} /\ hist.sent = {} /\ hist.intact

\* One request at a time, numbered as it is sent, and asked of the stub in order.
Numbered ==
  /\ ~Idle => conn /\ hist.reqs # 0 /\ call.id = hist.reqs
  /\ ~conn => net = << >> /\ todo = << >>
  /\ Answered \in Nat
  /\ \A i \in 1 .. Len(todo) : todo[i].id = Answered + i
  /\ hist.failed \subseteq 1 .. Done /\ IsFiniteSet(hist.failed)
  /\ Taken \in Nat
  /\ hist.reqs = 0 => Fresh

\* The stream is whole frames and acks.
Framed ==
  \A i \in 1 .. Len(stream) :
    /\ stream[i].t = "head" => i + 1 \in 1 .. Len(stream) /\ stream[i + 1].t = "tail"
    /\ stream[i].t = "tail" => stream[i].good /\ i # 1 /\ stream[i - 1].t = "head"

\* Its answers are those sent and not returned, in the order they were asked for.
InOrder ==
  /\ \A i \in 1 .. Len(stream) : IsAnswer(i) => stream[i].p.id \in Taken + 1 .. Answered
  /\ \A n \in Taken + 1 .. Answered :
       \E i \in 1 .. Len(stream) : IsAnswer(i) /\ stream[i].p.id = n
  /\ \A i, j \in 1 .. Len(stream) :
       (i < j /\ IsAnswer(i) /\ IsAnswer(j)) => stream[i].p.id < stream[j].p.id

StreamInv ==
  hist.intact =>
    /\ hist.taken = 1 .. Taken
    /\ conn => /\ Taken <= Answered
               /\ hist.sent = 1 .. Answered
               /\ Framed /\ InOrder
    /\ ~conn => \A i \in 1 .. Len(stream) : IsAnswer(i) => stream[i].p.id > Taken

\* The last reply's request is over; console output it took for an answer counts
\* as a failure of its own.
ReplyInv ==
  Accepted =>
    /\ reply.id \in 1 .. Done /\ reply.from.id \in Nat
    /\ reply.from.body = "O" => reply.id \in hist.failed
    /\ LagIsExact

IInv == TypeOK /\ Numbered /\ StreamInv /\ ReplyInv

-----------------------------------------------------------------------------
(* The decoder                                                               *)

\* The least-number principle, from the library's well-founded minimum.
LEMMA LeastNatural ==
  ASSUME NEW S \in SUBSET Nat, S # {}
  PROVE  \E m \in S : \A k \in S : m <= k
  <1>1. PICK R : IsWellFoundedOn(R, Nat) /\ \A x, y \in Nat : y < x => <<y, x>> \in R
    <2>1. \A x, y \in Nat : y < x => <<y, x>> \in OpToRel(<, Nat)
      BY DEF OpToRel
    <2> QED
      BY <2>1, NatLessThanWellFounded
  <1>2. PICK m \in S : \A k \in S : ~(<<k, m>> \in R)
    BY <1>1, WFMin
  <1>3. \A k \in S : ~(k < m)
    BY <1>1, <1>2
  <1> QED
    BY <1>3

\* A buffer with a '$' in it has a first one.
LEMMA FirstHeadExists ==
  ASSUME NEW b \in Seq(Token), NEW i \in 1 .. Len(b), b[i].t = "head"
  PROVE  FirstHead(b) # {}
  <1> DEFINE S == { j \in 1 .. Len(b) : b[j].t = "head" }
  <1>1. PICK m \in S : \A j \in S : m <= j
    <2>1. S \in SUBSET Nat /\ S # {}
      OBVIOUS
    <2> HIDE DEF S
    <2> QED
      BY <2>1, LeastNatural
  <1> QED
    BY <1>1 DEF FirstHead

\* next_payload leaves a suffix of its buffer: the one behind the packet, or one
\* that starts no later than the first '$'.
LEMMA RestIsSuffix ==
  ASSUME NEW b \in Seq(Token)
  PROVE  \E k \in 1 .. Len(b) + 1 :
           /\ Rest(b) = SubSeq(b, k, Len(b))
           /\ Complete(b) => k = TailAt(b) + 1
           /\ ~Complete(b) => \A j \in 1 .. k - 1 : b[j].t # "head"
  <1>1. CASE Complete(b)
    <2>1. TailAt(b) \in FirstTail(b)
      BY <1>1 DEF Complete, TailAt
    <2>2. TailAt(b) \in 1 .. Len(b)
      BY <2>1 DEF FirstTail
    <2> DEFINE k == TailAt(b) + 1
    <2>3. k \in 1 .. Len(b) + 1 /\ Rest(b) = SubSeq(b, k, Len(b)) /\ k = TailAt(b) + 1
      BY <1>1, <2>2 DEF Rest
    <2> HIDE DEF k
    <2> QED
      BY <1>1, <2>3
  <1>2. CASE ~Complete(b) /\ FirstHead(b) = {}
    <2>1. \A j \in 1 .. Len(b) : b[j].t # "head"
      BY <1>2, FirstHeadExists
    <2>2. Rest(b) = << >> /\ SubSeq(b, Len(b) + 1, Len(b)) = << >>
      BY <1>2 DEF Rest
    <2> QED
      BY <1>2, <2>1, <2>2
  <1>3. CASE ~Complete(b) /\ FirstHead(b) # {}
    <2> DEFINE notAck == { i \in DOMAIN b : b[i].t # "ack" }
               k == CHOOSE i \in notAck : \A j \in notAck : i <= j
    <2>1. notAck \in SUBSET Nat /\ notAck # {}
      BY <1>3 DEF FirstHead
    <2>2. k \in notAck /\ \A j \in notAck : k <= j
      <3> HIDE DEF notAck
      <3> QED
        BY <2>1, LeastNatural
    <2>3. Rest(b) = SubSeq(b, k, Len(b))
      BY <1>3 DEF Rest
    <2> HIDE DEF k
    <2>4. \A j \in 1 .. k - 1 : b[j].t # "head"
      BY <2>2
    <2>5. k \in 1 .. Len(b) + 1
      BY <2>2
    <2> HIDE DEF notAck
    <2> QED
      BY <1>3, <2>3, <2>4, <2>5
  <1> QED
    BY <1>1, <1>2, <1>3

\* Over a stream of whole frames a complete packet is one frame, as it was sent.
LEMMA FramesAreGood ==
  ASSUME buf \in Seq(Token), net \in Seq(Token), Framed, Complete(buf)
  PROVE  /\ TailAt(buf) \in 2 .. Len(buf)
         /\ TailAt(buf) - 1 \in FirstHead(buf)
         /\ Good(buf)
  <1> DEFINE k == TailAt(buf)
  <1>1. k \in FirstTail(buf)
    BY DEF Complete, TailAt
  <1>2. PICK h \in FirstHead(buf) : h < k /\ \A j \in h .. k - 1 : buf[j].t # "tail"
    BY <1>1 DEF FirstTail
  <1>3. k \in 1 .. Len(buf) /\ h \in 1 .. Len(buf) /\ buf[k].t = "tail" /\ buf[h].t = "head"
    BY <1>1 DEF FirstTail, FirstHead
  <1> HIDE DEF k
  <1>4. \A i \in 1 .. Len(buf) : i \in 1 .. Len(stream) /\ stream[i] = buf[i]
    BY DEF stream
  <1>5. buf[h + 1].t = "tail" /\ buf[k].good
    <2>1. h \in 1 .. Len(stream) /\ stream[h].t = "head" /\ h + 1 \in 1 .. Len(buf)
      BY <1>2, <1>3, <1>4
    <2>2. stream[h + 1].t = "tail"
      BY <2>1 DEF Framed
    <2>3. stream[k].good
      BY <1>3, <1>4 DEF Framed
    <2> QED
      BY <1>3, <1>4, <2>1, <2>2, <2>3
  <1>6. h = k - 1
    BY <1>2, <1>3, <1>5
  <1> QED
    BY <1>2, <1>3, <1>5, <1>6 DEF Good, k

-----------------------------------------------------------------------------
(* The stream                                                                *)

\* The stream loses its first k - 1 tokens.
Dropped(k) ==
  /\ k \in 1 .. Len(stream) + 1
  /\ Len(stream') = Len(stream) - (k - 1)
  /\ \A i \in 1 .. Len(stream') : stream'[i] = stream[i + (k - 1)]

\* A sequence whose front is cut, before another one.
LEMMA CutFront ==
  ASSUME NEW S, NEW b \in Seq(S), NEW w \in Seq(S), NEW k \in 1 .. Len(b) + 1,
         NEW u, u = SubSeq(b, k, Len(b)) \o w, NEW s, s = b \o w
  PROVE  /\ Len(u) = Len(s) - (k - 1)
         /\ \A i \in 1 .. Len(u) : u[i] = s[i + (k - 1)]
         /\ k \in 1 .. Len(s) + 1
  <1> DEFINE c == SubSeq(b, k, Len(b))
  <1>1. /\ c \in Seq(S) /\ Len(c) = Len(b) - (k - 1)
        /\ \A i \in 1 .. Len(c) : c[i] = b[i + (k - 1)]
    <2>1. \A i \in k .. Len(b) : b[i] \in S
      BY ElementOfSeq
    <2>2. /\ c \in Seq(S) /\ Len(c) = (IF k <= Len(b) THEN Len(b) - k + 1 ELSE 0)
          /\ \A i \in 1 .. Len(b) - k + 1 : c[i] = b[k + i - 1]
      BY <2>1, SubSeqProperties
    <2>3. Len(c) = Len(b) - (k - 1)
      BY <2>2
    <2>4. ASSUME NEW i \in 1 .. Len(c) PROVE c[i] = b[i + (k - 1)]
      <3>1. i \in 1 .. Len(b) - k + 1 /\ k + i - 1 = i + (k - 1)
        BY <2>3
      <3> QED
        BY <2>2, <3>1
    <2> QED
      BY <2>2, <2>3, <2>4
  <1>2. u = c \o w
    OBVIOUS
  <1> HIDE DEF c
  <1>3. /\ Len(u) = Len(c) + Len(w)
        /\ \A i \in 1 .. Len(c) + Len(w) : u[i] = IF i <= Len(c) THEN c[i] ELSE w[i - Len(c)]
    <2>1. c \o w \in Seq(S) /\ Len(c \o w) = Len(c) + Len(w)
          /\ \A i \in 1 .. Len(c) + Len(w) :
               (c \o w)[i] = IF i <= Len(c) THEN c[i] ELSE w[i - Len(c)]
      BY <1>1, ConcatProperties, Zenon
    <2> QED
      BY <1>2, <2>1
  <1>4. /\ Len(s) = Len(b) + Len(w)
        /\ \A i \in 1 .. Len(b) + Len(w) : s[i] = IF i <= Len(b) THEN b[i] ELSE w[i - Len(b)]
    BY ConcatProperties
  <1>5. Len(u) = Len(s) - (k - 1)
    BY <1>1, <1>3, <1>4
  <1>6. ASSUME NEW i \in 1 .. Len(u) PROVE u[i] = s[i + (k - 1)]
    <2>1. i \in 1 .. Len(c) + Len(w) /\ i + (k - 1) \in 1 .. Len(b) + Len(w)
      BY <1>1, <1>3
    <2>2. CASE i <= Len(c)
      <3>1. i + (k - 1) <= Len(b) /\ i \in 1 .. Len(c)
        BY <1>1, <2>2
      <3>2. u[i] = c[i] /\ s[i + (k - 1)] = b[i + (k - 1)]
        BY <1>3, <1>4, <2>1, <2>2, <3>1
      <3> QED
        BY <1>1, <3>1, <3>2
    <2>3. CASE ~(i <= Len(c))
      <3>1. ~(i + (k - 1) <= Len(b)) /\ i - Len(c) = (i + (k - 1)) - Len(b)
        BY <1>1, <2>3
      <3>2. u[i] = w[i - Len(c)] /\ s[i + (k - 1)] = w[(i + (k - 1)) - Len(b)]
        BY <1>3, <1>4, <2>1, <2>3, <3>1
      <3> QED
        BY <3>1, <3>2
    <2> QED
      BY <2>2, <2>3
  <1> QED
    BY <1>4, <1>5, <1>6

\* The same when the other sequence is cut in two and put together again.
LEMMA CutAndJoin ==
  ASSUME NEW S, NEW b \in Seq(S), NEW w \in Seq(S), NEW k \in 1 .. Len(b) + 1,
         NEW n \in 1 .. Len(w)
  PROVE  (SubSeq(b, k, Len(b)) \o SubSeq(w, 1, n)) \o SubSeq(w, n + 1, Len(w))
           = SubSeq(b, k, Len(b)) \o w
  <1>1. /\ SubSeq(b, k, Len(b)) \in Seq(S) /\ SubSeq(w, 1, n) \in Seq(S)
        /\ SubSeq(w, n + 1, Len(w)) \in Seq(S)
    BY ElementOfSeq, SubSeqProperties
  <1>2. SubSeq(w, 1, n) \o SubSeq(w, n + 1, Len(w)) = w
    <2>1. SubSeq(w, 1, n) \o SubSeq(w, n + 1, Len(w)) = SubSeq(w, 1, Len(w))
      BY ConcatAdjacentSubSeq
    <2> QED
      BY <2>1, SubSeqFull
  <1>3. PICK c \in Seq(S), x \in Seq(S), y \in Seq(S) :
          /\ c = SubSeq(b, k, Len(b)) /\ x = SubSeq(w, 1, n)
          /\ y = SubSeq(w, n + 1, Len(w))
    BY <1>1
  <1>4. (c \o x) \o y = c \o (x \o y)
    BY SMTT(60)
  <1> QED
    BY <1>2, <1>3, <1>4

\* The same of the stream.
LEMMA CutStream ==
  ASSUME buf \in Seq(Token), net \in Seq(Token), NEW k \in 1 .. Len(buf) + 1,
         stream' = SubSeq(buf, k, Len(buf)) \o net
  PROVE  Dropped(k)
  <1>1. stream = buf \o net
    BY DEF stream
  <1>2. PICK s, u : s = stream /\ u = stream'
    OBVIOUS
  <1>3. PICK b \in Seq(Token), w \in Seq(Token) : b = buf /\ w = net
    OBVIOUS
  <1>4. k \in 1 .. Len(b) + 1 /\ u = SubSeq(b, k, Len(b)) \o w /\ s = b \o w
    BY <1>1, <1>2, <1>3
  <1>5. /\ Len(u) = Len(s) - (k - 1)
        /\ \A i \in 1 .. Len(u) : u[i] = s[i + (k - 1)]
        /\ k \in 1 .. Len(s) + 1
    BY <1>4, CutFront, SMTT(60)
  <1> QED
    BY <1>2, <1>5 DEF Dropped

\* The decoder drops the front of its buffer: the stream loses it.
LEMMA RestDrops ==
  ASSUME buf \in Seq(Token), net \in Seq(Token), NEW k \in 1 .. Len(buf) + 1,
         buf' = SubSeq(buf, k, Len(buf)), UNCHANGED net
  PROVE  buf' \in Seq(Token) /\ Dropped(k)
  <1>1. buf' \in Seq(Token)
    BY ElementOfSeq, SubSeqProperties
  <1>2. stream' = SubSeq(buf, k, Len(buf)) \o net
    BY DEF stream
  <1> QED
    BY <1>1, <1>2, CutStream

\* A recv after that moves tokens into the decoder: the stream is the same.
LEMMA ReceiveDrops ==
  ASSUME buf \in Seq(Token), net \in Seq(Token), NEW k \in 1 .. Len(buf) + 1,
         NEW n \in 1 .. Len(net),
         buf' = SubSeq(buf, k, Len(buf)) \o SubSeq(net, 1, n),
         net' = SubSeq(net, n + 1, Len(net))
  PROVE  buf' \in Seq(Token) /\ net' \in Seq(Token) /\ Dropped(k)
  <1>1. buf' \in Seq(Token) /\ net' \in Seq(Token)
    BY ElementOfSeq, SubSeqProperties
  <1>2. stream' = (SubSeq(buf, k, Len(buf)) \o SubSeq(net, 1, n)) \o SubSeq(net, n + 1, Len(net))
    BY DEF stream
  <1>3. stream' = SubSeq(buf, k, Len(buf)) \o net
    BY <1>2, CutAndJoin
  <1> QED
    BY <1>1, <1>3, CutStream

\* What the stub sends goes behind the rest.
LEMMA SendAppends ==
  ASSUME buf \in Seq(Token), net \in Seq(Token), NEW f \in Seq(Token),
         net' = net \o f, UNCHANGED buf
  PROVE  /\ net' \in Seq(Token)
         /\ Len(stream') = Len(stream) + Len(f)
         /\ \A i \in 1 .. Len(stream) : stream'[i] = stream[i]
         /\ \A i \in 1 .. Len(f) : stream'[Len(stream) + i] = f[i]
  <1>1. net' \in Seq(Token) /\ stream \in Seq(Token)
    BY ConcatProperties DEF stream
  <1>2. stream' = stream \o f
    <2>1. stream' = buf \o (net \o f)
      BY DEF stream
    <2>2. buf \o (net \o f) = (buf \o net) \o f
      BY ConcatAssociative, SMTT(60)
    <2> QED
      BY <2>1, <2>2 DEF stream
  <1>3. /\ Len(stream') = Len(stream) + Len(f)
        /\ \A i \in 1 .. Len(stream) + Len(f) :
             stream'[i] = IF i <= Len(stream) THEN stream[i] ELSE f[i - Len(stream)]
    BY <1>1, <1>2, ConcatProperties
  <1>4. ASSUME NEW i \in 1 .. Len(stream) PROVE stream'[i] = stream[i]
    <2>1. i \in 1 .. Len(stream) + Len(f) /\ i <= Len(stream)
      BY <1>1
    <2> QED
      BY <1>3, <2>1
  <1>5. ASSUME NEW i \in 1 .. Len(f) PROVE stream'[Len(stream) + i] = f[i]
    <2>1. /\ Len(stream) + i \in 1 .. Len(stream) + Len(f) /\ ~(Len(stream) + i <= Len(stream))
          /\ (Len(stream) + i) - Len(stream) = i
      BY <1>1
    <2> QED
      BY <1>3, <2>1
  <1> QED
    BY <1>1, <1>3, <1>4, <1>5

\* Dropping tokens up to a frame's end leaves whole frames.
LEMMA DropKeepsFrames ==
  ASSUME Framed, NEW k \in Nat, Dropped(k), Len(stream) \in Nat,
         k = 1 \/ stream[k - 1].t # "head"
  PROVE  Framed'
  <1>1. ASSUME NEW i \in 1 .. Len(stream')
        PROVE  /\ stream'[i].t = "head" => /\ i + 1 \in 1 .. Len(stream')
                                           /\ stream'[i + 1].t = "tail"
               /\ stream'[i].t = "tail" => /\ stream'[i].good /\ i # 1
                                           /\ stream'[i - 1].t = "head"
    <2>1. /\ i + (k - 1) \in 1 .. Len(stream) /\ stream'[i] = stream[i + (k - 1)]
          /\ Len(stream') = Len(stream) - (k - 1)
      BY DEF Dropped
    <2>2. ASSUME stream'[i].t = "head"
          PROVE  i + 1 \in 1 .. Len(stream') /\ stream'[i + 1].t = "tail"
      <3>1. (i + (k - 1)) + 1 \in 1 .. Len(stream) /\ stream[(i + (k - 1)) + 1].t = "tail"
        BY <2>1, <2>2 DEF Framed
      <3>2. i + 1 \in 1 .. Len(stream') /\ (i + (k - 1)) + 1 = (i + 1) + (k - 1)
        BY <2>1, <3>1
      <3>3. stream'[i + 1] = stream[(i + 1) + (k - 1)]
        BY <3>2 DEF Dropped
      <3> QED
        BY <3>1, <3>2, <3>3
    <2>3. ASSUME stream'[i].t = "tail"
          PROVE  stream'[i].good /\ i # 1 /\ stream'[i - 1].t = "head"
      <3>1. /\ stream[i + (k - 1)].good /\ i + (k - 1) # 1
            /\ stream[(i + (k - 1)) - 1].t = "head"
        BY <2>1, <2>3 DEF Framed
      <3>2. i # 1
        BY <3>1
      <3>3. i - 1 \in 1 .. Len(stream') /\ (i + (k - 1)) - 1 = (i - 1) + (k - 1)
        BY <2>1, <3>2
      <3>4. stream'[i - 1] = stream[(i - 1) + (k - 1)]
        BY <3>3 DEF Dropped
      <3> QED
        BY <2>1, <3>1, <3>2, <3>3, <3>4
    <2> QED
      BY <2>2, <2>3
  <1> QED
    BY <1>1 DEF Framed

\* Dropping no answer, or the first one as it is returned, leaves the rest in
\* order.
LEMMA DropKeepsOrder ==
  ASSUME InOrder, NEW k \in Nat, Dropped(k), Len(stream) \in Nat,
         Taken \in Nat, Answered \in Nat, UNCHANGED Answered,
         \/ Taken' = Taken /\ \A i \in 1 .. k - 1 : ~IsAnswer(i)
         \/ /\ Taken' = Taken + 1
            /\ \E h \in 1 .. k - 1 : IsAnswer(h) /\ \A i \in 1 .. k - 1 : IsAnswer(i) => i = h
  PROVE  /\ InOrder'
         /\ \A h \in 1 .. k - 1 : IsAnswer(h) => stream[h].p.id = Taken + 1
  <1>1. \A i \in 1 .. Len(stream') :
          /\ i + (k - 1) \in 1 .. Len(stream) /\ i + (k - 1) > k - 1
          /\ stream'[i] = stream[i + (k - 1)]
          /\ IsAnswer(i)' <=> IsAnswer(i + (k - 1))
    BY DEF Dropped, IsAnswer
  <1>2. \A i \in 1 .. Len(stream) :
          i > k - 1 => /\ i - (k - 1) \in 1 .. Len(stream')
                       /\ stream'[i - (k - 1)] = stream[i]
                       /\ IsAnswer(i) => IsAnswer(i - (k - 1))'
    <2>1. ASSUME NEW i \in 1 .. Len(stream), i > k - 1
          PROVE  i - (k - 1) \in 1 .. Len(stream') /\ i = (i - (k - 1)) + (k - 1)
      BY <2>1 DEF Dropped
    <2> QED
      BY <1>1, <2>1
  <1>3. \A i \in 1 .. k - 1 : i \in 1 .. Len(stream)
    BY DEF Dropped
  \* An answer that was dropped is the one due next.
  <1>4. ASSUME NEW h \in 1 .. k - 1, IsAnswer(h)
        PROVE  stream[h].p.id = Taken + 1 /\ Taken' = Taken + 1
    <2>1. h \in 1 .. Len(stream) /\ stream[h].p.id \in Taken + 1 .. Answered
      BY <1>3, <1>4 DEF InOrder
    <2>2. Taken' = Taken + 1 /\ \A i \in 1 .. k - 1 : IsAnswer(i) => i = h
      BY <1>4
    <2>3. Taken + 1 \in Taken + 1 .. Answered
      BY <2>1
    <2>4. PICK i \in 1 .. Len(stream) : IsAnswer(i) /\ stream[i].p.id = Taken + 1
      BY <2>3 DEF InOrder
    <2>5. CASE i <= k - 1
      BY <2>2, <2>4, <2>5
    <2>6. CASE i > k - 1
      <3>1. h < i
        BY <2>6
      <3>2. stream[h].p.id < stream[i].p.id
        BY <1>4, <2>1, <2>4, <3>1 DEF InOrder
      <3> QED
        BY <2>1, <2>4, <3>2
    <2> QED
      BY <2>2, <2>5, <2>6
  <1>5. ASSUME NEW i \in 1 .. Len(stream), i > k - 1, IsAnswer(i)
        PROVE  stream[i].p.id \in Taken' + 1 .. Answered
    <2>1. stream[i].p.id \in Taken + 1 .. Answered
      BY <1>5 DEF InOrder
    <2>2. CASE Taken' = Taken
      BY <2>1, <2>2
    <2>3. CASE Taken' = Taken + 1
      <3>1. PICK h \in 1 .. k - 1 : IsAnswer(h)
        BY <2>3
      <3>2. stream[h].p.id < stream[i].p.id
        BY <1>3, <1>5, <3>1 DEF InOrder
      <3>3. stream[h].p.id = Taken + 1
        BY <1>4, <3>1
      <3> QED
        BY <2>1, <2>3, <3>2, <3>3
    <2> QED
      BY <2>2, <2>3
  <1>6. ASSUME NEW n \in Taken' + 1 .. Answered
        PROVE  \E i \in 1 .. Len(stream') : IsAnswer(i)' /\ stream'[i].p.id = n
    <2>1. n \in Taken + 1 .. Answered
      OBVIOUS
    <2>2. PICK i \in 1 .. Len(stream) : IsAnswer(i) /\ stream[i].p.id = n
      BY <2>1 DEF InOrder
    <2>3. i > k - 1
      <3>1. SUFFICES ASSUME i \in 1 .. k - 1 PROVE FALSE
        OBVIOUS
      <3>2. n = Taken + 1 /\ Taken' = Taken + 1
        BY <1>4, <2>2, <3>1
      <3> QED
        BY <3>2
    <2> QED
      BY <1>2, <2>2, <2>3
  <1>7. \A i \in 1 .. Len(stream') : IsAnswer(i)' => stream'[i].p.id \in Taken' + 1 .. Answered
    BY <1>1, <1>5
  <1>8. ASSUME NEW i \in 1 .. Len(stream'), NEW j \in 1 .. Len(stream'), i < j,
               IsAnswer(i)', IsAnswer(j)'
        PROVE  stream'[i].p.id < stream'[j].p.id
    <2>1. i + (k - 1) < j + (k - 1)
      BY <1>8
    <2> QED
      BY <1>1, <1>8, <2>1 DEF InOrder
  <1>9. InOrder'
    BY <1>6, <1>7, <1>8 DEF InOrder
  <1> QED
    BY <1>4, <1>9

-----------------------------------------------------------------------------
(* The end of a transact                                                     *)

\* The last reply is of a request before the one in progress: what that one comes
\* to does not change it.
LEMMA ReplyKept ==
  ASSUME TypeOK, Numbered, ReplyInv, UNCHANGED reply, Done <= Done', Done' \in Nat,
         hist'.intact => hist.intact,
         hist'.failed = hist.failed \/ (~Idle /\ hist'.failed = hist.failed \cup {call.id})
  PROVE  ReplyInv'
  <1> SUFFICES ASSUME Accepted' PROVE ReplyInv'
    BY DEF ReplyInv
  <1>1. Accepted /\ reply.id \in 1 .. Done /\ Done \in Nat
    BY DEF Accepted, ReplyInv, TypeOK, History, Done, Numbered
  <1>2. { i \in hist'.failed : i < reply.id } = { i \in hist.failed : i < reply.id }
    <2>1. CASE hist'.failed = hist.failed
      BY <2>1
    <2>2. CASE ~Idle /\ hist'.failed = hist.failed \cup {call.id}
      <3>1. ~(call.id < reply.id)
        BY <1>1, <2>2 DEF Numbered, Done, TypeOK, History
      <3> QED
        BY <2>2, <3>1
    <2> QED
      BY <2>1, <2>2
  <1>3. reply.id \in 1 .. Done' /\ hist.failed \subseteq hist'.failed
    BY <1>1
  <1> QED
    BY <1>1, <1>2, <1>3 DEF ReplyInv, LagIsExact

\* How a transact counts: as an answer returned, or as a failure.
LEMMA Counts ==
  ASSUME TypeOK, Numbered, ~Idle, Done' = hist.reqs
  PROVE  /\ hist.failed \subseteq 1 .. call.id - 1 /\ call.id = hist.reqs
         /\ Taken = call.id - 1 - Cardinality(hist.failed)
         /\ hist'.failed = hist.failed =>
              /\ hist'.failed \subseteq 1 .. Done' /\ IsFiniteSet(hist'.failed)
              /\ Taken' = Taken + 1
         /\ hist'.failed = hist.failed \cup {call.id} =>
              /\ hist'.failed \subseteq 1 .. Done' /\ IsFiniteSet(hist'.failed)
              /\ Taken' = Taken
  <1>1. /\ hist.reqs \in Nat \ {0} /\ call.id = hist.reqs /\ Done = hist.reqs - 1
        /\ hist.failed \subseteq 1 .. hist.reqs - 1 /\ IsFiniteSet(hist.failed)
    BY DEF TypeOK, History, Numbered, Done
  <1>2. Cardinality(hist.failed) \in Nat
    BY <1>1, FS_CardinalityType
  <1>3. call.id \notin hist.failed
    BY <1>1
  <1>4. /\ IsFiniteSet(hist.failed \cup {call.id})
        /\ Cardinality(hist.failed \cup {call.id}) = Cardinality(hist.failed) + 1
    BY <1>1, <1>3, FS_AddElement
  <1>5. Taken = call.id - 1 - Cardinality(hist.failed)
    BY <1>1 DEF Taken
  <1>6. Taken' = call.id - Cardinality(hist'.failed)
    BY <1>1 DEF Taken
  <1>7. ASSUME hist'.failed = hist.failed
        PROVE  hist'.failed \subseteq 1 .. Done' /\ IsFiniteSet(hist'.failed) /\ Taken' = Taken + 1
    BY <1>1, <1>2, <1>5, <1>6, <1>7
  <1>8. ASSUME hist'.failed = hist.failed \cup {call.id}
        PROVE  hist'.failed \subseteq 1 .. Done' /\ IsFiniteSet(hist'.failed) /\ Taken' = Taken
    BY <1>1, <1>2, <1>4, <1>5, <1>6, <1>8
  <1> QED
    BY <1>1, <1>5, <1>7, <1>8

\* What follows a transact: nothing, or the halt reason after a handshake.
LEMMA EndsStep ==
  ASSUME TypeOK, Numbered, ~Idle, NEW r, NEW h \in History, Ends(r, h),
         h.reqs = hist.reqs
  PROVE  /\ hist' \in History
         /\ hist'.failed = h.failed /\ hist'.taken = h.taken
         /\ hist'.sent = h.sent /\ hist'.intact = h.intact
         /\ call' = NoCall \/ call' \in [op : Request, id : Nat, attempts : Nat]
         /\ todo' \in Seq(Asked)
         /\ Done' = hist.reqs /\ hist'.reqs # 0
         /\ ~Idle' => call'.id = hist'.reqs
         /\ Answered' = Answered
         /\ \A i \in 1 .. Len(todo') : todo'[i].id = Answered + i
         /\ reply' \in {reply, r}
  <1>1. /\ hist.reqs \in Nat \ {0} /\ todo \in Seq(Asked) /\ Answered \in Nat
        /\ \A i \in 1 .. Len(todo) : todo[i].id = Answered + i
        /\ Answered = hist.reqs - Len(todo) /\ Len(todo) \in Nat
    BY DEF TypeOK, History, Numbered, Answered
  <1>2. CASE call.op = "qSupported"
    <2>1. /\ call' = [op |-> "?", id |-> h.reqs + 1, attempts |-> 0]
          /\ todo' = Append(todo, [id |-> h.reqs + 1, op |-> "?", output |-> 0])
          /\ hist' = [h EXCEPT !.reqs = @ + 1] /\ UNCHANGED reply
      BY <1>2 DEF Ends
    <2>2. /\ hist' \in History /\ hist'.reqs = hist.reqs + 1
          /\ hist'.failed = h.failed /\ hist'.taken = h.taken
          /\ hist'.sent = h.sent /\ hist'.intact = h.intact
      BY <2>1 DEF History
    <2>3. call' \in [op : Request, id : Nat, attempts : Nat] /\ call'.id = hist.reqs + 1
      BY <1>1, <2>1 DEF Request
    <2>4. call' # NoCall
      BY <2>1 DEF NoCall
    <2>5. [id |-> h.reqs + 1, op |-> "?", output |-> 0] \in Asked
      BY <1>1 DEF Asked, Request
    <2>6. /\ todo' \in Seq(Asked) /\ Len(todo') = Len(todo) + 1
          /\ \A i \in 1 .. Len(todo) : todo'[i] = todo[i]
          /\ todo'[Len(todo) + 1].id = hist.reqs + 1
      BY <1>1, <2>1, <2>5
    <2>7. Answered' = Answered
      BY <1>1, <2>2, <2>6 DEF Answered
    <2>8. ASSUME NEW i \in 1 .. Len(todo') PROVE todo'[i].id = Answered + i
      <3>1. CASE i \in 1 .. Len(todo)
        BY <1>1, <2>6, <3>1
      <3>2. CASE i = Len(todo) + 1
        BY <1>1, <2>6, <3>2
      <3> QED
        BY <1>1, <2>6, <3>1, <3>2
    <2>9. Done' = hist.reqs
      BY <1>1, <2>2, <2>4 DEF Done, Idle
    <2> QED
      BY <1>1, <2>1, <2>2, <2>3, <2>6, <2>7, <2>8, <2>9
  <1>3. CASE call.op # "qSupported"
    <2>1. call' = NoCall /\ reply' = r /\ hist' = h /\ UNCHANGED todo
      BY <1>3 DEF Ends
    <2>2. Done' = hist.reqs /\ Answered' = Answered
      BY <1>1, <2>1 DEF Done, Idle, Answered
    <2> QED
      BY <1>1, <2>1, <2>2 DEF Idle
  <1> QED
    BY <1>2, <1>3

\* What a failed transact leaves, whatever it did to the buffer.
LEMMA FailStep ==
  ASSUME TypeOK, Numbered, StreamInv, ReplyInv, ~Idle,
         Ends([res |-> "err"], Failed), UNCHANGED conn,
         buf' \in Seq(Token), net' \in Seq(Token),
         NEW k \in Nat, Dropped(k),
         hist.intact => /\ \A i \in 1 .. k - 1 : stream[i].t # "head"
  PROVE  TypeOK' /\ Numbered' /\ StreamInv' /\ ReplyInv'
  <1>t. /\ hist \in History /\ hist.reqs \in Nat \ {0} /\ call.id = hist.reqs /\ conn
        /\ Answered \in Nat /\ Taken \in Nat /\ Len(stream) \in Nat
    BY DEF TypeOK, History, Numbered, stream
  <1> DEFINE h == [hist EXCEPT !.failed = @ \cup {call.id}]
  <1>1. /\ h \in History /\ h.reqs = hist.reqs /\ h.intact = hist.intact
        /\ h.sent = hist.sent /\ h.taken = hist.taken
        /\ h.failed = hist.failed \cup {call.id}
    BY <1>t DEF History
  <1>2. Ends([res |-> "err"], h)
    BY DEF Failed
  <1> HIDE DEF h
  <1>3. /\ hist' \in History
        /\ hist'.failed = h.failed /\ hist'.taken = h.taken
        /\ hist'.sent = h.sent /\ hist'.intact = h.intact
        /\ call' = NoCall \/ call' \in [op : Request, id : Nat, attempts : Nat]
        /\ todo' \in Seq(Asked)
        /\ Done' = hist.reqs /\ hist'.reqs # 0
        /\ ~Idle' => call'.id = hist'.reqs
        /\ Answered' = Answered
        /\ \A i \in 1 .. Len(todo') : todo'[i].id = Answered + i
        /\ reply' \in {reply, [res |-> "err"]}
    BY <1>1, <1>2, EndsStep
  <1>4. /\ hist'.failed \subseteq 1 .. Done' /\ IsFiniteSet(hist'.failed)
        /\ Taken' = Taken
    BY <1>1, <1>3, Counts
  <1>5. TypeOK'
    BY <1>3 DEF TypeOK
  <1>6. Numbered'
    BY <1>t, <1>3, <1>4 DEF Numbered
  <1>7. StreamInv'
    <2>1. SUFFICES ASSUME hist.intact
                   PROVE  Framed' /\ InOrder' /\ hist'.taken = 1 .. Taken' /\ Taken' <= Answered'
                          /\ hist'.sent = 1 .. Answered'
      BY <1>t, <1>1, <1>3 DEF StreamInv
    <2>2. Framed /\ InOrder /\ hist.taken = 1 .. Taken /\ Taken <= Answered /\ hist.sent = 1 .. Answered
      BY <1>t, <2>1 DEF StreamInv
    <2>3. k = 1 \/ stream[k - 1].t # "head"
      BY <2>1 DEF Dropped
    <2>4. \A i \in 1 .. k - 1 : ~IsAnswer(i)
      BY <2>1 DEF IsAnswer
    <2>5. Framed'
      BY <1>t, <2>2, <2>3, DropKeepsFrames
    <2>6. InOrder'
      BY <1>t, <1>3, <1>4, <2>2, <2>4, DropKeepsOrder
    <2> QED
      BY <1>1, <1>3, <1>4, <2>2, <2>5, <2>6
  <1>8. ReplyInv'
    <2>1. CASE reply' = reply
      <3>1. Done <= Done' /\ Done' \in Nat
        BY <1>t, <1>3 DEF Done
      <3> QED
        BY <1>1, <1>3, <2>1, <3>1, ReplyKept
    <2>2. CASE reply' = [res |-> "err"]
      BY <2>2 DEF ReplyInv, Accepted
    <2> QED
      BY <1>3, <2>1, <2>2
  <1> QED
    BY <1>5, <1>6, <1>7, <1>8

\* A buffer that yields no payload has no whole packet to drop.
LEMMA NothingYielded ==
  ASSUME TypeOK, Numbered, StreamInv, ~Idle, ~Yields(buf), hist.intact
  PROVE  ~Complete(buf)
  BY FramesAreGood DEF TypeOK, Numbered, StreamInv, Yields

\* A transact that gives up.
LEMMA TimesOut ==
  ASSUME IInv, transact_times_out
  PROVE  IInv'
  <1>1. /\ ~Idle /\ ~Yields(buf) /\ buf' = Rest(buf) /\ UNCHANGED <<conn, net>>
        /\ Ends([res |-> "err"], Failed)
    BY DEF transact_times_out
  <1>2. buf \in Seq(Token) /\ net \in Seq(Token)
    BY DEF IInv, TypeOK
  <1>3. PICK k \in 1 .. Len(buf) + 1 :
          /\ Rest(buf) = SubSeq(buf, k, Len(buf))
          /\ ~Complete(buf) => \A j \in 1 .. k - 1 : buf[j].t # "head"
    BY <1>2, RestIsSuffix
  <1>4. buf' \in Seq(Token) /\ Dropped(k)
    BY <1>1, <1>2, <1>3, RestDrops
  <1>5. hist.intact => \A i \in 1 .. k - 1 : stream[i].t # "head"
    BY <1>1, <1>2, <1>3, NothingYielded DEF IInv, stream
  <1> QED
    BY <1>1, <1>2, <1>4, <1>5, FailStep DEF IInv

\* Under a transact that goes on, nothing changes but the place of the tokens.
LEMMA Receives ==
  ASSUME IInv, NEW n \in 1 .. Len(net), transact_receives(n)
  PROVE  IInv'
  <1>1. /\ ~Idle /\ ~Yields(buf) /\ buf' = Rest(buf) \o SubSeq(net, 1, n)
        /\ net' = SubSeq(net, n + 1, Len(net)) /\ UNCHANGED conn
    BY DEF transact_receives
  <1>2. buf \in Seq(Token) /\ net \in Seq(Token)
    BY DEF IInv, TypeOK
  <1>3. PICK k \in 1 .. Len(buf) + 1 :
          /\ Rest(buf) = SubSeq(buf, k, Len(buf))
          /\ ~Complete(buf) => \A j \in 1 .. k - 1 : buf[j].t # "head"
    BY <1>2, RestIsSuffix
  <1>4. buf' \in Seq(Token) /\ net' \in Seq(Token) /\ Dropped(k)
    BY <1>1, <1>2, <1>3, ReceiveDrops
  <1>5. hist.intact => \A i \in 1 .. k - 1 : stream[i].t # "head"
    BY <1>1, <1>2, <1>3, NothingYielded DEF IInv, stream
  <1>6. CASE Ends([res |-> "err"], Failed)
    BY <1>1, <1>4, <1>5, <1>6, FailStep DEF IInv
  <1>7. CASE call' = [call EXCEPT !.attempts = @ + 1] /\ UNCHANGED <<reply, todo, hist>>
    <2>1. call \in [op : Request, id : Nat, attempts : Nat]
      BY <1>1 DEF IInv, TypeOK, Idle
    <2>2. /\ call' \in [op : Request, id : Nat, attempts : Nat]
          /\ call'.id = call.id /\ call'.op = call.op
      BY <1>7, <2>1
    <2>3. ~Idle'
      BY <2>2 DEF Idle, NoCall, Request
    <2>4. Done' = Done /\ Taken' = Taken /\ Answered' = Answered
      BY <1>1, <1>7, <2>3 DEF Done, Taken, Answered
    <2>5. TypeOK' /\ Numbered'
      BY <1>1, <1>4, <1>7, <2>2, <2>3, <2>4 DEF IInv, TypeOK, Numbered
    <2>6. ReplyInv'
      <3>1. Done \in Nat
        BY DEF IInv, TypeOK, History, Numbered, Done
      <3> QED
        BY <1>7, <2>4, <3>1, ReplyKept DEF IInv
    <2>7. StreamInv'
      <3>1. /\ conn /\ Len(stream) \in Nat /\ Taken \in Nat /\ Answered \in Nat
        BY <1>1, <1>2 DEF IInv, Numbered, stream
      <3>2. SUFFICES ASSUME hist.intact PROVE Framed' /\ InOrder'
        BY <1>1, <1>7, <2>4, <3>1 DEF IInv, StreamInv
      <3>3. Framed /\ InOrder
        BY <3>1, <3>2 DEF IInv, StreamInv
      <3>4. k = 1 \/ stream[k - 1].t # "head"
        BY <1>5, <3>2
      <3>5. \A i \in 1 .. k - 1 : ~IsAnswer(i)
        BY <1>5, <3>2 DEF IsAnswer
      <3>6. Framed'
        BY <1>4, <3>1, <3>3, <3>4, DropKeepsFrames
      <3>7. InOrder'
        BY <1>4, <2>4, <3>1, <3>3, <3>5, DropKeepsOrder
      <3> QED
        BY <3>6, <3>7
    <2> QED
      BY <2>5, <2>6, <2>7 DEF IInv
  <1> QED
    BY <1>6, <1>7 DEF transact_receives

\* A transact that returns a payload.
LEMMA Returns ==
  ASSUME IInv, transact_returns
  PROVE  IInv'
  <1> DEFINE p == Yielded(buf)
             k == TailAt(buf) + 1
             head_at == TailAt(buf) - 1
  <1>1. /\ ~Idle /\ Yields(buf) /\ buf' = Rest(buf) /\ UNCHANGED <<conn, net>>
        /\ Ends(Answer(call.op, call.id, p),
                IF p.body = "O" THEN Failed ELSE [hist EXCEPT !.taken = @ \cup {p.id}])
    BY DEF transact_returns
  <1>t. /\ buf \in Seq(Token) /\ net \in Seq(Token) /\ TypeOK /\ Numbered /\ StreamInv /\ ReplyInv
        /\ hist \in History /\ hist.reqs \in Nat \ {0} /\ call.id = hist.reqs /\ conn
        /\ Answered \in Nat /\ Taken \in Nat /\ Len(stream) \in Nat
    BY <1>1 DEF IInv, TypeOK, History, Numbered, stream
  <1>2. /\ head_at \in 1 .. Len(buf) /\ buf[head_at].t = "head"
        /\ \A j \in 1 .. head_at - 1 : buf[j].t # "head"
        /\ TailAt(buf) \in 1 .. Len(buf) /\ buf[TailAt(buf)].t = "tail"
    <2>1. TailAt(buf) \in FirstTail(buf) /\ head_at \in FirstHead(buf)
      BY <1>1 DEF Yields, Good, Complete, TailAt
    <2>2. head_at \in 1 .. Len(buf) /\ TailAt(buf) \in 1 .. Len(buf)
      BY <1>t, <2>1 DEF FirstTail, FirstHead
    <2> QED
      BY <2>1, <2>2 DEF FirstTail, FirstHead
  <1>3. p = buf[head_at].p /\ p \in [id : Nat, body : Body]
    <2>1. buf[head_at] \in Token
      BY <1>t, <1>2
    <2> QED
      BY <1>2, <2>1 DEF Yielded, Token
  <1>k. /\ k \in 1 .. Len(buf) + 1 /\ k - 1 \in 1 .. Len(buf) /\ buf[k - 1].t = "tail"
        /\ k = head_at + 2
    <2>1. TailAt(buf) = k - 1
      BY <1>2
    <2> QED
      BY <1>2, <2>1
  <1>r. Rest(buf) = SubSeq(buf, k, Len(buf))
    BY <1>1 DEF Yields, Rest
  <1> HIDE DEF p, k, head_at
  <1>4. buf' \in Seq(Token) /\ Dropped(k) /\ k \in Nat
    <2>1. k \in 1 .. Len(buf) + 1 /\ k \in Nat
      BY <1>k
    <2>2. buf' = SubSeq(buf, k, Len(buf)) /\ UNCHANGED net
      BY <1>1, <1>r
    <2>3. buf \in Seq(Token) /\ net \in Seq(Token)
      BY <1>t
    <2> QED
      BY <2>1, <2>2, <2>3, RestDrops
  <1>5. /\ stream[k - 1].t = "tail" /\ stream[head_at] = buf[head_at]
        /\ \A i \in 1 .. k - 1 : i # head_at => stream[i].t # "head"
        /\ head_at \in 1 .. k - 1 /\ head_at \in 1 .. Len(stream)
    <2>1. \A i \in 1 .. Len(buf) : stream[i] = buf[i] /\ i \in 1 .. Len(stream)
      BY <1>t DEF stream
    <2>2. \A i \in 1 .. k - 1 : i = k - 1 \/ i = head_at \/ i \in 1 .. head_at - 1
      BY <1>2, <1>k
    <2>3. head_at \in 1 .. k - 1 /\ head_at \in 1 .. Len(stream) /\ stream[k - 1].t = "tail"
      BY <1>2, <1>k, <2>1
    <2>4. ASSUME NEW i \in 1 .. k - 1, i # head_at PROVE stream[i].t # "head"
      <3>1. i \in 1 .. Len(buf)
        BY <1>k
      <3> QED
        BY <1>2, <1>k, <2>1, <2>2, <2>4, <3>1
    <2> QED
      BY <1>2, <2>1, <2>3, <2>4
  <1>6. PICK h \in History :
          /\ Ends(Answer(call.op, call.id, p), h)
          /\ h.reqs = hist.reqs /\ h.intact = hist.intact /\ h.sent = hist.sent
          /\ \/ /\ p.body = "O"
                /\ h.failed = hist.failed \cup {call.id} /\ h.taken = hist.taken
             \/ /\ p.body # "O"
                /\ h.failed = hist.failed /\ h.taken = hist.taken \cup {p.id}
    <2>1. CASE p.body = "O"
      <3>1. Failed \in History /\ Failed.reqs = hist.reqs /\ Failed.intact = hist.intact
            /\ Failed.sent = hist.sent /\ Failed.taken = hist.taken
            /\ Failed.failed = hist.failed \cup {call.id}
        BY <1>t DEF Failed, History
      <3> QED
        BY <1>1, <2>1, <3>1
    <2>2. CASE p.body # "O"
      <3> DEFINE g == [hist EXCEPT !.taken = @ \cup {p.id}]
      <3>1. g \in History /\ g.reqs = hist.reqs /\ g.intact = hist.intact
            /\ g.sent = hist.sent /\ g.failed = hist.failed
            /\ g.taken = hist.taken \cup {p.id}
        BY <1>t, <1>3 DEF History
      <3>2. Ends(Answer(call.op, call.id, p), g)
        BY <1>1, <2>2
      <3> HIDE DEF g
      <3> QED
        BY <2>2, <3>1, <3>2
    <2> QED
      BY <2>1, <2>2
  <1>7. /\ hist' \in History
        /\ hist'.failed = h.failed /\ hist'.taken = h.taken
        /\ hist'.sent = h.sent /\ hist'.intact = h.intact
        /\ call' = NoCall \/ call' \in [op : Request, id : Nat, attempts : Nat]
        /\ todo' \in Seq(Asked)
        /\ Done' = hist.reqs /\ hist'.reqs # 0
        /\ ~Idle' => call'.id = hist'.reqs
        /\ Answered' = Answered
        /\ \A i \in 1 .. Len(todo') : todo'[i].id = Answered + i
        /\ reply' \in {reply, Answer(call.op, call.id, p)}
    BY <1>1, <1>t, <1>6, EndsStep
  <1>8. /\ hist'.failed \subseteq 1 .. Done' /\ IsFiniteSet(hist'.failed)
        /\ hist.failed \subseteq 1 .. call.id - 1
        /\ Taken = call.id - 1 - Cardinality(hist.failed)
        /\ Taken' = IF p.body = "O" THEN Taken ELSE Taken + 1
    BY <1>1, <1>t, <1>6, <1>7, Counts
  <1>9. TypeOK' /\ Numbered'
    BY SMTT(60), <1>1, <1>t, <1>4, <1>7, <1>8 DEF TypeOK, Numbered
  <1>10. hist.intact =>
           /\ Framed' /\ InOrder'
           /\ p.body # "O" => p.id = Taken + 1
    <2>1. SUFFICES ASSUME hist.intact
                   PROVE  Framed' /\ InOrder' /\ (p.body # "O" => p.id = Taken + 1)
      OBVIOUS
    <2>2. Framed /\ InOrder
      BY <1>t, <2>1 DEF StreamInv
    <2>3. Framed'
      BY <1>t, <1>4, <1>5, <2>2, DropKeepsFrames
    <2>4. \A i \in 1 .. k - 1 : IsAnswer(i) => i = head_at
      BY <1>5 DEF IsAnswer
    <2>5. IsAnswer(head_at) <=> p.body # "O"
      BY <1>2, <1>3, <1>5 DEF IsAnswer
    <2>6. InOrder' /\ \A i \in 1 .. k - 1 : IsAnswer(i) => stream[i].p.id = Taken + 1
      <3>1. CASE p.body = "O"
        BY <1>t, <1>4, <1>7, <1>8, <2>2, <2>4, <2>5, <3>1, DropKeepsOrder
      <3>2. CASE p.body # "O"
        <4>1. \E i \in 1 .. k - 1 : IsAnswer(i) /\ \A j \in 1 .. k - 1 : IsAnswer(j) => j = i
          BY <1>5, <2>4, <2>5, <3>2
        <4>2. Taken' = Taken + 1
          BY <1>8, <3>2
        <4> QED
          BY <1>t, <1>4, <1>7, <2>2, <4>1, <4>2, DropKeepsOrder
      <3> QED
        BY <3>1, <3>2
    <2> QED
      BY <1>3, <1>5, <2>3, <2>5, <2>6
  <1>11. StreamInv'
    <2>1. SUFFICES ASSUME hist.intact
                   PROVE  hist'.taken = 1 .. Taken' /\ Taken' <= Answered' /\ hist'.sent = 1 .. Answered'
      BY <1>1, <1>t, <1>6, <1>7, <1>10 DEF StreamInv
    <2>2. hist.taken = 1 .. Taken /\ Taken <= Answered /\ hist.sent = 1 .. Answered /\ InOrder
      BY <1>t, <2>1 DEF StreamInv
    <2>3. CASE p.body = "O"
      BY <1>6, <1>7, <1>8, <2>2, <2>3
    <2>4. CASE p.body # "O"
      <3>1. Taken' = Taken + 1 /\ hist'.taken = hist.taken \cup {Taken + 1}
        BY <1>6, <1>7, <1>8, <1>10, <2>1, <2>4
      <3>2. Taken + 1 <= Answered
        <4>1. IsAnswer(head_at) /\ stream[head_at].p.id = Taken + 1
          BY <1>2, <1>3, <1>5, <1>10, <2>1, <2>4 DEF IsAnswer
        <4>2. Taken + 1 \in Taken + 1 .. Answered
          BY <1>5, <2>2, <4>1 DEF InOrder
        <4> QED
          BY <1>t, <4>2
      <3>3. hist'.taken = 1 .. Taken + 1
        BY <1>t, <2>2, <3>1
      <3> QED
        BY <1>6, <1>7, <2>2, <3>1, <3>2, <3>3
    <2> QED
      BY <2>3, <2>4
  <1>12. ReplyInv'
    <2>1. CASE reply' = reply
      <3>1. Done <= Done' /\ Done' \in Nat
        BY <1>1, <1>t, <1>7 DEF Done
      <3> QED
        BY <1>1, <1>t, <1>6, <1>7, <2>1, <3>1, ReplyKept
    <2>2. CASE reply' = Answer(call.op, call.id, p) /\ ~Accepts(call.op, p.body)
      BY <2>2 DEF ReplyInv, Accepted, Answer
    <2>3. CASE reply' = Answer(call.op, call.id, p) /\ Accepts(call.op, p.body)
      <3>1. reply'.id = call.id /\ reply'.from = p
        BY <2>3 DEF Answer
      <3>2. call.id \in 1 .. Done' /\ p.id \in Nat
        BY <1>t, <1>3, <1>7
      <3>3. p.body = "O" => call.id \in hist'.failed
        BY <1>6, <1>7
      <3>4. LagIsExact'
        <4>1. SUFFICES ASSUME hist.intact, p.body # "O"
                       PROVE  p.id = call.id - Cardinality({ i \in hist'.failed : i < call.id })
          BY <1>6, <1>7, <3>1 DEF LagIsExact
        <4>2. hist'.failed = hist.failed
          BY <1>6, <1>7, <4>1
        <4>3. { i \in hist.failed : i < call.id } = hist.failed
          BY <1>t, <1>8
        <4>4. p.id = Taken + 1
          BY <1>10, <4>1
        <4>5. Cardinality(hist.failed) \in Nat
          BY <1>t, FS_CardinalityType DEF Numbered
        <4>6. call.id = Taken + 1 + Cardinality(hist.failed)
          BY <1>t, <1>8, <4>5
        <4>7. p.id = call.id - Cardinality(hist.failed)
          BY <1>t, <4>4, <4>5, <4>6
        <4> QED
          BY <4>2, <4>3, <4>7
      <3> QED
        BY <3>1, <3>2, <3>3, <3>4 DEF ReplyInv
    <2> QED
      BY <1>7, <2>1, <2>2, <2>3
  <1> QED
    BY <1>9, <1>11, <1>12 DEF IInv

-----------------------------------------------------------------------------
(* The other steps                                                           *)

\* A request is put on the stub's list under the next number.
LEMMA SendStep ==
  ASSUME TypeOK, Numbered, Idle, NEW op \in Request, send(op), hist'.reqs = hist.reqs + 1,
         hist'.failed = hist.failed, conn'
  PROVE  /\ call' \in [op : Request, id : Nat, attempts : Nat] /\ ~Idle'
         /\ call'.id = hist'.reqs /\ hist'.reqs # 0 /\ todo' \in Seq(Asked)
         /\ Answered' = Answered /\ Done' = Done /\ Taken' = Taken
         /\ \A i \in 1 .. Len(todo') : todo'[i].id = Answered + i
  <1>1. /\ hist.reqs \in Nat /\ todo \in Seq(Asked) /\ Answered \in Nat
        /\ \A i \in 1 .. Len(todo) : todo[i].id = Answered + i
        /\ Answered = hist.reqs - Len(todo) /\ Len(todo) \in Nat
    BY DEF TypeOK, History, Numbered, Answered
  <1>2. /\ call' = [op |-> op, id |-> hist.reqs + 1, attempts |-> 0]
        /\ todo' = Append(todo, [id |-> hist.reqs + 1, op |-> op, output |-> 0])
    BY DEF send
  <1>3. call' \in [op : Request, id : Nat, attempts : Nat] /\ call'.id = hist'.reqs
    BY <1>1, <1>2
  <1>4. ~Idle'
    BY <1>2 DEF Idle, NoCall
  <1>5. [id |-> hist.reqs + 1, op |-> op, output |-> 0] \in Asked
    BY <1>1 DEF Asked
  <1>6. /\ todo' \in Seq(Asked) /\ Len(todo') = Len(todo) + 1
        /\ \A i \in 1 .. Len(todo) : todo'[i] = todo[i]
        /\ todo'[Len(todo) + 1].id = hist.reqs + 1
    BY <1>1, <1>2, <1>5
  <1>7. ASSUME NEW i \in 1 .. Len(todo') PROVE todo'[i].id = Answered + i
    <2>1. CASE i \in 1 .. Len(todo)
      BY <1>1, <1>6, <2>1
    <2>2. CASE i = Len(todo) + 1
      BY <1>1, <1>6, <2>2
    <2> QED
      BY <1>1, <1>6, <2>1, <2>2
  <1>8. Answered' = Answered /\ Done' = Done
    BY <1>1, <1>4, <1>6 DEF Answered, Done
  <1>9. Taken' = Taken
    BY <1>8 DEF Taken
  <1> QED
    BY <1>1, <1>3, <1>4, <1>6, <1>7, <1>8, <1>9

\* A request of a caller.
LEMMA Requests ==
  ASSUME IInv, NEW op \in Ops, request(op)
  PROVE  IInv'
  <1>1. Idle /\ conn /\ send(op) /\ UNCHANGED <<conn, buf, reply, net>> /\ op \in Request
    BY OpsAssumption DEF request
  <1>2. /\ hist' \in History /\ hist'.reqs = hist.reqs + 1 /\ hist'.failed = hist.failed
        /\ hist'.taken = hist.taken /\ hist'.sent = hist.sent /\ hist'.intact = hist.intact
    <2>1. hist' = [hist EXCEPT !.reqs = hist.reqs + 1] /\ hist.reqs + 1 \in Nat
      BY DEF IInv, TypeOK, History, request
    <2>2. ASSUME NEW n \in Nat, hist' = [hist EXCEPT !.reqs = n]
          PROVE  /\ hist' \in History /\ hist'.reqs = n /\ hist'.failed = hist.failed
                 /\ hist'.taken = hist.taken /\ hist'.sent = hist.sent
                 /\ hist'.intact = hist.intact
      BY <2>2 DEF IInv, TypeOK, History
    <2> QED
      BY <2>1, <2>2
  <1>3. /\ call' \in [op : Request, id : Nat, attempts : Nat] /\ ~Idle'
        /\ call'.id = hist'.reqs /\ hist'.reqs # 0 /\ todo' \in Seq(Asked)
        /\ Answered' = Answered /\ Done' = Done /\ Taken' = Taken
        /\ \A i \in 1 .. Len(todo') : todo'[i].id = Answered + i
    BY <1>1, <1>2, SendStep DEF IInv
  <1>4. TypeOK' /\ Numbered'
    BY <1>1, <1>2, <1>3 DEF IInv, TypeOK, Numbered
  <1>5. StreamInv'
    BY <1>1, <1>2, <1>3 DEF IInv, StreamInv, Framed, InOrder, IsAnswer, stream
  <1>6. ReplyInv'
    <2>1. Done \in Nat
      BY DEF IInv, TypeOK, History, Numbered, Done
    <2> QED
      BY <1>1, <1>2, <1>3, <2>1, ReplyKept DEF IInv
  <1> QED
    BY <1>4, <1>5, <1>6 DEF IInv

\* The first connection begins with nothing sent; a later one gives up hist.intact.
LEMMA Attaches ==
  ASSUME IInv, attach
  PROVE  IInv'
  <1>1. /\ Idle /\ ~conn /\ conn' = TRUE /\ send("qSupported") /\ UNCHANGED <<buf, reply, net>>
        /\ net = << >> /\ todo = << >>
    BY DEF attach, IInv, Numbered
  <1>2. /\ hist' \in History /\ hist'.reqs = hist.reqs + 1 /\ hist'.failed = hist.failed
        /\ hist'.taken = hist.taken /\ hist'.sent = hist.sent /\ hist'.intact = (hist.reqs = 0)
    <2>1. hist' = [hist EXCEPT !.reqs = hist.reqs + 1, !.intact = (hist.reqs = 0)]
      BY DEF attach
    <2>2. ASSUME NEW n \in Nat, NEW b \in BOOLEAN,
                 hist' = [hist EXCEPT !.reqs = n, !.intact = b]
          PROVE  /\ hist' \in History /\ hist'.reqs = n /\ hist'.failed = hist.failed
                 /\ hist'.taken = hist.taken /\ hist'.sent = hist.sent /\ hist'.intact = b
      BY <2>2 DEF IInv, TypeOK, History
    <2>3. hist.reqs + 1 \in Nat
      BY DEF IInv, TypeOK, History
    <2>4. (hist.reqs = 0) \in BOOLEAN
      OBVIOUS
    <2> QED
      BY <2>1, <2>2, <2>3, <2>4, Zenon
  <1>3. /\ call' \in [op : Request, id : Nat, attempts : Nat] /\ ~Idle'
        /\ call'.id = hist'.reqs /\ hist'.reqs # 0 /\ todo' \in Seq(Asked)
        /\ Answered' = Answered /\ Done' = Done /\ Taken' = Taken
        /\ \A i \in 1 .. Len(todo') : todo'[i].id = Answered + i
    BY <1>1, <1>2, SendStep DEF IInv, Request
  <1>4. TypeOK' /\ Numbered'
    BY <1>1, <1>2, <1>3 DEF IInv, TypeOK, Numbered
  <1>5. hist'.intact => Fresh
    BY <1>2 DEF IInv, Numbered
  <1>6. StreamInv'
    <2>1. SUFFICES ASSUME hist'.intact PROVE StreamInv'
      BY DEF StreamInv
    <2>2. Fresh /\ hist.reqs = 0
      BY <1>2, <1>5, <2>1
    <2>3. stream' = << >> /\ Len(stream') = 0 /\ Len(todo) = 0
      BY <1>1, <2>2 DEF Fresh, stream
    <2>4. Done = 0 /\ Answered = 0 /\ Cardinality(hist.failed) = 0
      <3>1. Cardinality(hist.failed) = 0
        BY <2>2, FS_EmptySet DEF Fresh
      <3>2. Done = 0
        BY <1>1, <2>2 DEF Done
      <3>3. Answered = 0
        BY <2>2, <2>3 DEF Answered
      <3> QED
        BY <3>1, <3>2, <3>3
    <2>5. Taken' = 0 /\ Answered' = 0
      BY <1>3, <2>4 DEF Taken
    <2>6. Framed' /\ InOrder'
      BY <2>3, <2>5 DEF Framed, InOrder
    <2>7. hist'.taken = {} /\ hist'.sent = {}
      BY <1>2, <2>2 DEF Fresh
    <2> QED
      BY <1>1, <2>5, <2>6, <2>7 DEF StreamInv
  <1>7. ReplyInv'
    <2>1. CASE hist'.intact
      <3>1. ~Accepted'
        BY <1>1, <1>5, <2>1 DEF Fresh, Accepted
      <3> QED
        BY <3>1 DEF ReplyInv
    <2>2. CASE ~hist'.intact
      <3>1. Done \in Nat
        BY DEF IInv, TypeOK, History, Numbered, Done
      <3> QED
        BY <1>1, <1>2, <1>3, <2>2, <3>1, ReplyKept DEF IInv
    <2> QED
      BY <2>1, <2>2
  <1> QED
    BY <1>4, <1>6, <1>7 DEF IInv

\* The socket is closed: what was under way is gone, the decoder keeps its bytes.
LEMMA Detaches ==
  ASSUME IInv, detach
  PROVE  IInv'
  <1>1. /\ Idle /\ conn /\ conn' = FALSE /\ net' = << >> /\ todo' = << >>
        /\ reply' = [res |-> "ok"] /\ UNCHANGED <<buf, call, hist>>
    BY DEF detach
  <1>2. Idle' /\ Done' = Done /\ Taken' = Taken
    BY <1>1 DEF Idle, Done, Taken
  <1>3. Len(todo') = 0 /\ Answered' = hist.reqs /\ hist.reqs \in Nat
    BY <1>1 DEF IInv, TypeOK, History, Answered
  <1>4. TypeOK' /\ Numbered'
    <2>1. TypeOK /\ Numbered /\ hist.reqs # 0
      BY <1>1 DEF IInv, Numbered, Fresh
    <2>2. net' \in Seq(Token) /\ todo' \in Seq(Asked)
      BY <1>1
    <2>3. TypeOK'
      BY <1>1, <2>1, <2>2 DEF TypeOK
    <2>4. /\ Answered' \in Nat /\ hist'.reqs # 0
          /\ \A i \in 1 .. Len(todo') : todo'[i].id = Answered' + i
      BY <1>1, <1>3, <2>1
    <2>5. hist'.failed \subseteq 1 .. Done' /\ IsFiniteSet(hist'.failed) /\ Taken' \in Nat
      BY <1>1, <1>2, <2>1 DEF Numbered
    <2>6. Numbered'
      BY <1>1, <1>2, <2>4, <2>5 DEF Numbered
    <2> QED
      BY <2>3, <2>6
  <1>5. StreamInv'
    <2>1. /\ \A i \in 1 .. Len(stream') : i \in 1 .. Len(stream) /\ stream'[i] = stream[i]
      BY <1>1 DEF IInv, TypeOK, stream
    <2>2. Taken \in Nat /\ Answered \in Nat
      BY DEF IInv, Numbered
    <2>3. \A i \in 1 .. Len(stream') : IsAnswer(i)' => IsAnswer(i)
      BY <2>1 DEF IsAnswer
    <2>4. SUFFICES ASSUME hist.intact
                   PROVE  /\ hist.taken = 1 .. Taken
                          /\ \A i \in 1 .. Len(stream') : IsAnswer(i)' => stream'[i].p.id > Taken
      BY <1>1, <1>2 DEF StreamInv
    <2>5. hist.taken = 1 .. Taken /\ InOrder
      BY <1>1, <2>4 DEF IInv, StreamInv
    <2>6. \A i \in 1 .. Len(stream) : IsAnswer(i) => stream[i].p.id > Taken
      BY <2>2, <2>5 DEF InOrder
    <2> QED
      BY <2>1, <2>3, <2>5, <2>6
  <1>6. ReplyInv'
    BY <1>1 DEF ReplyInv, Accepted
  <1> QED
    BY <1>4, <1>5, <1>6 DEF IInv

\* Whole frames put behind a stream of whole frames.
LEMMA FramesAppended ==
  ASSUME Framed, NEW n \in Nat, Len(stream) = n, NEW m \in {0, 1},
         Len(stream') = n + m + 2,
         \A i \in 1 .. n : stream'[i] = stream[i],
         m = 1 => stream'[n + 1].t = "ack",
         stream'[n + m + 1].t = "head",
         stream'[n + m + 2].t = "tail" /\ stream'[n + m + 2].good
  PROVE  Framed'
  <1>1. ASSUME NEW i \in 1 .. Len(stream')
        PROVE  /\ stream'[i].t = "head" => /\ i + 1 \in 1 .. Len(stream')
                                           /\ stream'[i + 1].t = "tail"
               /\ stream'[i].t = "tail" => /\ stream'[i].good /\ i # 1
                                           /\ stream'[i - 1].t = "head"
    <2>1. CASE i \in 1 .. n
      <3>1. /\ stream[i].t = "head" => i + 1 \in 1 .. n /\ stream[i + 1].t = "tail"
            /\ stream[i].t = "tail" => stream[i].good /\ i # 1 /\ stream[i - 1].t = "head"
        BY <2>1 DEF Framed
      <3>2. stream'[i] = stream[i]
        BY <2>1
      <3>3. i # 1 => stream'[i - 1] = stream[i - 1]
        BY <2>1
      <3>4. i + 1 \in 1 .. n => stream'[i + 1] = stream[i + 1] /\ i + 1 \in 1 .. Len(stream')
        OBVIOUS
      <3> QED
        BY <3>1, <3>2, <3>3, <3>4
    <2>2. CASE m = 1 /\ i = n + 1
      BY <2>2
    <2>3. CASE i = n + m + 1
      <3>1. i + 1 = n + m + 2 /\ i + 1 \in 1 .. Len(stream')
        BY <2>3
      <3> QED
        BY <2>3, <3>1
    <2>4. CASE i = n + m + 2
      <3>1. i - 1 = n + m + 1 /\ i # 1
        BY <2>4
      <3> QED
        BY <2>4, <3>1
    <2> QED
      BY <2>1, <2>2, <2>3, <2>4
  <1> QED
    BY <1>1 DEF Framed

\* An answer to the next request put behind the stream.
LEMMA AnswerAppended ==
  ASSUME InOrder, NEW n \in Nat, Len(stream) = n, NEW a \in n + 1 .. Len(stream'),
         Len(stream') \in Nat, Taken \in Nat, Answered \in Nat,
         Taken <= Answered, Taken' = Taken, Answered' = Answered + 1,
         \A i \in 1 .. n : stream'[i] = stream[i],
         IsAnswer(a)', stream'[a].p.id = Answered + 1,
         \A i \in n + 1 .. Len(stream') : i # a => ~IsAnswer(i)'
  PROVE  InOrder'
  <1>1. \A i \in 1 .. n : (IsAnswer(i)' <=> IsAnswer(i)) /\ i \in 1 .. Len(stream')
    BY DEF IsAnswer
  <1>2. \A i \in 1 .. Len(stream') : i \in 1 .. n \/ i \in n + 1 .. Len(stream')
    OBVIOUS
  <1>3. \A i \in 1 .. Len(stream') : IsAnswer(i)' => i \in 1 .. n \/ i = a
    BY <1>2
  <1>4. \A i \in 1 .. n : IsAnswer(i)' => stream'[i].p.id \in Taken + 1 .. Answered
    BY <1>1 DEF InOrder
  <1>5. ASSUME NEW i \in 1 .. Len(stream'), IsAnswer(i)'
        PROVE  stream'[i].p.id \in Taken' + 1 .. Answered'
    <2>1. CASE i \in 1 .. n
      BY <1>4, <1>5, <2>1
    <2>2. CASE i = a
      BY <2>2
    <2> QED
      BY <1>3, <1>5, <2>1, <2>2
  <1>6. ASSUME NEW x \in Taken' + 1 .. Answered'
        PROVE  \E i \in 1 .. Len(stream') : IsAnswer(i)' /\ stream'[i].p.id = x
    <2>1. CASE x = Answered + 1
      <3>1. a \in 1 .. Len(stream')
        OBVIOUS
      <3> QED
        BY <2>1, <3>1
    <2>2. CASE x \in Taken + 1 .. Answered
      <3>1. PICK i \in 1 .. n : IsAnswer(i) /\ stream[i].p.id = x
        BY <2>2 DEF InOrder
      <3> QED
        BY <1>1, <3>1
    <2> QED
      BY <2>1, <2>2
  <1>7. ASSUME NEW i \in 1 .. Len(stream'), NEW j \in 1 .. Len(stream'), i < j,
               IsAnswer(i)', IsAnswer(j)'
        PROVE  stream'[i].p.id < stream'[j].p.id
    <2>1. CASE j \in 1 .. n
      <3>1. i \in 1 .. n
        BY <1>7, <2>1
      <3>2. IsAnswer(i) /\ IsAnswer(j)
        BY <1>1, <1>7, <2>1, <3>1
      <3>3. stream[i].p.id < stream[j].p.id
        BY <1>7, <2>1, <3>1, <3>2 DEF InOrder
      <3> QED
        BY <2>1, <3>1, <3>3
    <2>2. CASE j = a
      <3>1. i \in 1 .. n
        BY <1>3, <1>7, <2>2
      <3>2. stream'[i].p.id \in Taken + 1 .. Answered
        BY <1>4, <1>7, <3>1
      <3> QED
        BY <2>2, <3>2
    <2> QED
      BY <1>3, <1>7, <2>1, <2>2
  <1> QED
    BY <1>5, <1>6, <1>7 DEF InOrder

\* Three tokens put behind a sequence one by one, or at once.
LEMMA ThreeAppended ==
  ASSUME NEW S, NEW w \in Seq(S), NEW x \in S, NEW y \in S, NEW z \in S
  PROVE  /\ (w \o <<x>>) \o <<y, z>> = w \o <<x, y, z>>
         /\ <<x, y, z>> \in Seq(S) /\ Len(<<x, y, z>>) = 3
         /\ <<x, y, z>>[1] = x /\ <<x, y, z>>[2] = y /\ <<x, y, z>>[3] = z
  <1>1. <<x>> \in Seq(S) /\ <<y, z>> \in Seq(S) /\ <<x, y, z>> \in Seq(S)
    OBVIOUS
  <1>2. <<x>> \o <<y, z>> = <<x, y, z>>
    <2>1. /\ <<x>> \o <<y, z>> \in Seq(S) /\ Len(<<x>> \o <<y, z>>) = 3
          /\ \A i \in 1 .. 3 : (<<x>> \o <<y, z>>)[i] = IF i <= 1 THEN <<x>>[i] ELSE <<y, z>>[i - 1]
      BY <1>1, ConcatProperties
    <2>2. \A i \in 1 .. 3 : (<<x>> \o <<y, z>>)[i] = <<x, y, z>>[i]
      BY <2>1
    <2>3. Len(<<x, y, z>>) = 3
      OBVIOUS
    <2> QED
      BY <1>1, <2>1, <2>2, <2>3, SeqEqual
  <1>3. PICK b \in Seq(S), c \in Seq(S) : b = <<x>> /\ c = <<y, z>>
    BY <1>1
  <1>4. (w \o b) \o c = w \o (b \o c)
    OBVIOUS
  <1>5. (w \o <<x>>) \o <<y, z>> = w \o <<x, y, z>>
    BY <1>2, <1>3, <1>4
  <1> QED
    BY <1>1, <1>5

\* The oldest request leaves the stub's list.
LEMMA FirstAnswered ==
  ASSUME NEW q \in Seq(Asked), q # << >>, NEW n \in Nat,
         \A i \in 1 .. Len(q) : q[i].id = n + i
  PROVE  /\ Head(q) = q[1] /\ Head(q) \in Asked /\ Head(q).id = n + 1
         /\ Tail(q) \in Seq(Asked) /\ Len(Tail(q)) = Len(q) - 1 /\ Len(q) \in Nat \ {0}
         /\ \A i \in 1 .. Len(Tail(q)) : Tail(q)[i].id = (n + 1) + i
  <1>1. Len(q) \in Nat \ {0} /\ Head(q) = q[1]
    OBVIOUS
  <1>2. 1 \in 1 .. Len(q)
    BY <1>1
  <1>3. q[1] \in Asked /\ q[1].id = n + 1
    BY <1>2
  <1>4. Tail(q) \in Seq(Asked) /\ Len(Tail(q)) = Len(q) - 1
    OBVIOUS
  <1>5. ASSUME NEW i \in 1 .. Len(Tail(q)) PROVE Tail(q)[i].id = (n + 1) + i
    <2>1. i + 1 \in 1 .. Len(q) /\ i \in 1 .. Len(q) - 1
      BY <1>1, <1>4
    <2>2. Tail(q)[i] = q[i + 1]
      BY <2>1
    <2>3. q[i + 1].id = n + (i + 1)
      BY <2>1
    <2> QED
      BY <2>1, <2>2, <2>3
  <1> QED
    BY <1>1, <1>3, <1>4, <1>5

\* The stub answers the oldest request it was asked.
LEMMA StubAnswers ==
  ASSUME IInv, stub_answers
  PROVE  IInv'
  <1>t. /\ buf \in Seq(Token) /\ net \in Seq(Token) /\ todo \in Seq(Asked) /\ todo # << >>
        /\ Answered \in Nat /\ \A i \in 1 .. Len(todo) : todo[i].id = Answered + i
    BY DEF IInv, TypeOK, Numbered, stub_answers
  <1>u. TypeOK /\ Numbered /\ StreamInv /\ ReplyInv /\ hist \in History
    BY DEF IInv, TypeOK
  <1>v. hist.reqs \in Nat /\ Taken \in Nat /\ Len(stream) \in Nat
    BY <1>t, <1>u DEF History, Numbered, stream
  <1> DEFINE d == Head(todo)
  <1>1. /\ d \in Asked /\ d.id = Answered + 1 /\ Tail(todo) \in Seq(Asked)
        /\ Len(Tail(todo)) = Len(todo) - 1 /\ Len(todo) \in Nat \ {0}
        /\ \A i \in 1 .. Len(Tail(todo)) : Tail(todo)[i].id = (Answered + 1) + i
    BY <1>t, FirstAnswered
  <1>2. PICK b \in Bodies(d.op), good \in BOOLEAN :
          /\ net' = net \o <<ack>> \o Frame([id |-> d.id, body |-> b], good)
          /\ hist' = [hist EXCEPT !.sent = @ \cup {d.id}, !.intact = @ /\ good]
    BY DEF stub_answers
  <1>3. todo' = Tail(todo) /\ UNCHANGED <<conn, buf, call, reply>>
    BY DEF stub_answers
  <1> HIDE DEF d
  <1>4. b \in Body /\ b # "O"
    <2>1. d.op \in Request
      BY <1>1 DEF Asked
    <2> QED
      BY <1>2, <2>1, StopsAssumption DEF Bodies, Body, Request, OkOps, StopOps, StopBody
  <1> DEFINE q == [id |-> d.id, body |-> b]
  <1>5. /\ ack \in Token /\ head(q) \in Token /\ tail(good) \in Token
        /\ head(q).t = "head" /\ head(q).p = q /\ ack.t = "ack"
        /\ tail(good).t = "tail" /\ tail(good).good = good
        /\ q.id = Answered + 1 /\ q.body # "O"
    <2>1. q \in [id : Nat, body : Body] /\ q.id = Answered + 1 /\ q.body # "O"
      BY <1>t, <1>1, <1>4
    <2> HIDE DEF q
    <2> QED
      BY <2>1 DEF ack, head, tail, Token
  <1>6. PICK f \in Seq(Token) :
          /\ net' = net \o f /\ Len(f) = 3
          /\ f[1] = ack /\ f[2] = head(q) /\ f[3] = tail(good)
    <2>1. net' = (net \o <<ack>>) \o << head(q), tail(good) >>
      BY <1>2 DEF Frame
    <2> HIDE DEF q
    <2>2. PICK w \in Seq(Token), x \in Token, y \in Token, z \in Token :
            w = net /\ x = ack /\ y = head(q) /\ z = tail(good)
      BY <1>t, <1>5
    <2>3. /\ (w \o <<x>>) \o <<y, z>> = w \o <<x, y, z>>
          /\ <<x, y, z>> \in Seq(Token) /\ Len(<<x, y, z>>) = 3
          /\ <<x, y, z>>[1] = x /\ <<x, y, z>>[2] = y /\ <<x, y, z>>[3] = z
      BY ThreeAppended
    <2>4. PICK f \in Seq(Token) : f = <<x, y, z>>
      BY <2>3
    <2>5. /\ net' = net \o f /\ Len(f) = 3 /\ f[1] = x /\ f[2] = y /\ f[3] = z
      BY <2>1, <2>2, <2>3, <2>4
    <2> QED
      BY <2>2, <2>5
  <1> HIDE DEF q
  <1>7. /\ net' \in Seq(Token)
        /\ Len(stream') = Len(stream) + 3
        /\ \A i \in 1 .. Len(stream) : stream'[i] = stream[i]
        /\ \A i \in 1 .. 3 : stream'[Len(stream) + i] = f[i]
    BY <1>t, <1>3, <1>6, SendAppends
  <1>8. /\ stream'[Len(stream) + 1] = ack /\ stream'[Len(stream) + 2] = head(q)
        /\ stream'[Len(stream) + 3] = tail(good)
    BY <1>6, <1>7
  <1>9. /\ hist' \in History /\ hist'.reqs = hist.reqs /\ hist'.failed = hist.failed
        /\ hist'.taken = hist.taken /\ hist'.sent = hist.sent \cup {Answered + 1}
        /\ hist'.intact = (hist.intact /\ good)
    <2>1. ASSUME NEW x \in SUBSET Nat, NEW y \in BOOLEAN,
                 hist' = [hist EXCEPT !.sent = x, !.intact = y]
          PROVE  /\ hist' \in History /\ hist'.reqs = hist.reqs /\ hist'.failed = hist.failed
                 /\ hist'.taken = hist.taken /\ hist'.sent = x /\ hist'.intact = y
      BY <1>u, <2>1 DEF History
    <2>2. hist' = [hist EXCEPT !.sent = hist.sent \cup {Answered + 1}, !.intact = (hist.intact /\ good)]
      BY <1>1, <1>2
    <2>3. hist.sent \cup {Answered + 1} \in SUBSET Nat
      BY <1>t, <1>u DEF History
    <2>4. (hist.intact /\ good) \in BOOLEAN
      OBVIOUS
    <2> QED
      BY <2>1, <2>2, <2>3, <2>4, Zenon
  <1>10. Done' = Done /\ Taken' = Taken /\ Answered' = Answered + 1 /\ Idle' = Idle
    <2>1. Idle' = Idle
      BY <1>3 DEF Idle
    <2>2. Done' = Done
      BY <1>9, <2>1 DEF Done
    <2>3. Taken' = Taken
      BY <1>9, <2>2 DEF Taken
    <2>4. Answered' = Answered + 1
      <3>1. Answered = hist.reqs - Len(todo) /\ Answered' = hist'.reqs - Len(todo')
        BY DEF Answered
      <3> QED
        BY <1>v, <1>1, <1>3, <1>9, <3>1
    <2> QED
      BY <2>1, <2>2, <2>3, <2>4
  <1>11. conn
    BY <1>t, <1>u DEF Numbered
  <1>12. TypeOK'
    BY <1>1, <1>3, <1>7, <1>9, <1>u DEF TypeOK
  <1>13. Numbered'
    <2>1. hist.reqs # 0
      BY <1>t, <1>u, <1>11 DEF Numbered, Fresh
    <2>2. Answered' \in Nat
      BY <1>t, <1>10
    <2>3. \A i \in 1 .. Len(todo') : todo'[i].id = Answered' + i
      BY <1>1, <1>3, <1>10
    <2> QED
      BY <1>u, <1>3, <1>9, <1>10, <1>11, <2>1, <2>2, <2>3 DEF Numbered
  <1>14. StreamInv'
    <2>1. SUFFICES ASSUME hist.intact, good
                   PROVE  /\ hist'.taken = 1 .. Taken' /\ Taken' <= Answered'
                          /\ hist'.sent = 1 .. Answered' /\ Framed' /\ InOrder'
      BY <1>3, <1>9, <1>11 DEF StreamInv
    <2>2. /\ hist.taken = 1 .. Taken /\ Taken <= Answered /\ hist.sent = 1 .. Answered
          /\ Framed /\ InOrder
      BY <1>u, <1>11, <2>1 DEF StreamInv
    <2>3. PICK n \in Nat : n = Len(stream)
      BY <1>v
    <2>4. /\ Len(stream') = n + 3 /\ \A i \in 1 .. n : stream'[i] = stream[i]
          /\ stream'[n + 1] = ack /\ stream'[n + 2] = head(q) /\ stream'[n + 3] = tail(good)
      BY <1>7, <1>8, <2>3
    <2>5. Framed'
      <3>1. /\ Len(stream') = n + 1 + 2
            /\ stream'[n + 1].t = "ack" /\ stream'[n + 1 + 1].t = "head"
            /\ stream'[n + 1 + 2].t = "tail" /\ stream'[n + 1 + 2].good
        <4>1. n + 1 + 2 = n + 3 /\ n + 1 + 1 = n + 2
          OBVIOUS
        <4> QED
          BY <1>5, <2>1, <2>4, <4>1
      <3> QED
        BY <2>2, <2>3, <2>4, <3>1, FramesAppended
    <2>6. InOrder'
      <3>1. n + 2 \in n + 1 .. Len(stream') /\ Len(stream') \in Nat
        BY <2>4
      <3>2. /\ IsAnswer(n + 2)' /\ stream'[n + 2].p.id = Answered + 1
            /\ ~IsAnswer(n + 1)' /\ ~IsAnswer(n + 3)'
        BY <1>5, <2>4 DEF IsAnswer
      <3>3. \A i \in n + 1 .. Len(stream') : i = n + 1 \/ i = n + 2 \/ i = n + 3
        BY <2>4
      <3>4. \A i \in n + 1 .. Len(stream') : i # n + 2 => ~IsAnswer(i)'
        BY <3>2, <3>3
      <3> QED
        BY <1>t, <1>v, <1>10, <2>2, <2>3, <2>4, <3>1, <3>2, <3>4, AnswerAppended
    <2>7. hist'.sent = 1 .. Answered' /\ Taken' <= Answered'
      BY <1>t, <1>v, <1>9, <1>10, <2>2
    <2> QED
      BY <1>9, <1>10, <2>2, <2>5, <2>6, <2>7
  <1>15. ReplyInv'
    <2>1. Done \in Nat
      BY <1>u, <1>v DEF Numbered, Done
    <2>2. hist'.intact => hist.intact
      BY <1>9
    <2> QED
      BY <1>u, <1>3, <1>9, <1>10, <2>1, <2>2, ReplyKept
  <1> QED
    BY <1>12, <1>13, <1>14, <1>15 DEF IInv

\* Console output is put before a run request's answer, and is none itself.
LEMMA StubOutputs ==
  ASSUME IInv, stub_outputs
  PROVE  IInv'
  <1>t. /\ buf \in Seq(Token) /\ net \in Seq(Token) /\ todo \in Seq(Asked) /\ todo # << >>
        /\ Answered \in Nat /\ \A i \in 1 .. Len(todo) : todo[i].id = Answered + i
    BY DEF IInv, TypeOK, Numbered, stub_outputs
  <1>u. TypeOK /\ Numbered /\ StreamInv /\ ReplyInv
    BY DEF IInv
  <1>v. Taken \in Nat /\ Len(stream) \in Nat
    BY <1>t, <1>u DEF Numbered, stream
  <1> DEFINE d == Head(todo)
  <1>1. d = todo[1] /\ d \in Asked /\ Len(todo) \in Nat \ {0}
    BY <1>t, FirstAnswered
  <1> DEFINE q == [id |-> d.id, body |-> "O"]
  <1>2. /\ net' = net \o << head(q), tail(TRUE) >> /\ todo' = [todo EXCEPT ![1].output = @ + 1]
        /\ UNCHANGED <<conn, buf, call, reply, hist>>
    BY DEF stub_outputs, Frame
  <1> HIDE DEF d
  <1>3. /\ head(q) \in Token /\ tail(TRUE) \in Token
        /\ head(q).t = "head" /\ head(q).p.body = "O"
        /\ tail(TRUE).t = "tail" /\ tail(TRUE).good
    <2>1. q \in [id : Nat, body : Body] /\ q.body = "O"
      BY <1>1 DEF Body, Asked
    <2> HIDE DEF q
    <2> QED
      BY <2>1 DEF head, tail, Token
  <1> HIDE DEF q
  <1>4. PICK f \in Seq(Token) :
          net' = net \o f /\ Len(f) = 2 /\ f[1] = head(q) /\ f[2] = tail(TRUE)
    <2>1. PICK y \in Token, z \in Token : y = head(q) /\ z = tail(TRUE)
      BY <1>3
    <2>2. <<y, z>> \in Seq(Token) /\ Len(<<y, z>>) = 2 /\ <<y, z>>[1] = y /\ <<y, z>>[2] = z
      OBVIOUS
    <2> QED
      BY <1>2, <2>1, <2>2
  <1>5. /\ net' \in Seq(Token)
        /\ Len(stream') = Len(stream) + 2
        /\ \A i \in 1 .. Len(stream) : stream'[i] = stream[i]
        /\ \A i \in 1 .. 2 : stream'[Len(stream) + i] = f[i]
    BY <1>t, <1>2, <1>4, SendAppends
  <1>6. /\ todo' \in Seq(Asked) /\ Len(todo') = Len(todo)
        /\ \A i \in 1 .. Len(todo) : todo'[i].id = todo[i].id
    <2>1. ASSUME NEW x \in Asked, NEW n \in Nat, x.output = n
          PROVE  /\ [x EXCEPT !.output = n + 1] \in Asked
                 /\ [x EXCEPT !.output = n + 1].id = x.id
      BY DEF Asked
    <2>2. todo[1].output \in Nat /\ todo[1] \in Asked
      BY <1>1 DEF Asked
    <2> DEFINE y == [todo[1] EXCEPT !.output = @ + 1]
    <2>3. y \in Asked /\ y.id = todo[1].id
      BY <2>1, <2>2
    <2>4. todo' = [todo EXCEPT ![1] = y]
      BY <1>2
    <2> HIDE DEF y
    <2> QED
      BY <1>t, <1>1, <2>3, <2>4
  <1>7. Done' = Done /\ Taken' = Taken /\ Answered' = Answered /\ Idle' = Idle
    BY <1>2, <1>6 DEF Done, Taken, Answered, Idle
  <1>8. conn /\ hist.reqs # 0
    BY <1>t, <1>u DEF Numbered, Fresh
  <1>9. TypeOK'
    BY <1>2, <1>5, <1>6, <1>u DEF TypeOK
  <1>10. Numbered'
    <2>1. \A i \in 1 .. Len(todo') : todo'[i].id = Answered' + i
      BY <1>t, <1>6, <1>7
    <2> QED
      BY <1>u, <1>2, <1>7, <1>8, <2>1 DEF Numbered
  <1>11. StreamInv'
    <2>1. SUFFICES ASSUME hist.intact PROVE Framed' /\ InOrder'
      BY <1>u, <1>2, <1>7, <1>8 DEF StreamInv
    <2>2. Framed /\ InOrder
      BY <1>u, <1>8, <2>1 DEF StreamInv
    <2>3. PICK n \in Nat : n = Len(stream)
      BY <1>v
    <2>4. /\ Len(stream') = n + 2 /\ \A i \in 1 .. n : stream'[i] = stream[i]
          /\ stream'[n + 1] = head(q) /\ stream'[n + 2] = tail(TRUE)
      <3>1. stream'[n + 1] = f[1] /\ stream'[n + 2] = f[2]
        BY <1>5, <2>3
      <3> QED
        BY <1>4, <1>5, <2>3, <3>1
    <2>5. Framed'
      <3>1. n + 0 + 2 = n + 2 /\ n + 0 + 1 = n + 1
        OBVIOUS
      <3>2. /\ Len(stream') = n + 0 + 2 /\ stream'[n + 0 + 1].t = "head"
            /\ stream'[n + 0 + 2].t = "tail" /\ stream'[n + 0 + 2].good
        BY <1>3, <2>4, <3>1
      <3> QED
        BY <2>2, <2>3, <2>4, <3>2, FramesAppended
    <2>6. InOrder'
      <3>1. ~IsAnswer(n + 1)' /\ ~IsAnswer(n + 2)'
        BY <1>3, <2>4 DEF IsAnswer
      <3>2. \A i \in 1 .. n : /\ (IsAnswer(i)' <=> IsAnswer(i)) /\ stream'[i] = stream[i]
                              /\ i \in 1 .. Len(stream')
        BY <2>4 DEF IsAnswer
      <3>3. \A i \in 1 .. Len(stream') : i \in 1 .. n \/ i = n + 1 \/ i = n + 2
        BY <2>4
      <3>4. \A i \in 1 .. Len(stream') :
              IsAnswer(i)' => i \in 1 .. n /\ IsAnswer(i) /\ stream'[i] = stream[i]
        BY <3>1, <3>2, <3>3
      <3>5. \A i \in 1 .. Len(stream') : IsAnswer(i)' => stream'[i].p.id \in Taken' + 1 .. Answered'
        BY <1>7, <2>2, <2>3, <3>4 DEF InOrder
      <3>6. ASSUME NEW x \in Taken' + 1 .. Answered'
            PROVE  \E i \in 1 .. Len(stream') : IsAnswer(i)' /\ stream'[i].p.id = x
        <4>1. PICK i \in 1 .. n : IsAnswer(i) /\ stream[i].p.id = x
          BY <1>7, <2>2, <2>3 DEF InOrder
        <4> QED
          BY <3>2, <4>1
      <3>7. ASSUME NEW i \in 1 .. Len(stream'), NEW j \in 1 .. Len(stream'), i < j,
                   IsAnswer(i)', IsAnswer(j)'
            PROVE  stream'[i].p.id < stream'[j].p.id
        <4>1. i \in 1 .. n /\ j \in 1 .. n /\ IsAnswer(i) /\ IsAnswer(j)
          BY <3>4, <3>7
        <4>2. stream[i].p.id < stream[j].p.id
          BY <2>2, <2>3, <3>7, <4>1 DEF InOrder
        <4> QED
          BY <3>2, <4>1, <4>2
      <3> QED
        BY <3>5, <3>6, <3>7 DEF InOrder
    <2> QED
      BY <2>5, <2>6
  <1>12. ReplyInv'
    <2>1. Done \in Nat
      BY <1>u DEF TypeOK, History, Numbered, Done
    <2> QED
      BY <1>u, <1>2, <1>7, <2>1, ReplyKept
  <1> QED
    BY <1>9, <1>10, <1>11, <1>12 DEF IInv

-----------------------------------------------------------------------------
(* Every step                                                                *)

\* A client starts with nothing sent and nothing received.
LEMMA InitHolds ==
  ASSUME Init
  PROVE  IInv
  <1>1. Fresh /\ hist.reqs = 0 /\ call = NoCall /\ Len(todo) = 0
    BY DEF Init, Fresh, Idle, Accepted
  <1>2. hist \in History
    BY DEF Init, History
  <1>3. TypeOK
    <2>1. << >> \in Seq(Token) /\ << >> \in Seq(Asked)
      OBVIOUS
    <2>2. conn \in BOOLEAN
      BY DEF Init
    <2>3. buf = << >> /\ net = << >> /\ todo = << >>
      BY DEF Init
    <2> QED
      BY <1>1, <1>2, <2>1, <2>2, <2>3 DEF TypeOK
  <1>4. Cardinality({}) = 0 /\ IsFiniteSet({})
    BY FS_EmptySet
  <1>5. Done = 0
    BY <1>1 DEF Done, Fresh
  <1>6. Taken = 0 /\ Answered = 0
    <2>1. hist.failed = {}
      BY <1>1 DEF Fresh
    <2>2. Taken = 0
      BY <1>4, <1>5, <2>1 DEF Taken
    <2>3. Answered = 0
      BY <1>1 DEF Answered
    <2> QED
      BY <2>2, <2>3
  <1>7. Numbered
    BY <1>1, <1>4, <1>5, <1>6 DEF Numbered, Fresh
  <1>8. stream = << >>
    BY <1>1 DEF Fresh, stream
  <1>9. StreamInv
    <2>1. hist.taken = 1 .. Taken /\ ~conn /\ Len(stream) = 0
      BY <1>1, <1>6, <1>8 DEF Fresh
    <2> QED
      BY <2>1 DEF StreamInv
  <1>10. ReplyInv
    BY <1>1 DEF ReplyInv, Fresh
  <1> QED
    BY <1>3, <1>7, <1>9, <1>10 DEF IInv

\* A refused request changes the reply only, and that is no answer.
LEMMA Refused ==
  ASSUME IInv, refused
  PROVE  IInv'
  <1>1. reply' = [res |-> "err"] /\ UNCHANGED <<conn, buf, call, net, todo, hist>>
    BY DEF refused
  <1>2. ~Accepted'
    BY <1>1 DEF Accepted
  <1>3. /\ Idle' = Idle /\ Done' = Done /\ Taken' = Taken /\ Answered' = Answered
        /\ stream' = stream
    BY <1>1 DEF Idle, Done, Taken, Answered, stream
  <1>4. TypeOK'
    BY <1>1 DEF IInv, TypeOK
  <1>5. Numbered'
    BY <1>1, <1>2, <1>3 DEF IInv, Numbered, Fresh
  <1>6. StreamInv'
    BY <1>1, <1>3 DEF IInv, StreamInv, Framed, InOrder, IsAnswer
  <1>7. ReplyInv'
    BY <1>2 DEF ReplyInv
  <1> QED
    BY <1>4, <1>5, <1>6, <1>7 DEF IInv

\* Nothing happens.
LEMMA Stutters ==
  ASSUME IInv, UNCHANGED vars
  PROVE  IInv'
  <1>1. UNCHANGED <<conn, buf, call, reply, net, todo, hist>>
    BY DEF vars
  <1>2. /\ Idle' = Idle /\ Done' = Done /\ Taken' = Taken /\ Answered' = Answered
        /\ stream' = stream
    BY <1>1 DEF Idle, Done, Taken, Answered, stream
  <1>3. TypeOK'
    BY <1>1 DEF IInv, TypeOK
  <1>4. Numbered'
    BY <1>1, <1>2 DEF IInv, Numbered, Fresh, Accepted
  <1>5. StreamInv'
    BY <1>1, <1>2 DEF IInv, StreamInv, Framed, InOrder, IsAnswer
  <1>6. ReplyInv'
    BY <1>1, <1>2 DEF IInv, ReplyInv, LagIsExact, Accepted
  <1> QED
    BY <1>3, <1>4, <1>5, <1>6 DEF IInv

\* Every behaviour of the client and the stub keeps the invariant.
THEOREM GdbInvariant == Spec => []IInv
  <1>1. Init => IInv
    BY InitHolds
  <1>2. IInv /\ [Next]_vars => IInv'
    <2> SUFFICES ASSUME IInv, [Next]_vars PROVE IInv'
      OBVIOUS
    <2>1. CASE UNCHANGED vars
      BY <2>1, Stutters
    <2>2. CASE Client
      BY <2>2, Returns, Receives, TimesOut DEF Client
    <2>3. CASE attach
      BY <2>3, Attaches
    <2>4. CASE \E op \in Ops : request(op)
      BY <2>4, Requests
    <2>5. CASE refused
      BY <2>5, Refused
    <2>6. CASE detach
      BY <2>6, Detaches
    <2>7. CASE stub_answers
      BY <2>7, StubAnswers
    <2>8. CASE stub_outputs
      BY <2>8, StubOutputs
    <2> QED
      BY <2>1, <2>2, <2>3, <2>4, <2>5, <2>6, <2>7, <2>8 DEF Next
  <1> QED
    BY <1>1, <1>2, PTL DEF Spec

\* Timeouts, late answers, split frames and console output never reorder,
\* duplicate or lose an answer (FrameDecoder::next_payload, GdbClient::transact).
THEOREM GdbAnswersInOrder == Spec => []AnswersInOrder
  <1>1. IInv => AnswersInOrder
    <2> SUFFICES ASSUME IInv, hist.intact
                 PROVE  /\ \A i \in hist.taken : \A j \in 1 .. i - 1 : j \in hist.taken
                        /\ conn => hist.sent = hist.taken \cup UnderWay
                        /\ hist.taken \cap UnderWay = {}
      BY DEF AnswersInOrder
    <2>1. /\ hist.taken = 1 .. Taken /\ Taken \in Nat /\ Answered \in Nat
          /\ stream \in Seq(Token)
      BY DEF IInv, StreamInv, Numbered, TypeOK, stream
    <2>2. UnderWay = { stream[i].p.id : i \in { j \in 1 .. Len(stream) : IsAnswer(j) } }
      <3>1. UnderWay = { stream[i].p.id : i \in { j \in DOMAIN stream : IsAnswer(j) } }
        BY DEF UnderWay, stream, IsAnswer
      <3>2. PICK s \in Seq(Token) : s = stream
        BY <2>1
      <3>3. DOMAIN s = 1 .. Len(s)
        OBVIOUS
      <3> QED
        BY <3>1, <3>2, <3>3
    <2>3. ASSUME conn PROVE UnderWay = Taken + 1 .. Answered
      <3>1. InOrder
        BY <2>3 DEF IInv, StreamInv
      <3>2. ASSUME NEW x \in UnderWay PROVE x \in Taken + 1 .. Answered
        BY <2>2, <3>1 DEF InOrder
      <3>3. ASSUME NEW x \in Taken + 1 .. Answered PROVE x \in UnderWay
        BY <2>2, <3>1 DEF InOrder
      <3> QED
        BY <3>2, <3>3
    <2>4. ASSUME NEW x \in UnderWay PROVE x > Taken
      <3>1. CASE conn
        BY <2>1, <2>3, <2>4, <3>1
      <3>2. CASE ~conn
        BY <2>2, <2>4, <3>2 DEF IInv, StreamInv
      <3> QED
        BY <3>1, <3>2
    <2>5. hist.taken \cap UnderWay = {}
      BY <2>1, <2>4
    <2>6. ASSUME conn PROVE hist.sent = hist.taken \cup UnderWay
      <3>1. hist.sent = 1 .. Answered /\ Taken <= Answered
        BY <2>6 DEF IInv, StreamInv
      <3> QED
        BY <2>1, <2>3, <2>6, <3>1
    <2>7. \A i \in hist.taken : \A j \in 1 .. i - 1 : j \in hist.taken
      BY <2>1
    <2> QED
      BY <2>5, <2>6, <2>7
  <1> QED
    BY <1>1, GdbInvariant, PTL

\* From a failed transact on the client is one answer behind, and one more for each
\* later failure (GdbClient::transact numbers no request and flushes nothing).
THEOREM GdbLagIsExact == Spec => []LagIsExact
  <1>1. IInv => LagIsExact
    BY DEF IInv, ReplyInv, LagIsExact
  <1> QED
    BY <1>1, GdbInvariant, PTL
=============================================================================
