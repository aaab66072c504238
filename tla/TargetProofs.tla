---------------------------- MODULE TargetProofs ----------------------------
(***************************************************************************)
(* Proofs about Target for every number and size of pages, every range and *)
(* any number of moves of the guest.                                       *)
(***************************************************************************)
EXTENDS Target, WellFoundedInduction, TLAPS

----------------------------------------------------------------------------
(***************************************************************************)
(* Address arithmetic                                                      *)
(***************************************************************************)
\* Division with remainder, as pos / kPageSize and pos - page_addr use it.
LEMMA DivMod ==
  ASSUME NEW b \in Nat \ {0}, NEW a \in Nat
  PROVE  /\ a \div b \in Nat
         /\ a % b \in 0 .. b - 1
         /\ a = b * (a \div b) + (a % b)
OBVIOUS

\* A number determines its quotient and remainder.
LEMMA DivUnique ==
  ASSUME NEW b \in Nat \ {0}, NEW q \in Nat, NEW r \in 0 .. b - 1
  PROVE  (b * q + r) \div b = q /\ (b * q + r) % b = r
OBVIOUS

\* The same for the page of an address and the offset in it.
LEMMA PageDivMod ==
  ASSUME NEW a \in Nat
  PROVE  /\ PageOf(a) \in Nat
         /\ a % PageSize \in 0 .. PageSize - 1
         /\ a = PageSize * PageOf(a) + (a % PageSize)
BY DivMod, PageSizeAssumption DEF PageOf

\* A byte of a page is an address.
LEMMA PageOffset ==
  ASSUME NEW p \in Page, NEW o \in 1 .. PageSize
  PROVE  p * PageSize + o - 1 \in Addr
BY NPagesAssumption, PageSizeAssumption DEF Page, Addr, Size

\* The size of the address space is a positive number.
LEMMA SizePositive == Size \in Nat \ {0}
BY NPagesAssumption, PageSizeAssumption DEF Size

\* Pages wrap round the top of the address space.
LEMMA PageAfterIsPage ==
  ASSUME NEW a \in Nat, NEW i \in Nat
  PROVE  PageAfter(a, i) \in Page
BY NPagesAssumption, PageSizeAssumption, DivMod DEF PageAfter, PageOf, Page

\* Every address is a byte of its page.
LEMMA AddrInPage ==
  ASSUME NEW a \in Addr
  PROVE  /\ PageOf(a) \in Page
         /\ a % PageSize \in 0 .. PageSize - 1
         /\ a = PageOf(a) * PageSize + (a % PageSize)
<1>1. /\ PageOf(a) \in Nat
      /\ a % PageSize \in 0 .. PageSize - 1
      /\ a = PageSize * PageOf(a) + (a % PageSize)
  BY PageDivMod, SizePositive DEF Addr
<1>2. PageOf(a) < NPages
  BY <1>1, NPagesAssumption, PageSizeAssumption DEF Addr, Size
<1>3. QED
  BY <1>1, <1>2, NPagesAssumption, PageSizeAssumption DEF Page

(***************************************************************************)
(* The i-th byte a read serves lies on a page its loop visits, also when   *)
(* the range wraps round the top of the address space.                     *)
(***************************************************************************)
LEMMA ByteOnVisitedPage ==
  ASSUME NEW addr \in Addr, NEW len \in Nat, NEW i \in 0 .. len - 1
  PROVE  /\ (addr + i) % Size \in Addr
         /\ \E j \in ReadIndices(addr, len) :
              PageOf((addr + i) % Size) = PageAfter(addr, j)
<1> DEFINE q == PageOf(addr)
           r == addr % PageSize
           j == PageOf(r + i)
           s == (r + i) % PageSize
           t == (q + j) \div NPages
           u == (q + j) % NPages
<1> HIDE DEF q, r, j, s, t, u
<1>1. /\ q \in Nat /\ r \in 0 .. PageSize - 1
      /\ addr = PageSize * q + r
  <2>1. addr \in Nat
    BY SizePositive DEF Addr
  <2>2. QED
    BY <2>1, PageDivMod DEF q, r
<1>2. /\ j \in Nat /\ s \in 0 .. PageSize - 1
      /\ r + i = PageSize * j + s
  <2>1. r + i \in Nat
    BY <1>1, PageSizeAssumption
  <2>2. QED
    BY <2>1, PageDivMod DEF j, s
<1>3. /\ t \in Nat /\ u \in 0 .. NPages - 1
      /\ q + j = NPages * t + u
  <2>1. q + j \in Nat
    BY <1>1, <1>2
  <2>2. QED
    BY <2>1, DivMod, NPagesAssumption DEF t, u
<1>4. PageSize * u + s \in 0 .. Size - 1
  <2>1. u \in Page /\ s + 1 \in 1 .. PageSize
    BY <1>2, <1>3, PageSizeAssumption DEF Page
  <2>2. u * PageSize + (s + 1) - 1 \in Addr
    BY <2>1, PageOffset
  <2>3. PageSize * u + s = u * PageSize + (s + 1) - 1
    BY <1>2, <1>3, PageSizeAssumption, NPagesAssumption
  <2>4. QED
    BY <2>2, <2>3 DEF Addr
<1>5. addr + i = PageSize * (q + j) + s
  BY <1>1, <1>2, PageSizeAssumption
<1>6. PageSize * (NPages * t + u) + s = Size * t + (PageSize * u + s)
  BY <1>2, <1>3, NPagesAssumption, PageSizeAssumption DEF Size
<1>7. addr + i = Size * t + (PageSize * u + s)
  BY <1>3, <1>5, <1>6
<1>8. (addr + i) % Size = PageSize * u + s
  BY <1>3, <1>4, <1>7, DivUnique, SizePositive
<1>9. PageOf((addr + i) % Size) = u
  <2>1. u \in Nat
    BY <1>3, NPagesAssumption
  <2>2. (PageSize * u + s) \div PageSize = u
    BY <2>1, <1>2, DivUnique, PageSizeAssumption
  <2>3. QED
    BY <2>2, <1>8 DEF PageOf
<1>10. j \in ReadIndices(addr, len)
  <2> DEFINE w == r + len + PageSize - 1
             v == PageOf(w)
             x == w % PageSize
  <2> HIDE DEF w, v, x
  <2>6. w \in Nat
    BY <1>1, PageSizeAssumption DEF w
  <2>1. v \in Nat /\ x \in 0 .. PageSize - 1 /\ w = PageSize * v + x
    BY <2>6, PageDivMod DEF v, x
  <2>2. PageSize * j + s + PageSize <= PageSize * v + x
    BY <1>1, <1>2, <2>1, PageSizeAssumption DEF w
  <2>3. j + 1 <= v
    BY <1>2, <2>1, <2>2, PageSizeAssumption
  <2>4. ReadIndices(addr, len) = 0 .. v - 1
    BY DEF ReadIndices, r, v, w
  <2>5. QED
    BY <1>2, <2>1, <2>3, <2>4
<1>11. u = PageAfter(addr, j)
  BY DEF u, PageAfter, q
<1>12. QED
  BY <1>4, <1>8, <1>9, <1>10, <1>11, SizePositive DEF Addr

----------------------------------------------------------------------------
(***************************************************************************)
(* The inductive invariant.  PreviousGeneration talks about hist.was, the  *)
(* memory of the last epoch; it survives a refresh because in a clean      *)
(* epoch the memory recorded when the view was built is still the guest's. *)
(***************************************************************************)
SnapIsLive == hist.clean => hist.snap = mem

\* Before attach there is nothing that could have resumed the guest.
HaltedAtAttach == epoch = 0 => running = FALSE

IInv == TypeOK /\ LiveSnapshot /\ PreviousGeneration /\ SnapIsLive /\ HaltedAtAttach

\* What the backend returns for a page is part of the page.
LEMMA FetchedPages ==
  ASSUME TypeOK, NEW pages \in SUBSET Page, NEW fetched \in Fetches(pages)
  PROVE  /\ DOMAIN fetched \subseteq pages
         /\ \A p \in DOMAIN fetched : /\ fetched[p] \in Seq(Byte)
                                      /\ PartOf(fetched[p], mem, p)
<1>1. PICK D \in SUBSET pages : fetched \in Delivered(D)
  BY DEF Fetches
<1>2. PICK n \in [D -> ReadLens] :
          fetched = [p \in D |-> [o \in 1 .. n[p] |-> mem[p * PageSize + o - 1]]]
  BY <1>1 DEF Delivered
<1>3. ASSUME NEW p \in D
      PROVE  fetched[p] \in Seq(Byte) /\ PartOf(fetched[p], mem, p)
  <2>1. n[p] \in 0 .. PageSize
    BY <1>2, <1>3, ReadLensAssumption
  <2>2. \A o \in 1 .. n[p] : mem[p * PageSize + o - 1] \in Byte
    <3> TAKE o \in 1 .. n[p]
    <3>1. o \in 1 .. PageSize /\ p \in Page
      BY <2>1, PageSizeAssumption
    <3>2. p * PageSize + o - 1 \in Addr
      BY <3>1, PageOffset
    <3>3. QED
      BY <3>2 DEF TypeOK, Memory
  <2>3. fetched[p] = [o \in 1 .. n[p] |-> mem[p * PageSize + o - 1]]
    BY <1>2
  <2>4. fetched[p] \in Seq(Byte) /\ Len(fetched[p]) = n[p]
    BY <2>1, <2>2, <2>3
  <2>5. QED
    BY <2>1, <2>3, <2>4 DEF PartOf
<1>4. QED
  BY <1>2, <1>3

\* The pages a call works with: those cached and those just fetched.
LEMMA GotPages ==
  ASSUME TypeOK, LiveSnapshot,
         NEW pages \in SUBSET Page, NEW fetched \in Fetches(pages)
  PROVE  LET got == read_page(fetched)
         IN  /\ DOMAIN cur \subseteq DOMAIN got
             /\ DOMAIN got \subseteq Page
             /\ \A p \in DOMAIN got : got[p] \in Seq(Byte)
             /\ hist.clean => \A p \in DOMAIN got : PartOf(got[p], mem, p)
BY FetchedPages DEF TypeOK, IsGeneration, LiveSnapshot, read_page

\* The cache after a call, whatever part of the range it got through.
LEMMA KeptPages ==
  ASSUME TypeOK, LiveSnapshot,
         NEW pages \in SUBSET Page, NEW fetched \in Fetches(pages),
         NEW a, NEW I,
         cur' = Keep(a, I, read_page(fetched))
  PROVE  /\ IsGeneration(cur')
         /\ hist.clean => \A p \in DOMAIN cur' : PartOf(cur'[p], mem, p)
<1> DEFINE got == read_page(fetched)
           added == { PageAfter(a, i) : i \in I } \cap DOMAIN got
<1>1. cur' = [p \in DOMAIN cur \cup added |-> got[p]]
  BY DEF Keep
<1>2. /\ DOMAIN cur \subseteq DOMAIN got
      /\ DOMAIN got \subseteq Page
      /\ \A p \in DOMAIN got : got[p] \in Seq(Byte)
      /\ hist.clean => \A p \in DOMAIN got : PartOf(got[p], mem, p)
  BY GotPages
<1> HIDE DEF got
<1>3. DOMAIN cur' \subseteq DOMAIN got
  BY <1>1, <1>2
<1>4. \A p \in DOMAIN cur' : cur'[p] = got[p]
  BY <1>1
<1>5. QED
  BY <1>1, <1>2, <1>3, <1>4 DEF IsGeneration

\* The pages a read or a scan may fetch are pages.
LEMMA MissingPages ==
  ASSUME NEW a \in Addr, NEW I \in SUBSET Nat
  PROVE  Missing(a, I) \in SUBSET Page
BY PageAfterIsPage, SizePositive DEF Missing, Addr

\* The loops over pages count with natural numbers.
LEMMA LoopIndices ==
  ASSUME NEW a \in Addr, NEW n \in Nat
  PROVE  ReadIndices(a, n) \in SUBSET Nat /\ (n > 0 => ScanIndices(a, n) \in SUBSET Nat)
<1>1. ReadIndices(a, n) \in SUBSET Nat
  BY DEF ReadIndices
<1>2. ScanIndices(a, n) \in SUBSET Nat
  BY DEF ScanIndices, Page
<1>3. QED
  BY <1>1, <1>2

\* A byte served by a read: the guest's, or padding.
LEMMA ServedByte ==
  ASSUME TypeOK, NEW a \in Addr, NEW page \in Seq(Byte)
  PROVE  /\ PaddedByte(page, a % PageSize) \in Byte \cup {0}
         /\ PartOf(page, mem, PageOf(a)) =>
              PaddedByte(page, a % PageSize) \in {mem[a], 0}
<1> DEFINE off == a % PageSize
<1>1. off \in 0 .. PageSize - 1 /\ a = PageOf(a) * PageSize + off /\ PageOf(a) \in Page
  BY AddrInPage
<1> HIDE DEF off
<1>2. CASE off < Len(page)
  <2>1. off + 1 \in 1 .. Len(page)
    BY <1>1, <1>2, PageSizeAssumption
  <2>2. PaddedByte(page, off) = page[off + 1] /\ page[off + 1] \in Byte
    BY <1>2, <2>1 DEF PaddedByte
  <2>3. PartOf(page, mem, PageOf(a)) => page[off + 1] = mem[PageOf(a) * PageSize + (off + 1) - 1]
    BY <2>1 DEF PartOf
  <2>4. PageOf(a) * PageSize + (off + 1) - 1 = a
    BY <1>1, PageSizeAssumption, NPagesAssumption DEF Page
  <2>5. QED
    BY <2>2, <2>3, <2>4 DEF off
<1>3. CASE ~(off < Len(page))
  BY <1>3 DEF PaddedByte, off
<1>4. QED
  BY <1>2, <1>3

\* The reply of a successful read, for a range of the request set.
LEMMA ServedRange ==
  ASSUME TypeOK, LiveSnapshot, NEW r \in Ranges,
         NEW pages \in SUBSET Page, NEW fetched \in Fetches(pages),
         ReadOk(r[1], r[2], read_page(fetched))
  PROVE  LET bytes == ReadBytes(r[1], r[2], read_page(fetched))
         IN  /\ bytes \in [0 .. r[2] - 1 -> Byte \cup {0}]
             /\ hist.clean => \A i \in 0 .. r[2] - 1 :
                                bytes[i] \in {mem[(r[1] + i) % Size], 0}
<1> DEFINE got == read_page(fetched)
<1>1. r[1] \in Addr /\ r[2] \in Nat
  BY RangesAssumption
<1>2. /\ \A p \in DOMAIN got : got[p] \in Seq(Byte)
      /\ hist.clean => \A p \in DOMAIN got : PartOf(got[p], mem, p)
  BY GotPages
<1> HIDE DEF got
<1>3. ASSUME NEW i \in 0 .. r[2] - 1
      PROVE  LET a == (r[1] + i) % Size
             IN  /\ PaddedByte(got[PageOf(a)], a % PageSize) \in Byte \cup {0}
                 /\ hist.clean => PaddedByte(got[PageOf(a)], a % PageSize) \in {mem[a], 0}
  <2> DEFINE a == (r[1] + i) % Size
  <2>1. a \in Addr /\ \E j \in ReadIndices(r[1], r[2]) : PageOf(a) = PageAfter(r[1], j)
    BY <1>1, ByteOnVisitedPage
  <2> HIDE DEF a
  <2>2. PageOf(a) \in DOMAIN got
    BY <2>1 DEF ReadOk, got
  <2>3. QED
    BY <2>1, <2>2, <1>2, ServedByte DEF a
<1>4. QED
  BY <1>3 DEF ReadBytes, got

----------------------------------------------------------------------------
(***************************************************************************)
(* The initial states                                                      *)
(***************************************************************************)
LEMMA InitIInv == Init => IInv
<1> SUFFICES ASSUME Init PROVE IInv
  OBVIOUS
<1>1. IsGeneration(cur) /\ IsGeneration(prev)
  BY DEF Init, IsGeneration, NoPages
<1>2. mem \in Memory
  BY InitMemAssumption DEF Init, Memory
<1>3. reply \in Replies
  BY DEF Init, Replies
<1>4. hist \in History
  BY <1>2 DEF Init, History
<1>5. TypeOK
  BY <1>1, <1>2, <1>3, <1>4 DEF TypeOK, Init
<1>6. QED
  BY <1>5 DEF IInv, Init, LiveSnapshot, PreviousGeneration, SnapIsLive, HaltedAtAttach

(***************************************************************************)
(* The steps                                                               *)
(***************************************************************************)
\* A move of the guest leads to a memory and registers of their types.
LEMMA ExecutesType ==
  ASSUME TypeOK, Executes
  PROVE  mem' \in Memory /\ regs' \in RegVal
BY DEF TypeOK, Executes, Memory

\* refresh_state after whatever the guest did: a fresh, live view.
LEMMA RefreshIInv ==
  ASSUME IInv, NEW moves \in Nat,
         mem' \in Memory, regs' \in RegVal, running' = FALSE,
         reply' \in Replies, refresh_state(moves)
  PROVE  IInv'
<1> USE DEF IInv
<1>1. cur' = NoPages /\ prev' = cur
  BY DEF refresh_state, set_epoch
<1>2. IsGeneration(cur)' /\ IsGeneration(prev)'
  BY <1>1 DEF IsGeneration, NoPages, TypeOK
<1>3. hist' = [moves |-> moves, clean |-> TRUE,
               snap |-> mem', was |-> hist.snap, wasClean |-> hist.clean]
  BY DEF refresh_state
<1>4. hist' \in History
  BY <1>3 DEF TypeOK, History
<1>5. epoch' \in Nat /\ state' = [epoch |-> epoch', registers |-> regs']
  BY DEF refresh_state, TypeOK
<1>6. TypeOK'
  BY <1>2, <1>4, <1>5 DEF TypeOK
<1>7. LiveSnapshot'
  BY <1>1, <1>5 DEF LiveSnapshot, NoPages
<1>8. PreviousGeneration'
  <2>1. hist'.was = hist.snap /\ hist'.wasClean = hist.clean
    BY <1>3
  <2>2. hist.clean => \A p \in DOMAIN cur : PartOf(cur[p], hist.snap, p)
    BY DEF LiveSnapshot, SnapIsLive
  <2>3. QED
    BY <1>1, <2>1, <2>2 DEF PreviousGeneration, PartOf
<1>9. SnapIsLive'
  BY <1>3 DEF SnapIsLive
<1>10. HaltedAtAttach'
  BY DEF HaltedAtAttach
<1>11. QED
  BY <1>6, <1>7, <1>8, <1>9, <1>10

\* A step that keeps both generations and leaves the view not clean.
LEMMA UncleanIInv ==
  ASSUME IInv, epoch > 0, UNCHANGED <<cur, prev, epoch, state>>,
         mem' \in Memory, regs' \in RegVal, running' \in BOOLEAN,
         reply' \in Replies, hist' \in History, hist'.clean = FALSE,
         hist'.was = hist.was, hist'.wasClean = hist.wasClean
  PROVE  IInv'
<1>1. TypeOK'
  BY DEF IInv, TypeOK, IsGeneration
<1>2. PreviousGeneration'
  BY DEF IInv, PreviousGeneration, PartOf
<1>3. QED
  BY <1>1, <1>2 DEF IInv, LiveSnapshot, SnapIsLive, HaltedAtAttach, TypeOK

\* A call that only fills cur_ and answers.
LEMMA CallIInv ==
  ASSUME IInv, NEW pages \in SUBSET Page, NEW fetched \in Fetches(pages),
         NEW a, NEW I, cur' = Keep(a, I, read_page(fetched)),
         UNCHANGED <<prev, guest, epoch, state, hist>>, reply' \in Replies
  PROVE  IInv'
<1>1. /\ IsGeneration(cur')
      /\ hist.clean => \A p \in DOMAIN cur' : PartOf(cur'[p], mem, p)
  BY KeptPages DEF IInv
<1>2. TypeOK'
  BY <1>1 DEF IInv, TypeOK, guest, IsGeneration
<1>3. LiveSnapshot'
  BY <1>1 DEF IInv, LiveSnapshot, guest, PartOf
<1>4. PreviousGeneration' /\ SnapIsLive'
  BY DEF IInv, PreviousGeneration, SnapIsLive, guest, PartOf
<1>5. HaltedAtAttach'
  BY DEF IInv, HaltedAtAttach, guest
<1>6. QED
  BY <1>2, <1>3, <1>4, <1>5 DEF IInv

\* The replies the actions form.
LEMMA ReplyTypes ==
  /\ [op |-> "none"] \in Replies
  /\ [op |-> "err"] \in Replies
  /\ \A kind : [op |-> "stop", kind |-> to_proto_stop_reply(kind)] \in Replies
  /\ \A r \in Ranges, v \in Verdict :
       [op |-> "changed", addr |-> r[1], len |-> r[2], verdict |-> v] \in Replies
  /\ \A r \in Ranges : \A b \in [0 .. r[2] - 1 -> Byte \cup {0}] :
       [op |-> "read", addr |-> r[1], bytes |-> b] \in Replies
<1>1. [op |-> "none"] \in Replies /\ [op |-> "err"] \in Replies
  BY DEF Replies
<1>2. ASSUME NEW kind
      PROVE  [op |-> "stop", kind |-> to_proto_stop_reply(kind)] \in Replies
  <2>1. to_proto_stop_reply(kind) \in WireKind
    BY DEF to_proto_stop_reply, WireKind
  <2>2. QED
    BY <2>1 DEF Replies
<1>3. ASSUME NEW r \in Ranges, NEW v \in Verdict
      PROVE  [op |-> "changed", addr |-> r[1], len |-> r[2], verdict |-> v] \in Replies
  <2>1. [op |-> "changed", addr |-> r[1], len |-> r[2], verdict |-> v] \in ScanReplies(r)
    BY DEF ScanReplies
  <2>2. ScanReplies(r) \subseteq UNION { ScanReplies(q) : q \in Ranges }
    BY Zenon
  <2>3. UNION { ScanReplies(q) : q \in Ranges } \subseteq Replies
    BY Zenon DEF Replies
  <2>4. QED
    BY <2>1, <2>2, <2>3
<1>4. ASSUME NEW r \in Ranges, NEW b \in [0 .. r[2] - 1 -> Byte \cup {0}]
      PROVE  [op |-> "read", addr |-> r[1], bytes |-> b] \in Replies
  <2>1. [op |-> "read", addr |-> r[1], bytes |-> b] \in ReadReplies(r)
    BY DEF ReadReplies
  <2>2. ReadReplies(r) \subseteq UNION { ReadReplies(q) : q \in Ranges }
    BY Zenon
  <2>3. UNION { ReadReplies(q) : q \in Ranges } \subseteq Replies
    BY Zenon DEF Replies
  <2>4. QED
    BY <2>1, <2>2, <2>3
<1>5. QED
  BY <1>1, <1>2, <1>3, <1>4

\* The history after a failed flow call.
LEMMA UncleanHistory ==
  ASSUME hist \in History
  PROVE  LET h == [hist EXCEPT !.moves = @ + 1, !.clean = FALSE]
         IN  /\ h \in History /\ h.clean = FALSE
             /\ h.was = hist.was /\ h.wasClean = hist.wasClean
<1>1. hist.moves + 1 \in Nat
  BY DEF History
<1>2. ASSUME NEW m \in Nat, NEW c \in BOOLEAN
      PROVE  [hist EXCEPT !.moves = m, !.clean = c] \in History
  BY DEF History
<1>3. LET h == [hist EXCEPT !.moves = @ + 1, !.clean = FALSE]
      IN  h.clean = FALSE /\ h.was = hist.was /\ h.wasClean = hist.wasClean
  BY DEF History
<1>4. [hist EXCEPT !.moves = @ + 1, !.clean = FALSE] \in History
  BY <1>1, <1>2
<1>5. QED
  BY <1>3, <1>4

\* A flow call keeps the inductive invariant, whichever way it ends.
LEMMA FlowIInv == IInv /\ cont_step => IInv'
<1> SUFFICES ASSUME IInv, cont_step PROVE IInv'
  OBVIOUS
<1>t. hist \in History /\ running \in BOOLEAN /\ TypeOK
  BY DEF IInv, TypeOK
<1>1. CASE FlowHalts
  <2>1. mem' \in Memory /\ regs' \in RegVal
    BY <1>1, <1>t, ExecutesType DEF FlowHalts
  <2>2. reply' \in Replies
    BY <1>1, ReplyTypes DEF FlowHalts
  <2>3. hist.moves + 1 \in Nat
    BY <1>t DEF History
  <2>4. running' = FALSE /\ refresh_state(hist.moves + 1)
    BY <1>1 DEF FlowHalts
  <2>5. QED
    BY <2>1, <2>2, <2>3, <2>4, RefreshIInv
<1>2. CASE FlowUnreadable
  <2>1. mem' \in Memory /\ regs' \in RegVal
    BY <1>2, <1>t, ExecutesType DEF FlowUnreadable
  <2>2. /\ hist' \in History /\ hist'.clean = FALSE
        /\ hist'.was = hist.was /\ hist'.wasClean = hist.wasClean
    BY <1>2, <1>t, UncleanHistory DEF FlowUnreadable
  <2>3. UNCHANGED <<cur, prev, epoch, state>> /\ running' = FALSE /\ reply' \in Replies /\ epoch > 0
    BY <1>2, ReplyTypes DEF FlowUnreadable, Idle, attached
  <2>4. QED
    BY <2>1, <2>2, <2>3, UncleanIInv
<1>3. CASE FlowLost
  <2>1. mem' \in Memory /\ regs' \in RegVal
    BY <1>3, <1>t, ExecutesType DEF FlowLost
  <2>2. /\ hist' \in History /\ hist'.clean = FALSE
        /\ hist'.was = hist.was /\ hist'.wasClean = hist.wasClean
    BY <1>3, <1>t, UncleanHistory DEF FlowLost
  <2>3. UNCHANGED <<cur, prev, epoch, state>> /\ running' = TRUE /\ reply' \in Replies /\ epoch > 0
    BY <1>3, ReplyTypes DEF FlowLost, Idle, attached
  <2>4. QED
    BY <2>1, <2>2, <2>3, UncleanIInv
<1>4. CASE FlowRefused
  <2>1. reply' \in Replies
    BY <1>4, ReplyTypes DEF FlowRefused
  <2>2. UNCHANGED <<cur, prev, guest, epoch, state, hist>>
    BY <1>4 DEF FlowRefused
  <2>3. QED
    BY <2>1, <2>2 DEF IInv, TypeOK, IsGeneration, LiveSnapshot, PreviousGeneration,
                      SnapIsLive, HaltedAtAttach, PartOf, guest
<1>5. QED
  BY <1>1, <1>2, <1>3, <1>4 DEF cont_step

\* A read keeps the inductive invariant, whichever of its pages it gets.
LEMMA ReadIInv ==
  ASSUME IInv, NEW r \in Ranges, read_memory(r[1], r[2])
  PROVE  IInv'
<1>1. r[1] \in Addr /\ r[2] \in Nat
  BY RangesAssumption
<1> DEFINE pages == Missing(r[1], ReadIndices(r[1], r[2]))
<1>2. pages \in SUBSET Page
  BY <1>1, LoopIndices, MissingPages
<1> HIDE DEF pages
<1>3. PICK fetched \in Fetches(pages) :
        LET got == read_page(fetched)
        IN  /\ cur' = Keep(r[1], ReadReached(r[1], r[2], got), got)
            /\ reply' = IF ReadOk(r[1], r[2], got)
                        THEN [op |-> "read", addr |-> r[1],
                              bytes |-> ReadBytes(r[1], r[2], got)]
                        ELSE [op |-> "err"]
  BY DEF read_memory, pages
<1>4. reply' \in Replies
  <2>1. CASE ReadOk(r[1], r[2], read_page(fetched))
    <3>1. ReadBytes(r[1], r[2], read_page(fetched)) \in [0 .. r[2] - 1 -> Byte \cup {0}]
      BY <1>2, <2>1, ServedRange DEF IInv
    <3>2. QED
      BY <1>3, <2>1, <3>1, ReplyTypes
  <2>2. CASE ~ReadOk(r[1], r[2], read_page(fetched))
    BY <1>3, <2>2, ReplyTypes
  <2>3. QED
    BY <2>1, <2>2
<1>5. UNCHANGED <<prev, guest, epoch, state, hist>>
  BY DEF read_memory
<1>6. QED
  BY <1>2, <1>3, <1>4, <1>5, CallIInv

\* A change query keeps the inductive invariant, wherever its scan stops.
LEMMA ScanIInv ==
  ASSUME IInv, NEW r \in Ranges, memory_changed(r[1], r[2])
  PROVE  IInv'
<1>1. r[1] \in Addr /\ r[2] \in Nat
  BY RangesAssumption
<1>2. UNCHANGED <<prev, guest, epoch, state, hist>>
  BY DEF memory_changed
<1>3. CASE r[2] = 0
  <2>1. reply' = [op |-> "changed", addr |-> r[1], len |-> r[2], verdict |-> "same"]
        /\ UNCHANGED cur
    BY <1>3 DEF memory_changed
  <2>2. reply' \in Replies
    BY <2>1, ReplyTypes DEF Verdict
  <2>3. QED
    BY <1>2, <2>1, <2>2 DEF IInv, TypeOK, IsGeneration, LiveSnapshot, PreviousGeneration,
                            SnapIsLive, HaltedAtAttach, PartOf, guest
<1>4. CASE r[2] > 0
  <2> DEFINE pages == Missing(r[1], ScanIndices(r[1], r[2]))
  <2>1. pages \in SUBSET Page
    BY <1>1, <1>4, LoopIndices, MissingPages
  <2> HIDE DEF pages
  <2>2. PICK fetched \in Fetches(pages) :
          LET got == read_page(fetched)
          IN  /\ reply' = [op |-> "changed", addr |-> r[1], len |-> r[2],
                           verdict |-> ScanVerdict(r[1], r[2], got)]
              /\ cur' = Keep(r[1], ScanReached(r[1], r[2], got), got)
    BY <1>1, <1>4 DEF memory_changed, pages
  <2>3. ScanVerdict(r[1], r[2], read_page(fetched)) \in Verdict
    BY DEF ScanVerdict, Verdict
  <2>4. reply' \in Replies
    BY <2>2, <2>3, ReplyTypes
  <2>5. QED
    BY <1>2, <2>1, <2>2, <2>4, CallIInv
<1>5. QED
  BY <1>1, <1>3, <1>4

\* Every step keeps the inductive invariant.
LEMMA NextIInv == IInv /\ [Next]_vars => IInv'
<1> SUFFICES ASSUME IInv, [Next]_vars PROVE IInv'
  OBVIOUS
<1>t. TypeOK
  BY DEF IInv
<1>1. CASE attach
  <2>1. mem' \in Memory /\ regs' \in RegVal /\ running' = FALSE
        /\ refresh_state(hist.moves)
    BY <1>1, <1>t DEF attach, guest, TypeOK, IInv, HaltedAtAttach
  <2>2. hist.moves \in Nat /\ reply' \in Replies
    BY <1>1, <1>t, ReplyTypes DEF attach, TypeOK, History
  <2>3. QED
    BY <2>1, <2>2, RefreshIInv
<1>2. CASE cont_step
  BY <1>2, FlowIInv
<1>3. CASE \E r \in Ranges : read_memory(r[1], r[2])
  BY <1>3, ReadIInv
<1>4. CASE \E r \in Ranges : memory_changed(r[1], r[2])
  BY <1>4, ScanIInv
<1>5. CASE LostGuestRuns
  <2>1. mem' \in Memory /\ regs' \in RegVal
    BY <1>5, <1>t, ExecutesType DEF LostGuestRuns
  <2>2. hist.clean = FALSE
    BY <1>5, <1>t DEF IInv, LiveSnapshot, LostGuestRuns, TypeOK, History
  <2>3. /\ hist' \in History /\ hist'.clean = FALSE
        /\ hist'.was = hist.was /\ hist'.wasClean = hist.wasClean
    BY <1>5, <1>t, <2>2 DEF LostGuestRuns, History, TypeOK
  <2>4. UNCHANGED <<cur, prev, epoch, state>> /\ running' \in BOOLEAN /\ reply' \in Replies
    BY <1>5, <1>t DEF LostGuestRuns, TypeOK
  <2>5. epoch > 0
    BY <1>5, <1>t DEF LostGuestRuns, TypeOK, IInv, HaltedAtAttach
  <2>6. QED
    BY <2>1, <2>3, <2>4, <2>5, UncleanIInv
<1>6. CASE LostGuestHalts
  <2>1. mem' \in Memory /\ regs' \in RegVal
    BY <1>6, <1>t DEF LostGuestHalts, TypeOK
  <2>2. hist.clean = FALSE
    BY <1>6, <1>t DEF IInv, LiveSnapshot, LostGuestHalts, TypeOK, History
  <2>3. /\ hist' \in History /\ hist'.clean = FALSE
        /\ hist'.was = hist.was /\ hist'.wasClean = hist.wasClean
    BY <1>6, <1>t, <2>2 DEF LostGuestHalts, History, TypeOK
  <2>4. UNCHANGED <<cur, prev, epoch, state>> /\ running' \in BOOLEAN /\ reply' \in Replies
    BY <1>6, <1>t DEF LostGuestHalts, TypeOK
  <2>5. epoch > 0
    BY <1>6, <1>t DEF LostGuestHalts, TypeOK, IInv, HaltedAtAttach
  <2>6. QED
    BY <2>1, <2>3, <2>4, <2>5, UncleanIInv
<1>7. CASE Spin \/ UNCHANGED vars
  <2>1. UNCHANGED vars
    BY <1>7 DEF Spin
  <2>2. QED
    BY <2>1 DEF vars, IInv, TypeOK, IsGeneration, LiveSnapshot, PreviousGeneration,
                SnapIsLive, HaltedAtAttach, PartOf
<1>8. QED
  BY <1>1, <1>2, <1>3, <1>4, <1>5, <1>6, <1>7 DEF Next

(***************************************************************************)
(* The Target's state has its type at all times.                           *)
(***************************************************************************)
THEOREM TargetTypeOK == Spec => []TypeOK
<1>1. IInv => TypeOK
  BY DEF IInv
<1>2. QED
  BY InitIInv, NextIInv, <1>1, PTL DEF Spec

(***************************************************************************)
(* In an epoch in which no cont()/step() failed, the registers and every   *)
(* cached page a Target serves are the guest's own, however the reads and  *)
(* failed page fetches of the epoch were ordered.                          *)
(***************************************************************************)
THEOREM TargetLiveSnapshot == Spec => []LiveSnapshot
<1>1. IInv => LiveSnapshot
  BY DEF IInv
<1>2. QED
  BY InitIInv, NextIInv, <1>1, PTL DEF Spec

(***************************************************************************)
(* The generation memory_changed compares with holds pages of the epoch    *)
(* just before, never of an older one.                                     *)
(***************************************************************************)
THEOREM TargetPreviousGeneration == Spec => []PreviousGeneration
<1>1. IInv => PreviousGeneration
  BY DEF IInv
<1>2. QED
  BY InitIInv, NextIInv, <1>1, PTL DEF Spec

----------------------------------------------------------------------------
(***************************************************************************)
(* The change query                                                        *)
(***************************************************************************)
\* The least-number principle, from the library's well-founded minimum.
LEMMA LeastNatural ==
  ASSUME NEW S \in SUBSET Nat, S # {}
  PROVE  \E m \in S : \A k \in S : m <= k
<1>1. PICK R : IsWellFoundedOn(R, Nat) /\ \A x, y \in Nat : y < x => <<y, x>> \in R
  <2>1. IsWellFoundedOn(OpToRel(<, Nat), Nat)
    BY NatLessThanWellFounded
  <2>2. \A x, y \in Nat : y < x => <<y, x>> \in OpToRel(<, Nat)
    BY DEF OpToRel
  <2>3. QED
    BY <2>1, <2>2
<1>2. PICK m \in S : \A k \in S : ~(<<k, m>> \in R)
  BY <1>1, WFMin
<1>3. \A k \in S : ~(k < m)
  BY <1>1, <1>2
<1>4. QED
  BY <1>3

\* Two reads of a page of equal length from equal memory are equal.
LEMMA EqualReads ==
  ASSUME NEW p, NEW x \in Seq(Byte), NEW y \in Seq(Byte), NEW m, NEW n,
         PartOf(x, m, p), PartOf(y, n, p), Len(x) = Len(y),
         PageBytes(m, p) = PageBytes(n, p)
  PROVE  x = y
<1>1. ASSUME NEW o \in 1 .. Len(x) PROVE x[o] = y[o]
  <2>1. o \in 1 .. PageSize
    BY PageSizeAssumption DEF PartOf
  <2>2. x[o] = PageBytes(m, p)[o] /\ y[o] = PageBytes(n, p)[o]
    BY <2>1 DEF PartOf, PageBytes
  <2>3. QED
    BY <2>2
<1>2. QED
  BY <1>1

\* A scan that answers "changed" has kept a page that differs from its old bytes.
LEMMA ChangedKeepsWitness ==
  ASSUME NEW a, NEW n, NEW got, cur' = Keep(a, ScanReached(a, n, got), got),
         ScanVerdict(a, n, got) = "changed"
  PROVE  \E i \in ScanIndices(a, n) :
           /\ PageAfter(a, i) \in DOMAIN cur' \cap DOMAIN got \cap DOMAIN prev
           /\ cur'[PageAfter(a, i)] = got[PageAfter(a, i)]
           /\ got[PageAfter(a, i)] # prev[PageAfter(a, i)]
<1>1. PICK i \in ScanReached(a, n, got) : PageAfter(a, i) \in DOMAIN got
                                          /\ Differs(PageAfter(a, i), got)
  BY DEF ScanVerdict
<1>2. i \in ScanIndices(a, n)
  BY DEF ScanReached
<1>3. PageAfter(a, i) \in DOMAIN cur' /\ cur'[PageAfter(a, i)] = got[PageAfter(a, i)]
  BY <1>1 DEF Keep
<1>4. QED
  BY <1>1, <1>2, <1>3 DEF Differs

\* What a scan of a non-empty range does, as the lemmas below need it.
LEMMA ScanStep ==
  ASSUME IInv, NEW r \in Ranges, r[2] > 0, memory_changed(r[1], r[2])
  PROVE  /\ r[1] \in Addr /\ r[2] \in Nat
         /\ UNCHANGED <<prev, guest, epoch, state, hist>>
         /\ IInv'
         /\ \E got :
              /\ DOMAIN got \subseteq Page
              /\ \A p \in DOMAIN got : got[p] \in Seq(Byte)
              /\ hist.clean => \A p \in DOMAIN got : PartOf(got[p], mem, p)
              /\ reply' = [op |-> "changed", addr |-> r[1], len |-> r[2],
                           verdict |-> ScanVerdict(r[1], r[2], got)]
              /\ cur' = Keep(r[1], ScanReached(r[1], r[2], got), got)
              /\ DOMAIN cur' \subseteq DOMAIN got
              /\ \A p \in DOMAIN cur' : cur'[p] = got[p]
<1>1. r[1] \in Addr /\ r[2] \in Nat
  BY RangesAssumption
<1>2. UNCHANGED <<prev, guest, epoch, state, hist>> /\ IInv'
  BY ScanIInv DEF memory_changed
<1> DEFINE pages == Missing(r[1], ScanIndices(r[1], r[2]))
<1>3. pages \in SUBSET Page
  BY <1>1, LoopIndices, MissingPages
<1> HIDE DEF pages
<1>4. PICK fetched \in Fetches(pages) :
        LET got == read_page(fetched)
        IN  /\ reply' = [op |-> "changed", addr |-> r[1], len |-> r[2],
                         verdict |-> ScanVerdict(r[1], r[2], got)]
            /\ cur' = Keep(r[1], ScanReached(r[1], r[2], got), got)
  BY <1>1 DEF memory_changed, pages
<1> DEFINE got == read_page(fetched)
<1>5. /\ DOMAIN cur \subseteq DOMAIN got
      /\ DOMAIN got \subseteq Page
      /\ \A p \in DOMAIN got : got[p] \in Seq(Byte)
      /\ hist.clean => \A p \in DOMAIN got : PartOf(got[p], mem, p)
  BY <1>3, GotPages DEF IInv
<1>6. /\ reply' = [op |-> "changed", addr |-> r[1], len |-> r[2],
                   verdict |-> ScanVerdict(r[1], r[2], got)]
      /\ cur' = Keep(r[1], ScanReached(r[1], r[2], got), got)
  BY <1>4
<1> HIDE DEF got
<1>7. DOMAIN cur' \subseteq DOMAIN got /\ \A p \in DOMAIN cur' : cur'[p] = got[p]
  BY <1>5, <1>6 DEF Keep
<1>8. QED
  BY <1>1, <1>2, <1>5, <1>6, <1>7

\* A scan of a non-empty range invents no change.
LEMMA ScanIsReal ==
  ASSUME IInv, NEW r \in Ranges, r[2] > 0, memory_changed(r[1], r[2])
  PROVE  ChangeIsReal'
<1>1. PICK got :
        /\ \A p \in DOMAIN got : got[p] \in Seq(Byte)
        /\ hist.clean => \A p \in DOMAIN got : PartOf(got[p], mem, p)
        /\ reply' = [op |-> "changed", addr |-> r[1], len |-> r[2],
                     verdict |-> ScanVerdict(r[1], r[2], got)]
        /\ cur' = Keep(r[1], ScanReached(r[1], r[2], got), got)
  BY ScanStep
<1>2. UNCHANGED <<prev, mem, hist>>
  BY DEF memory_changed, guest
<1> SUFFICES ASSUME Comparable', reply'.verdict = "changed"
             PROVE  \E p \in ScannedPages' \cap DOMAIN cur' \cap DOMAIN prev' :
                      \/ PageBytes(mem', p) # PageBytes(hist'.was, p)
                      \/ Len(cur'[p]) # Len(prev'[p])
  BY DEF ChangeIsReal, PageBytes
<1>3. PICK i \in ScanIndices(r[1], r[2]) :
           /\ PageAfter(r[1], i) \in DOMAIN cur' \cap DOMAIN got \cap DOMAIN prev
           /\ cur'[PageAfter(r[1], i)] = got[PageAfter(r[1], i)]
           /\ got[PageAfter(r[1], i)] # prev[PageAfter(r[1], i)]
  BY <1>1, ChangedKeepsWitness
<1> DEFINE p == PageAfter(r[1], i)
<1>4. p \in ScannedPages' \cap DOMAIN cur' \cap DOMAIN prev'
  BY <1>1, <1>2, <1>3 DEF ScannedPages, PageAfter, ScanIndices, Endless, LastPage, PageOf
<1>5. got[p] \in Seq(Byte) /\ PartOf(got[p], mem, p)
  BY <1>1, <1>2, <1>3 DEF Comparable
<1>6. prev[p] \in Seq(Byte) /\ PartOf(prev[p], hist.was, p)
  BY <1>2, <1>3 DEF IInv, TypeOK, IsGeneration, PreviousGeneration, Comparable
<1> HIDE DEF p
<1>7. ASSUME Len(got[p]) = Len(prev[p]) PROVE PageBytes(mem, p) # PageBytes(hist.was, p)
  BY <1>3, <1>5, <1>6, <1>7, EqualReads DEF p
<1>8. QED
  BY <1>2, <1>3, <1>4, <1>7 DEF p

\* A later address lies on the same page or a later one.
LEMMA PageMonotone ==
  ASSUME NEW a \in Nat, NEW b \in Nat, a <= b
  PROVE  PageOf(a) <= PageOf(b)
<1> DEFINE p == PageOf(a)
           q == PageOf(b)
<1>1. p \in Nat /\ a % PageSize \in 0 .. PageSize - 1 /\ a = PageSize * p + (a % PageSize)
  BY PageDivMod
<1>2. q \in Nat /\ b % PageSize \in 0 .. PageSize - 1 /\ b = PageSize * q + (b % PageSize)
  BY PageDivMod
<1> HIDE DEF p, q
<1>3. PageSize * p < PageSize * (q + 1)
  BY <1>1, <1>2, PageSizeAssumption
<1>4. p < q + 1
  BY <1>1, <1>2, <1>3, PageSizeAssumption
<1>5. QED
  BY <1>1, <1>2, <1>4 DEF p, q

\* The page of an address of a range that does not wrap is one the scan visits.
LEMMA ScanVisits ==
  ASSUME NEW addr \in Addr, NEW len \in Nat \ {0},
         addr .. addr + len - 1 \subseteq Addr, NEW a \in addr .. addr + len - 1
  PROVE  /\ PageOf(a) - PageOf(addr) \in Nat
         /\ 0 .. PageOf(a) - PageOf(addr) \subseteq ScanIndices(addr, len)
<1>1. addr \in Nat /\ a \in Addr /\ a \in Nat /\ addr + len - 1 \in Addr
  BY SizePositive DEF Addr
<1>2. PageOf(addr) \in Page /\ PageOf(a) \in Page
  BY <1>1, AddrInPage
<1>3. PageOf(addr) <= PageOf(a) /\ PageOf(a) <= PageOf(addr + len - 1)
  BY <1>1, PageMonotone
<1>4. (addr + len - 1) % Size = addr + len - 1
  <2>1. Size * 0 + (addr + len - 1) = addr + len - 1
    BY <1>1, SizePositive
  <2>2. (Size * 0 + (addr + len - 1)) % Size = addr + len - 1
    BY <1>1, DivUnique, SizePositive DEF Addr
  <2>3. QED
    BY <2>1, <2>2
<1>5. LastPage(addr, len) = PageOf(addr + len - 1)
  BY <1>4 DEF LastPage
<1>6. PageOf(addr + len - 1) \in Page
  BY <1>1, AddrInPage
<1>7. QED
  BY <1>2, <1>3, <1>5, <1>6, NPagesAssumption DEF ScanIndices, Page

\* Every page between is the page of some address of the range.
LEMMA PagesBetween ==
  ASSUME NEW addr \in Addr, NEW len \in Nat \ {0},
         addr .. addr + len - 1 \subseteq Addr, NEW a \in addr .. addr + len - 1,
         NEW j \in 0 .. PageOf(a) - PageOf(addr)
  PROVE  /\ PageAfter(addr, j) = PageOf(addr) + j
         /\ \E b \in addr .. addr + len - 1 : PageOf(b) = PageAfter(addr, j)
<1> DEFINE q == PageOf(addr)
           p == PageOf(a)
<1>1. addr \in Nat /\ a \in Addr /\ a \in Nat
  BY SizePositive DEF Addr
<1>2. q \in Page /\ addr % PageSize \in 0 .. PageSize - 1
      /\ addr = PageSize * q + (addr % PageSize)
  BY <1>1, PageDivMod, AddrInPage
<1>3. p \in Page /\ a % PageSize \in 0 .. PageSize - 1
      /\ a = PageSize * p + (a % PageSize)
  BY <1>1, PageDivMod, AddrInPage
<1>4. j \in 0 .. p - q
  OBVIOUS
<1> HIDE DEF p, q
<1>5. q + j \in Page
  BY <1>2, <1>3, <1>4, NPagesAssumption DEF Page
<1>6. (q + j) % NPages = q + j
  <2>1. NPages * 0 + (q + j) = q + j
    BY <1>5, NPagesAssumption DEF Page
  <2>2. (NPages * 0 + (q + j)) % NPages = q + j
    BY <1>5, DivUnique, NPagesAssumption DEF Page
  <2>3. QED
    BY <2>1, <2>2
<1>7. PageAfter(addr, j) = q + j
  BY <1>6 DEF PageAfter, q
<1>8. CASE j = 0
  <2>1. addr \in addr .. addr + len - 1 /\ PageOf(addr) = q + j
    BY <1>1, <1>2, <1>8, NPagesAssumption DEF Page, q
  <2>2. QED
    BY <1>7, <2>1 DEF q
<1>9. CASE j # 0
  <2> DEFINE b == PageSize * (q + j)
  <2>1. PageOf(b) = q + j
    <3>1. q + j \in Nat /\ 0 \in 0 .. PageSize - 1
      BY <1>5, NPagesAssumption, PageSizeAssumption DEF Page
    <3>2. (PageSize * (q + j) + 0) \div PageSize = q + j
      BY <3>1, DivUnique, PageSizeAssumption
    <3>3. PageSize * (q + j) + 0 = PageSize * (q + j)
      BY <3>1, PageSizeAssumption
    <3>4. QED
      BY <3>2, <3>3 DEF PageOf
  <2>2. PageSize * (q + j) <= PageSize * p
    BY <1>2, <1>3, <1>4, PageSizeAssumption, NPagesAssumption DEF Page
  <2>3. PageSize * q + PageSize <= PageSize * (q + j)
    BY <1>2, <1>4, <1>9, PageSizeAssumption, NPagesAssumption DEF Page
  <2>4. b \in Nat
    BY <1>5, NPagesAssumption, PageSizeAssumption DEF Page
  <2>5. b <= a
    BY <1>1, <1>3, <2>2, <2>4, NPagesAssumption, PageSizeAssumption DEF Page
  <2>6. addr <= b
    BY <1>1, <1>2, <2>3, <2>4, NPagesAssumption, PageSizeAssumption DEF Page
  <2>7. b \in addr .. addr + len - 1
    BY <1>1, <2>4, <2>5, <2>6
  <2> HIDE DEF b
  <2>8. QED
    BY <1>7, <2>1, <2>7 DEF q
<1>10. QED
  BY <1>7, <1>8, <1>9 DEF q

\* A scan stops at one page only, so a page found different is the answer.
LEMMA DifferenceIsAnswered ==
  ASSUME NEW addr \in Addr, NEW len \in Nat \ {0}, NEW got,
         NEW i \in ScanReached(addr, len, got),
         PageAfter(addr, i) \in DOMAIN got, Differs(PageAfter(addr, i), got)
  PROVE  ScanVerdict(addr, len, got) = "changed"
<1> DEFINE reached == ScanReached(addr, len, got)
           changed == \E j \in reached : PageAfter(addr, j) \in DOMAIN got
                                         /\ Differs(PageAfter(addr, j), got)
           missing == \E j \in reached : PageAfter(addr, j) \notin DOMAIN got
<1>1. reached \in SUBSET Nat
  BY LoopIndices DEF ScanReached
<1>2. ~missing
  <2>1. SUFFICES ASSUME NEW j \in reached, PageAfter(addr, j) \notin DOMAIN got
                 PROVE  FALSE
    OBVIOUS
  <2>2. i \in Nat /\ j \in Nat /\ i # j
    BY <1>1, <2>1
  <2>3. CASE i < j
    BY <2>2, <2>3, i \in 0 .. j - 1 DEF ScanReached, Ends
  <2>4. CASE j < i
    BY <2>1, <2>2, <2>4, j \in 0 .. i - 1 DEF ScanReached, Ends
  <2>5. QED
    BY <2>2, <2>3, <2>4
<1>3. changed
  OBVIOUS
<1>4. ScanVerdict(addr, len, got)
        = CASE changed -> "changed"
            [] missing -> "same"
            [] OTHER -> IF Endless(addr, len) THEN "hang" ELSE "same"
  BY Zenon DEF ScanVerdict
<1> HIDE DEF changed, missing
<1>5. QED
  BY <1>2, <1>3, <1>4

(***************************************************************************)
(* A scan that does not answer "changed" has compared every page of a      *)
(* range whose pages it could read: the first page to stop it would have   *)
(* been unreadable or different.                                           *)
(***************************************************************************)
LEMMA ScanComparesAll ==
  ASSUME NEW addr \in Addr, NEW len \in Nat \ {0}, NEW got,
         addr .. addr + len - 1 \subseteq Addr,
         ScanVerdict(addr, len, got) # "changed",
         \A b \in addr .. addr + len - 1 : PageOf(b) \in DOMAIN got,
         NEW a \in addr .. addr + len - 1
  PROVE  ~Differs(PageOf(a), got)
<1> DEFINE i == PageOf(a) - PageOf(addr)
           stops == { j \in 0 .. i : Ends(PageAfter(addr, j), got) }
<1>1. i \in Nat /\ 0 .. i \subseteq ScanIndices(addr, len)
  BY ScanVisits
<1>2. \A j \in 0 .. i : /\ PageAfter(addr, j) = PageOf(addr) + j
                        /\ PageAfter(addr, j) \in DOMAIN got
  BY PagesBetween
<1>3. \A j \in 0 .. i : j \in ScanIndices(addr, len)
  BY <1>1
<1>4. \A j \in ScanReached(addr, len, got) :
        ~(PageAfter(addr, j) \in DOMAIN got /\ Differs(PageAfter(addr, j), got))
  BY DifferenceIsAnswered
<1>5. stops = {}
  <2>1. SUFFICES ASSUME stops # {} PROVE FALSE
    OBVIOUS
  <2>2. stops \in SUBSET Nat
    BY <1>1
  <2>3. PICK j \in stops : \A k \in stops : j <= k
    BY <2>1, <2>2, LeastNatural
  <2>4. j \in Nat /\ j \in 0 .. i /\ \A k \in 0 .. j - 1 : k \in 0 .. i /\ k \notin stops
    BY <1>1, <2>2, <2>3
  <2>5. j \in ScanReached(addr, len, got)
    BY <1>3, <2>4 DEF ScanReached
  <2>6. Ends(PageAfter(addr, j), got) /\ PageAfter(addr, j) \in DOMAIN got
    BY <1>2, <2>3, <2>4
  <2>7. QED
    BY <1>4, <2>5, <2>6 DEF Ends
<1>6. i \in 0 .. i /\ PageOf(addr) + i = PageOf(a)
  <2>1. PageOf(a) \in Page /\ PageOf(addr) \in Page
    BY AddrInPage
  <2>2. QED
    BY <1>1, <2>1, NPagesAssumption DEF Page
<1>7. PageAfter(addr, i) = PageOf(a)
  BY <1>2, <1>6
<1>8. ~Ends(PageOf(a), got)
  BY <1>5, <1>6, <1>7
<1>9. QED
  BY <1>8 DEF Ends

\* Two full, equal reads of a page witness equal pages.
LEMMA FullReadsAgree ==
  ASSUME NEW p, NEW x, NEW m, NEW n, PartOf(x, m, p), PartOf(x, n, p), Len(x) = PageSize
  PROVE  PageBytes(m, p) = PageBytes(n, p)
<1>1. \A o \in 1 .. PageSize : m[p * PageSize + o - 1] = n[p * PageSize + o - 1]
  BY DEF PartOf
<1>2. QED
  BY <1>1 DEF PageBytes

\* A scan of a non-empty range misses no change it has the data to see.
LEMMA ScanMissesNothing ==
  ASSUME IInv, NEW r \in Ranges, r[2] > 0, memory_changed(r[1], r[2])
  PROVE  NoChangeMissed'
<1> DEFINE range == r[1] .. r[1] + r[2] - 1
<1>1. PICK got :
        /\ hist.clean => \A p \in DOMAIN got : PartOf(got[p], mem, p)
        /\ reply' = [op |-> "changed", addr |-> r[1], len |-> r[2],
                     verdict |-> ScanVerdict(r[1], r[2], got)]
        /\ DOMAIN cur' \subseteq DOMAIN got
        /\ \A p \in DOMAIN cur' : cur'[p] = got[p]
  BY ScanStep
<1>2. r[1] \in Addr /\ r[2] \in Nat \ {0}
  BY RangesAssumption
<1>3. UNCHANGED <<prev, mem, hist>>
  BY DEF memory_changed, guest
<1>4. reply'.addr = r[1] /\ reply'.len = r[2]
      /\ reply'.verdict = ScanVerdict(r[1], r[2], got)
  BY <1>1
<1>5. SUFFICES ASSUME hist.clean, hist.wasClean,
                      ScanVerdict(r[1], r[2], got) # "changed",
                      range \subseteq Addr,
                      \A b \in range : PageOf(b) \in DOMAIN cur',
                      NEW a \in range, PageOf(a) \in DOMAIN prev,
                      Len(prev[PageOf(a)]) = PageSize
               PROVE  PageBytes(mem, PageOf(a)) = PageBytes(hist.was, PageOf(a))
  <2>1. Asked' = range
    BY <1>4 DEF Asked
  <2>2. AskedPages' = { PageOf(b) : b \in range }
    BY <2>1 DEF AskedPages, PageOf
  <2> HIDE DEF range
  <2>3. QED
    BY <1>3, <1>4, <2>1, <2>2
    DEF NoChangeMissed, Comparable, InOnePiece, AllReadable, PageBytes
<1>6. \A b \in range : PageOf(b) \in DOMAIN got
  BY <1>1, <1>5
<1>7. ~Differs(PageOf(a), got)
  BY <1>2, <1>5, <1>6, ScanComparesAll
<1>8. got[PageOf(a)] = prev[PageOf(a)]
  BY <1>5, <1>7 DEF Differs
<1>9. PartOf(prev[PageOf(a)], mem, PageOf(a))
  BY <1>1, <1>5, <1>6, <1>8
<1>10. PartOf(prev[PageOf(a)], hist.was, PageOf(a))
  BY <1>5 DEF IInv, PreviousGeneration
<1>11. QED
  BY <1>5, <1>9, <1>10, FullReadsAgree

----------------------------------------------------------------------------
(***************************************************************************)
(* The answer stays true while it is the last one: only a move of a lost   *)
(* guest keeps it, and the view is not clean then.                         *)
(***************************************************************************)
AnswersHold == ChangeIsReal /\ NoChangeMissed

\* Any other answer, and an unclean view, says nothing about changes.
LEMMA NotComparable == ~Comparable' => AnswersHold'
BY DEF AnswersHold, ChangeIsReal, NoChangeMissed

\* Every step keeps the last answer of the change query true.
LEMMA AnswersStep == IInv /\ AnswersHold /\ [Next]_vars => AnswersHold'
<1> SUFFICES ASSUME IInv, AnswersHold, [Next]_vars PROVE AnswersHold'
  OBVIOUS
<1>t. TypeOK /\ hist \in History
  BY DEF IInv, TypeOK
<1>1. CASE attach \/ cont_step
  <2>1. reply'.op # "changed"
    BY <1>1 DEF attach, cont_step, FlowHalts, FlowUnreadable, FlowLost, FlowRefused
  <2>2. QED
    BY <2>1, NotComparable DEF Comparable
<1>2. ASSUME NEW r \in Ranges, read_memory(r[1], r[2]) PROVE AnswersHold'
  <2>1. reply'.op # "changed"
    BY <1>2 DEF read_memory
  <2>2. QED
    BY <2>1, NotComparable DEF Comparable
<1>3. ASSUME NEW r \in Ranges, memory_changed(r[1], r[2]) PROVE AnswersHold'
  <2>1. r[2] \in Nat
    BY RangesAssumption
  <2>2. CASE r[2] = 0
    <3>1. reply'.len = 0
      BY <1>3, <2>2 DEF memory_changed
    <3>2. QED
      BY <3>1, NotComparable DEF Comparable
  <2>3. CASE r[2] > 0
    BY <1>3, <2>3, ScanIsReal, ScanMissesNothing DEF AnswersHold
  <2>4. QED
    BY <2>1, <2>2, <2>3
<1>4. CASE LostGuestRuns \/ LostGuestHalts
  <2>1. hist.clean = FALSE
    BY <1>4, <1>t DEF IInv, LiveSnapshot, LostGuestRuns, LostGuestHalts, TypeOK, History
  <2>2. hist'.clean = FALSE
    BY <1>4, <1>t, <2>1 DEF LostGuestRuns, LostGuestHalts, History
  <2>3. QED
    BY <2>2, NotComparable DEF Comparable
<1>5. CASE Spin \/ UNCHANGED vars
  <2>1. UNCHANGED vars
    BY <1>5 DEF Spin
  <2>2. QED
    BY <2>1 DEF vars, AnswersHold, ChangeIsReal, NoChangeMissed, Comparable, ScannedPages,
                PageBytes, PageAfter, PageOf, ScanIndices, Endless, LastPage,
                Asked, AskedPages, InOnePiece, AllReadable
<1>6. QED
  BY <1>1, <1>2, <1>3, <1>4, <1>5 DEF Next

\* Before the first query there is no answer to be wrong.
LEMMA AnswersInit == Init => AnswersHold
BY DEF Init, AnswersHold, ChangeIsReal, NoChangeMissed, Comparable

(***************************************************************************)
(* memory_changed invents no change: a "changed" answer names a page the   *)
(* guest changed between the two epochs, or one that a read cut short.     *)
(***************************************************************************)
THEOREM TargetChangeIsReal == Spec => []ChangeIsReal
<1>1. AnswersHold => ChangeIsReal
  BY DEF AnswersHold
<1>2. QED
  BY InitIInv, NextIInv, AnswersInit, AnswersStep, <1>1, PTL DEF Spec

(***************************************************************************)
(* memory_changed misses no page it has the data of: when the answer for a *)
(* readable range that does not wrap is not "changed", no page of it that  *)
(* was read in full in both epochs changed.                                *)
(***************************************************************************)
THEOREM TargetNoChangeMissed == Spec => []NoChangeMissed
<1>1. AnswersHold => NoChangeMissed
  BY DEF AnswersHold
<1>2. QED
  BY InitIInv, NextIInv, AnswersInit, AnswersStep, <1>1, PTL DEF Spec

----------------------------------------------------------------------------
(***************************************************************************)
(* Target implements StopEpoch                                             *)
(***************************************************************************)
\* A failed flow call is a Fail step that ends the view.
LEMMA UncleanIsFail ==
  ASSUME epoch > 0, UNCHANGED <<epoch, state>>, reply' = [op |-> "err"],
         mem' \in Memory, regs' \in RegVal, hist'.clean = FALSE
  PROVE  Abstract!Next
<1>1. Abstract!Guest
  BY DEF Abstract!Guest, Memory
<1>2. Abstract!Fail
  BY <1>1 DEF Abstract!Fail
<1>3. QED
  BY <1>2 DEF Abstract!Next

\* A refresh_state is a View step.
LEMMA RefreshIsView ==
  ASSUME NEW moves, refresh_state(moves),
         mem' \in Memory, regs' \in RegVal, reply'.op \in {"none", "stop"}
  PROVE  Abstract!Next
<1>1. Abstract!Guest
  BY DEF Abstract!Guest, Memory
<1>2. Abstract!View
  BY <1>1 DEF Abstract!View, refresh_state
<1>3. QED
  BY <1>2 DEF Abstract!Next

\* Every step is a step of StopEpoch or leaves what it shows alone.
LEMMA StepSimulation == IInv /\ [Next]_vars => [Abstract!Next]_(Abstract!vars)
<1> SUFFICES ASSUME IInv, [Next]_vars PROVE [Abstract!Next]_(Abstract!vars)
  OBVIOUS
<1>t. TypeOK /\ hist \in History
  BY DEF IInv, TypeOK
<1>1. CASE attach
  <2>1. mem' \in Memory /\ regs' \in RegVal /\ reply'.op \in {"none", "stop"}
    BY <1>1, <1>t DEF attach, guest, TypeOK
  <2>2. QED
    BY <1>1, <2>1, RefreshIsView DEF attach
<1>2. CASE FlowHalts
  <2>1. mem' \in Memory /\ regs' \in RegVal
    BY <1>2, <1>t, ExecutesType DEF FlowHalts
  <2>2. reply'.op \in {"none", "stop"}
    BY <1>2 DEF FlowHalts
  <2>3. QED
    BY <1>2, <2>1, <2>2, RefreshIsView DEF FlowHalts
<1>3. CASE FlowUnreadable
  <2>1. mem' \in Memory /\ regs' \in RegVal
    BY <1>3, <1>t, ExecutesType DEF FlowUnreadable
  <2>2. hist'.clean = FALSE
    BY <1>3, <1>t, UncleanHistory DEF FlowUnreadable
  <2>3. epoch > 0 /\ UNCHANGED <<epoch, state>> /\ reply' = [op |-> "err"]
    BY <1>3 DEF FlowUnreadable, Idle, attached
  <2>4. QED
    BY <2>1, <2>2, <2>3, UncleanIsFail
<1>4. CASE FlowLost
  <2>1. mem' \in Memory /\ regs' \in RegVal
    BY <1>4, <1>t, ExecutesType DEF FlowLost
  <2>2. hist'.clean = FALSE
    BY <1>4, <1>t, UncleanHistory DEF FlowLost
  <2>3. epoch > 0 /\ UNCHANGED <<epoch, state>> /\ reply' = [op |-> "err"]
    BY <1>4 DEF FlowLost, Idle, attached
  <2>4. QED
    BY <2>1, <2>2, <2>3, UncleanIsFail
<1>5. CASE FlowRefused
  <2>1. Abstract!Fail
    BY <1>5 DEF FlowRefused, Abstract!Fail, guest, Idle, attached
  <2>2. QED
    BY <2>1 DEF Abstract!Next
<1>6. ASSUME NEW r \in Ranges, read_memory(r[1], r[2])
      PROVE  Abstract!Next
  <2>1. r[1] \in Addr /\ r[2] \in Nat
    BY RangesAssumption
  <2> DEFINE pages == Missing(r[1], ReadIndices(r[1], r[2]))
  <2>2. pages \in SUBSET Page
    BY <2>1, LoopIndices, MissingPages
  <2> HIDE DEF pages
  <2>3. epoch > 0 /\ UNCHANGED <<guest, epoch, state, hist>>
    BY <1>6 DEF read_memory, Idle, attached
  <2>4. PICK fetched \in Fetches(pages) :
          LET got == read_page(fetched)
          IN  reply' = IF ReadOk(r[1], r[2], got)
                       THEN [op |-> "read", addr |-> r[1],
                             bytes |-> ReadBytes(r[1], r[2], got)]
                       ELSE [op |-> "err"]
    BY <1>6 DEF read_memory, pages
  <2>5. CASE ReadOk(r[1], r[2], read_page(fetched))
    <3> DEFINE bytes == ReadBytes(r[1], r[2], read_page(fetched))
    <3>1. /\ bytes \in [0 .. r[2] - 1 -> Byte \cup {0}]
          /\ hist.clean => \A i \in 0 .. r[2] - 1 :
                             bytes[i] \in {mem[(r[1] + i) % Size], 0}
      BY <2>2, <2>5, ServedRange DEF IInv
    <3> HIDE DEF bytes
    <3>2. reply' = [op |-> "read", addr |-> r[1], bytes |-> bytes]
      BY <2>4, <2>5 DEF bytes
    <3>3. Abstract!Read(r[1], r[2])
      BY <2>3, <3>1, <3>2 DEF Abstract!Read, guest
    <3>4. QED
      BY <3>3 DEF Abstract!Next
  <2>6. CASE ~ReadOk(r[1], r[2], read_page(fetched))
    <3>1. Abstract!Fail
      BY <2>3, <2>4, <2>6 DEF Abstract!Fail, guest
    <3>2. QED
      BY <3>1 DEF Abstract!Next
  <2>7. QED
    BY <2>5, <2>6
<1>7. ASSUME NEW r \in Ranges, memory_changed(r[1], r[2])
      PROVE  Abstract!Next
  <2>1. epoch > 0 /\ UNCHANGED <<guest, epoch, state, hist>>
    BY <1>7 DEF memory_changed, Idle, attached
  <2>2. reply'.op = "changed"
    BY <1>7 DEF memory_changed
  <2>3. Abstract!Compare
    BY <2>1, <2>2 DEF Abstract!Compare, guest
  <2>4. QED
    BY <2>3 DEF Abstract!Next
<1>8. CASE LostGuestRuns
  <2>1. mem' \in Memory /\ regs' \in RegVal
    BY <1>8, <1>t, ExecutesType DEF LostGuestRuns
  <2>2. hist.clean = FALSE
    BY <1>8, <1>t DEF IInv, LiveSnapshot, LostGuestRuns, TypeOK, History
  <2>3. hist'.clean = hist.clean /\ UNCHANGED <<epoch, state, reply>>
    BY <1>8, <1>t DEF LostGuestRuns, History
  <2>4. Abstract!Drift
    BY <2>1, <2>2, <2>3 DEF Abstract!Drift, Abstract!Guest, Memory
  <2>5. QED
    BY <2>4 DEF Abstract!Next
<1>9. CASE LostGuestHalts
  <2>1. hist'.clean = hist.clean /\ UNCHANGED <<mem, regs, epoch, state, reply>>
    BY <1>9, <1>t DEF LostGuestHalts, History
  <2>2. QED
    BY <2>1 DEF Abstract!vars
<1>10. CASE Spin \/ UNCHANGED vars
  BY <1>10 DEF Spin, vars, Abstract!vars
<1>11. QED
  BY <1>1, <1>2, <1>3, <1>4, <1>5, <1>6, <1>7, <1>8, <1>9, <1>10 DEF Next, cont_step

(***************************************************************************)
(* Callers cannot tell a Target from a StopEpoch: lazily filled, page      *)
(* granular and rotated per epoch, the cache never shows in an answer      *)
(* while the view is valid.                                                *)
(***************************************************************************)
THEOREM TargetImplementsStopEpoch == Spec => ImplementsStopEpoch
<1>1. Init => Abstract!Init
  BY InitMemAssumption DEF Init, Abstract!Init, Memory
<1>2. QED
  BY <1>1, InitIInv, NextIInv, StepSimulation, PTL
     DEF Spec, ImplementsStopEpoch, Abstract!Spec
============================================================================
