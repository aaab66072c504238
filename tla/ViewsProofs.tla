----------------------------- MODULE ViewsProofs -----------------------------
(***************************************************************************)
(* Theorems about the GUI's views: for every session, stream of            *)
(* instructions, window size and cell size.                                *)
(***************************************************************************)
EXTENDS Views, SequenceTheorems, FiniteSetTheorems, NaturalsInduction,
        WellFoundedInduction, TLAPS

(* Numbers                                                                   *)

\* The least-number principle, from the library's well-founded minimum.
LEMMA LeastNatural ==
  ASSUME NEW S \in SUBSET Nat, S # {}
  PROVE  \E m \in S : \A k \in S : m <= k
  <1>1. PICK R : IsWellFoundedOn(R, Nat) /\ \A x, y \in Nat : y < x => <<y, x>> \in R
    <2>1. \A x, y \in Nat : y < x => <<y, x>> \in OpToRel(<, Nat)
      BY DEF OpToRel
    <2> QED
      BY <2>1, NatLessThanWellFounded
  <1>2. PICK m \in S : \A k \in S : ~(<<k, m>> \in R)
    BY <1>1, WFMin
  <1>3. \A k \in S : ~(k < m)
    BY <1>1, <1>2
  <1> QED
    BY <1>3

\* The library's Min and Max are what they are called.
LEMMA MinOfSet ==
  ASSUME NEW S \in SUBSET Nat, S # {}
  PROVE  Min(S) \in S /\ \A k \in S : Min(S) <= k
  BY LeastNatural DEF Min

\* Induction, for a set: one that holds zero and each successor is all of Nat.
LEMMA Counting ==
  ASSUME NEW T \in SUBSET Nat, 0 \in T, \A n \in T : n + 1 \in T
  PROVE  T = Nat
  <1> SUFFICES ASSUME Nat \ T # {} PROVE FALSE
    OBVIOUS
  <1>1. PICK m \in Nat \ T : \A k \in Nat \ T : m <= k
    BY LeastNatural
  <1>2. m # 0 /\ m - 1 \in Nat /\ ~(m <= m - 1)
    BY <1>1
  <1>3. m - 1 \in T
    BY <1>1, <1>2
  <1>4. (m - 1) + 1 \in T /\ (m - 1) + 1 = m
    BY <1>3
  <1> QED
    BY <1>1, <1>4

\* The states of a loop: at its start and after each of n turns.
IsRun(f, S, start, turn, n) ==
  /\ f \in [0 .. n -> S] /\ f[0] = start
  /\ \A k \in 1 .. n : f[k] = turn[<<k, f[k - 1]>>]

\* A loop of n turns has a state after each of them.
LEMMA LoopStates ==
  ASSUME NEW S, NEW start \in S, NEW turn \in [Nat \X S -> S]
  PROVE  \A n \in Nat : \E f : IsRun(f, S, start, turn, n)
  <1> DEFINE Steps(n, f) == f[0] = start /\ \A k \in 1 .. n : f[k] = turn[<<k, f[k - 1]>>]
             T == {n \in Nat : \E f \in [0 .. n -> S] : Steps(n, f)}
  <1>1. 0 \in T
    <2>1. [k \in 0 .. 0 |-> start] \in [0 .. 0 -> S] /\ Steps(0, [k \in 0 .. 0 |-> start])
      OBVIOUS
    <2> QED
      BY <2>1
  <1>2. ASSUME NEW n \in T PROVE n + 1 \in T
    <2>1. PICK f \in [0 .. n -> S] : Steps(n, f)
      OBVIOUS
    <2>2. PICK x : x = turn[<<n + 1, f[n]>>] /\ x \in S
      <3>1. n \in 0 .. n /\ n + 1 \in Nat /\ f[n] \in S
        OBVIOUS
      <3>2. <<n + 1, f[n]>> \in Nat \X S
        BY <3>1
      <3> QED
        BY <3>2
    <2>3. PICK g : g = [k \in 0 .. n + 1 |-> IF k = n + 1 THEN x ELSE f[k]]
      OBVIOUS
    <2>4. g \in [0 .. n + 1 -> S]
      BY <2>2, <2>3
    <2>5. Steps(n + 1, g)
      <3>1. g[0] = start
        BY <2>1, <2>3
      <3>2. ASSUME NEW k \in 1 .. n + 1 PROVE g[k] = turn[<<k, g[k - 1]>>]
        <4>1. k - 1 \in 0 .. n + 1 /\ k - 1 # n + 1 /\ g[k - 1] = f[k - 1]
          BY <2>3
        <4>2. CASE k = n + 1
          BY <2>2, <2>3, <4>1, <4>2
        <4>3. CASE k # n + 1
          BY <2>1, <2>3, <4>1, <4>3
        <4> QED
          BY <4>2, <4>3
      <3> QED
        BY <3>1, <3>2
    <2> QED
      BY <2>4, <2>5
  <1> HIDE DEF T
  <1>3. T = Nat
    BY <1>1, <1>2, Counting DEF T
  <1> QED
    BY <1>3 DEF T, IsRun

\* A bounded set of integers that is not empty has a largest element.
LEMMA MaxOfInts ==
  ASSUME NEW S \in SUBSET Int, S # {}, NEW b \in Int, \A k \in S : k <= b
  PROVE  Max(S) \in S /\ \A k \in S : k <= Max(S)
  <1> DEFINE T == { b - k : k \in S }
  <1>1. T \in SUBSET Nat /\ T # {}
    <2>1. \A k \in S : b - k \in Nat
      OBVIOUS
    <2> QED
      BY <2>1
  <1>2. PICK m \in T : \A x \in T : m <= x
    <2> HIDE DEF T
    <2> QED
      BY <1>1, LeastNatural
  <1>3. PICK k \in S : m = b - k
    BY <1>2
  <1>4. \A x \in S : x <= k
    BY <1>2, <1>3
  <1> QED
    BY <1>4 DEF Max

\* A bounded set of naturals that is not empty has a largest element.
LEMMA MaxOfSet ==
  ASSUME NEW S \in SUBSET Nat, S # {}, NEW b \in Nat, \A k \in S : k <= b
  PROVE  Max(S) \in S /\ \A k \in S : k <= Max(S)
  <1>1. S \in SUBSET Int /\ b \in Int
    OBVIOUS
  <1> QED
    BY <1>1, MaxOfInts

\* The larger of two integers.
LEMMA MaxOfTwo ==
  ASSUME NEW a \in Int, NEW b \in Int
  PROVE  Max({a, b}) = IF a <= b THEN b ELSE a
  BY DEF Max

\* The smaller of two integers.
LEMMA MinOfTwo ==
  ASSUME NEW a \in Int, NEW b \in Int
  PROVE  Min({a, b}) = IF a <= b THEN a ELSE b
  BY DEF Min

\* A sequence of numbers has a bound.
LEMMA Bounded ==
  ASSUME NEW q \in Seq(Nat)
  PROVE  \E b \in Nat : \A i \in 1 .. Len(q) : q[i] <= b
  <1> DEFINE Has(n) == \E b \in Nat : \A i \in 1 .. n : q[i] <= b
             S == { n \in 0 .. Len(q) : ~Has(n) }
  <1>1. SUFFICES ASSUME ~Has(Len(q)) PROVE FALSE
    OBVIOUS
  <1>2. PICK m \in S : \A k \in S : m <= k
    <2>1. S \in SUBSET Nat /\ S # {}
      <3> HIDE DEF Has
      <3>1. Len(q) \in 0 .. Len(q) /\ 0 .. Len(q) \subseteq Nat
        OBVIOUS
      <3> QED
        BY <1>1, <3>1
    <2> HIDE DEF S
    <2> QED
      BY <2>1, LeastNatural
  <1>3. m \in 0 .. Len(q) /\ ~Has(m) /\ \A k \in 0 .. Len(q) : ~Has(k) => m <= k
    <2> HIDE DEF Has
    <2> QED
      BY <1>2
  <1>4. Has(0)
    BY 0 \in Nat, \A i \in 1 .. 0 : q[i] <= 0
  <1>5. m \in 1 .. Len(q) /\ Has(m - 1)
    <2> HIDE DEF Has, S
    <2>1. m # 0
      BY <1>3, <1>4
    <2>2. m - 1 \in 0 .. Len(q) /\ m \in 1 .. Len(q) /\ ~(m <= m - 1)
      BY <1>3, <2>1
    <2> QED
      BY <1>3, <2>2
  <1> HIDE DEF S
  <1>6. PICK b \in Nat : \A i \in 1 .. m - 1 : q[i] <= b
    BY <1>5
  <1>7. q[m] \in Nat /\ \A i \in 1 .. m : q[i] \in Nat /\ (i = m \/ i \in 1 .. m - 1)
    BY <1>5
  <1>8. PICK c \in Nat : b <= c /\ q[m] <= c
    BY <1>7, b <= b + q[m], q[m] <= b + q[m], b + q[m] \in Nat
  <1>9. \A i \in 1 .. m : q[i] <= c
    BY <1>6, <1>7, <1>8
  <1> QED
    BY <1>3, <1>9

\* Division by a width, as the provers' arithmetic has it.
LEMMA DivIs ==
  ASSUME NEW a \in Nat, NEW k \in Nat \ {0}, NEW d \in 0 .. k - 1
  PROVE  (a * k + d) \div k = a
  OBVIOUS

\* Division by k rounds down by less than k.
LEMMA DivMod ==
  ASSUME NEW x \in Nat, NEW k \in Nat \ {0}
  PROVE  x \div k \in Nat /\ (x \div k) * k <= x /\ x < (x \div k) * k + k
  OBVIOUS

\* Division is monotonic.
LEMMA DivMono ==
  ASSUME NEW x \in Nat, NEW y \in Nat, x <= y, NEW k \in Nat \ {0}
  PROVE  x \div k <= y \div k
  OBVIOUS

\* Of n > 0 things in rows of k, the x-th lies in a row before the rounded-up last.
LEMMA RowsRoundUp ==
  ASSUME NEW n \in Nat, NEW x \in 0 .. n - 1, NEW k \in Nat \ {0}
  PROVE  RoundUp(n, k) \in Nat /\ x \div k <= RoundUp(n, k) - 1 /\ n <= RoundUp(n, k) * k
  <1>1. x \in Nat /\ x + k <= n + k - 1 /\ n + k - 1 \in Nat /\ x + k \in Nat
    OBVIOUS
  <1>2. (x + k) \div k <= (n + k - 1) \div k
    BY <1>1, DivMono
  <1>3. (x + k) \div k = x \div k + 1
    OBVIOUS
  <1>4. /\ (n + k - 1) \div k \in Nat /\ n + k - 1 < ((n + k - 1) \div k) * k + k
        /\ x \div k \in Nat
    BY <1>1, DivMod
  <1>5. n <= ((n + k - 1) \div k) * k
    <2>1. PICK p \in Nat : p = ((n + k - 1) \div k) * k
      BY <1>4
    <2> QED
      BY <1>4, <2>1
  <1> QED
    BY <1>2, <1>3, <1>4, <1>5 DEF RoundUp

-----------------------------------------------------------------------------
(* Code and breakpoints                                                      *)

Ascending(q) == \A i, j \in 1 .. Len(q) : i < j => q[i] < q[j]

\* A part of an ascending sequence ascends.
LEMMA PartAscends ==
  ASSUME NEW q \in Seq(Nat), Ascending(q), NEW a \in 1 .. Len(q) + 1, NEW b \in 0 .. Len(q)
  PROVE  /\ SubSeq(q, a, b) \in Seq(Nat) /\ Ascending(SubSeq(q, a, b))
         /\ ToSet(SubSeq(q, a, b)) \subseteq ToSet(q)
  <1> DEFINE u == SubSeq(q, a, b)
  <1>1. u \in Seq(Nat) /\ Len(u) = IF a <= b THEN b - a + 1 ELSE 0
    OBVIOUS
  <1>2. \A i \in 1 .. Len(u) : u[i] = q[a + i - 1] /\ a + i - 1 \in 1 .. Len(q)
    BY <1>1
  <1> HIDE DEF u
  <1>3. Ascending(u)
    <2>1. ASSUME NEW i \in 1 .. Len(u), NEW j \in 1 .. Len(u), i < j PROVE u[i] < u[j]
      <3>1. a + i - 1 < a + j - 1 /\ a + i - 1 \in 1 .. Len(q) /\ a + j - 1 \in 1 .. Len(q)
        BY <1>2, <2>1
      <3> QED
        BY <1>2, <3>1 DEF Ascending
    <2> QED
      BY <2>1 DEF Ascending
  <1>4. ASSUME NEW x \in ToSet(u) PROVE x \in ToSet(q)
    <2>1. DOMAIN u = 1 .. Len(u) /\ DOMAIN q = 1 .. Len(q)
      BY <1>1
    <2>2. PICK i \in 1 .. Len(u) : x = u[i]
      BY <1>4, <2>1 DEF ToSet
    <2> QED
      BY <1>2, <2>1, <2>2 DEF ToSet
  <1> QED
    BY <1>1, <1>3, <1>4 DEF u

\* What a listing of code returns: addresses of it, in order.
LEMMA CodeListed ==
  ASSUME NEW code \in Seq(Nat), Ascending(code), NEW addr, NEW count \in Nat,
         NEW rows, rows = CodeFrom(code, addr)
  PROVE  /\ SubSeq(rows, 1, Min({count, Len(rows)})) \in Seq(Nat)
         /\ Ascending(SubSeq(rows, 1, Min({count, Len(rows)})))
         /\ ToSet(SubSeq(rows, 1, Min({count, Len(rows)}))) \subseteq ToSet(code)
  <1>1. rows \in Seq(Nat) /\ Ascending(rows) /\ ToSet(rows) \subseteq ToSet(code)
    <2>1. CASE addr \in ToSet(code)
      <3>1. IndexIn(code, addr) \in 1 .. Len(code)
        BY <2>1 DEF IndexIn, ToSet
      <3>2. rows = SubSeq(code, IndexIn(code, addr), Len(code))
        BY <2>1 DEF CodeFrom
      <3> QED
        BY <3>1, <3>2, PartAscends
    <2>2. CASE addr \notin ToSet(code)
      <3>1. rows = << >>
        BY <2>2 DEF CodeFrom
      <3>2. << >> \in Seq(Nat) /\ Len(<< >>) = 0 /\ DOMAIN << >> = {}
        OBVIOUS
      <3> QED
        BY <3>1, <3>2 DEF Ascending, ToSet
    <2> QED
      BY <2>1, <2>2
  <1>2. Min({count, Len(rows)}) \in 0 .. Len(rows)
    <2>1. Len(rows) \in Nat
      BY <1>1
    <2> QED
      BY <2>1, MinOfTwo
  <1>3. /\ SubSeq(rows, 1, Min({count, Len(rows)})) \in Seq(Nat)
        /\ Ascending(SubSeq(rows, 1, Min({count, Len(rows)})))
        /\ ToSet(SubSeq(rows, 1, Min({count, Len(rows)}))) \subseteq ToSet(rows)
    <2>1. 1 \in 1 .. Len(rows) + 1
      BY <1>1
    <2> QED
      BY <1>1, <1>2, <2>1, PartAscends
  <1> QED
    BY <1>1, <1>3

Breakpoint == [address : Nat, enabled : BOOLEAN]
MockState == [pc : Nat, epoch : Nat, ip_index : Nat, rax : Nat, rcx : Nat, bps : Seq(Breakpoint)]

\* One breakpoint at most for an address, each at an instruction.
SoundBps(bps) ==
  /\ bps \in Seq(Breakpoint)
  /\ \A i \in 1 .. Len(bps) : bps[i].address \in ToSet(kStream)
  /\ \A i, j \in 1 .. Len(bps) : bps[i].address = bps[j].address => i = j

SoundMock(m) ==
  /\ m \in MockState /\ m.ip_index \in 1 .. Len(kStream)
  /\ m.pc \in ToSet(kStream) /\ SoundBps(m.bps)

\* The stream's addresses.
LEMMA StreamNumbers ==
  /\ ToSet(kStream) \subseteq Nat /\ Ascending(kStream) /\ kStream \in Seq(Nat)
  /\ Len(kStream) \in Nat /\ Len(kStream) > 1
  /\ \A i \in 1 .. Len(kStream) : kStream[i] \in ToSet(kStream) /\ kStream[i] \in Nat \ {0}
  BY StreamAssumption DEF ToSet, Ascending

\* The backend starts at the first instruction, without breakpoints.
LEMMA CreateSound == SoundMock(mock_create)
  <1>1. mock_create.bps = << >> /\ << >> \in Seq(Breakpoint) /\ Len(<< >>) = 0
    BY DEF mock_create
  <1>2. SoundBps(mock_create.bps)
    BY <1>1 DEF SoundBps
  <1> QED
    BY <1>1, <1>2, StreamNumbers DEF SoundMock, MockState, mock_create

\* Looking pc up finds its index, and the instruction after it is one of the stream.
LEMMA FoundSound ==
  ASSUME NEW m, SoundMock(m)
  PROVE  SoundMock(find_index(m)) /\ Following(find_index(m)) \in ToSet(kStream)
  <1>1. IndexIn(kStream, m.pc) \in 1 .. Len(kStream)
    <2>1. \E i \in DOMAIN kStream : kStream[i] = m.pc
      BY DEF SoundMock, ToSet
    <2>2. DOMAIN kStream = 1 .. Len(kStream)
      BY StreamNumbers
    <2> QED
      BY <2>1, <2>2 DEF IndexIn
  <1>2. find_index(m) = [m EXCEPT !.ip_index = IndexIn(kStream, m.pc)]
    BY DEF find_index, SoundMock
  <1>3. ASSUME NEW n \in 1 .. Len(kStream)
        PROVE  /\ SoundMock([m EXCEPT !.ip_index = n])
               /\ Following([m EXCEPT !.ip_index = n]) \in ToSet(kStream)
    <2>1. m \in MockState /\ m.pc \in ToSet(kStream) /\ SoundBps(m.bps) /\ n \in Nat
      BY StreamNumbers DEF SoundMock
    <2>2. PICK x : x = [m EXCEPT !.ip_index = n]
      OBVIOUS
    <2>3. /\ x \in MockState /\ x.ip_index = n /\ x.pc = m.pc /\ x.bps = m.bps
      BY <2>1, <2>2 DEF MockState
    <2>4. Following(x) \in ToSet(kStream)
      BY <2>1, <2>3, StreamNumbers DEF Following
    <2> QED
      BY <2>1, <2>2, <2>3, <2>4 DEF SoundMock
  <1> QED
    BY <1>1, <1>2, <1>3

\* A step that moves pc within the stream keeps the rest sound.
LEMMA MovedSound ==
  ASSUME NEW m, SoundMock(m), NEW p \in ToSet(kStream),
         NEW a \in Nat, NEW c \in Nat, NEW e \in Nat
  PROVE  SoundMock([m EXCEPT !.rax = a, !.rcx = c, !.pc = p, !.epoch = e])
  BY StreamNumbers DEF SoundMock, MockState

\* advance_one leaves the mock on its stream.
LEMMA AdvanceSound ==
  ASSUME NEW m, SoundMock(m)
  PROVE  SoundMock(advance_one(m))
  <1>1. PICK f : f = find_index(m) /\ SoundMock(f) /\ Following(f) \in ToSet(kStream)
    BY FoundSound
  <1>2. f.rax + 1 \in Nat /\ f.rcx + 1 \in Nat /\ f.epoch + 1 \in Nat
    <2>1. f \in MockState
      BY <1>1 DEF SoundMock
    <2> QED
      BY <2>1 DEF MockState
  <1>3. advance_one(m) = [f EXCEPT !.rax = f.rax + 1, !.rcx = f.rcx + 1, !.pc = Following(f),
                                   !.epoch = f.epoch + 1]
    BY <1>1 DEF advance_one
  <1>4. PICK a, c, e, p : a = f.rax + 1 /\ c = f.rcx + 1 /\ e = f.epoch + 1 /\ p = Following(f)
    OBVIOUS
  <1>5. SoundMock([f EXCEPT !.rax = a, !.rcx = c, !.pc = p, !.epoch = e])
    BY <1>1, <1>2, <1>4, MovedSound
  <1> QED
    BY <1>3, <1>4, <1>5

\* Every flow of the mock stops at an instruction of the stream.
LEMMA FlowSound ==
  ASSUME NEW m, SoundMock(m)
  PROVE  /\ SoundMock(mock_step_into(m)) /\ SoundMock(mock_step_over(m))
         /\ SoundMock(mock_step_out(m)) /\ SoundMock(mock_cont(m)) /\ SoundMock(mock_brk(m))
         /\ SoundMock(mock_restart(m)) /\ SoundMock(mock_stop(m))
  <1>t. m.rax \in Nat /\ m.rcx \in Nat /\ m.epoch + 1 \in Nat /\ m.pc \in ToSet(kStream)
    BY DEF SoundMock, MockState
  <1>f. kStream[1] \in ToSet(kStream) /\ Last(kStream) \in ToSet(kStream)
    <2>1. 1 \in 1 .. Len(kStream) /\ Len(kStream) \in 1 .. Len(kStream)
      BY StreamNumbers
    <2> QED
      BY <2>1, StreamNumbers DEF Last
  <1>r. ASSUME NEW p \in ToSet(kStream)
        PROVE  SoundMock([m EXCEPT !.pc = p, !.epoch = m.epoch + 1])
    BY <1>t, StreamNumbers DEF SoundMock, MockState
  <1>1. SoundMock(mock_step_into(m))
    BY AdvanceSound DEF mock_step_into
  <1>2. SoundMock(mock_step_over(m))
    <2>1. PICK f : f = find_index(m) /\ SoundMock(f) /\ Following(f) \in ToSet(kStream)
      BY FoundSound
    <2>2. SoundMock(advance_one(f))
      BY <2>1, AdvanceSound
    <2>3. SoundMock([f EXCEPT !.pc = Following(f), !.rax = f.rax + 1, !.epoch = f.epoch + 1])
      <3>1. ASSUME NEW p \in ToSet(kStream), NEW a \in Nat, NEW e \in Nat
            PROVE  SoundMock([f EXCEPT !.pc = p, !.rax = a, !.epoch = e])
        BY <2>1, StreamNumbers DEF SoundMock, MockState
      <3>2. f.rax + 1 \in Nat /\ f.epoch + 1 \in Nat
        BY <2>1 DEF SoundMock, MockState
      <3> QED
        BY <2>1, <3>1, <3>2
    <2> QED
      BY <2>1, <2>2, <2>3 DEF mock_step_over
  <1>3. SoundMock(mock_step_out(m))
    BY <1>f, <1>r DEF mock_step_out
  <1>4. SoundMock(mock_cont(m))
    <2> DEFINE above == {b.address : b \in {c \in ToSet(m.bps) : c.enabled /\ c.address > m.pc}}
    <2>1. above \subseteq ToSet(kStream)
      BY DEF SoundMock, SoundBps, ToSet
    <2>2. above # {} => Min(above) \in ToSet(kStream)
      <3> HIDE DEF above
      <3> QED
        BY <2>1, StreamNumbers, MinOfSet
    <2>3. mock_cont(m) = [m EXCEPT !.pc = IF above = {} THEN Last(kStream) ELSE Min(above),
                                   !.epoch = m.epoch + 1]
      BY DEF mock_cont
    <2> HIDE DEF above
    <2> QED
      BY <1>f, <1>r, <2>2, <2>3
  <1>5. SoundMock(mock_brk(m))
    BY <1>t, StreamNumbers DEF mock_brk, SoundMock, MockState
  <1>6. SoundMock(mock_restart(m)) /\ SoundMock(mock_stop(m))
    <2>1. ASSUME NEW p \in ToSet(kStream)
          PROVE  SoundMock([m EXCEPT !.pc = p, !.rax = 0, !.rcx = 0, !.epoch = m.epoch + 1])
      BY <1>t, StreamNumbers DEF SoundMock, MockState
    <2> QED
      BY <1>f, <2>1 DEF mock_restart, mock_stop
  <1> QED
    BY <1>1, <1>2, <1>3, <1>4, <1>5, <1>6

\* Removing an element keeps the others, in order.
LEMMA RemovedSequence ==
  ASSUME NEW S, NEW q \in Seq(S), NEW n \in 1 .. Len(q)
  PROVE  /\ RemoveAt(q, n) \in Seq(S) /\ Len(RemoveAt(q, n)) = Len(q) - 1
         /\ \A j \in 1 .. Len(q) - 1 : RemoveAt(q, n)[j] = q[IF j < n THEN j ELSE j + 1]
  <1> DEFINE u == SubSeq(q, 1, n - 1)
             v == SubSeq(q, n + 1, Len(q))
  <1>1. /\ u \in Seq(S) /\ Len(u) = n - 1
        /\ \A j \in 1 .. n - 1 : u[j] = q[j]
    <2>1. 1 \in Int /\ n - 1 \in Int /\ \A i \in 1 .. n - 1 : q[i] \in S
      BY ElementOfSeq
    <2>2. /\ SubSeq(q, 1, n - 1) \in Seq(S)
          /\ Len(SubSeq(q, 1, n - 1)) = IF 1 <= n - 1 THEN n - 1 - 1 + 1 ELSE 0
          /\ \A i \in 1 .. n - 1 - 1 + 1 : SubSeq(q, 1, n - 1)[i] = q[1 + i - 1]
      BY <2>1, SubSeqProperties
    <2> QED
      BY <2>2
  <1>2. /\ v \in Seq(S) /\ Len(v) = Len(q) - n
        /\ \A j \in 1 .. Len(q) - n : v[j] = q[n + j]
    <2>1. n + 1 \in Int /\ Len(q) \in Int /\ \A i \in n + 1 .. Len(q) : q[i] \in S
      BY ElementOfSeq
    <2>2. /\ SubSeq(q, n + 1, Len(q)) \in Seq(S)
          /\ Len(SubSeq(q, n + 1, Len(q))) = IF n + 1 <= Len(q) THEN Len(q) - (n + 1) + 1 ELSE 0
          /\ \A i \in 1 .. Len(q) - (n + 1) + 1 : SubSeq(q, n + 1, Len(q))[i] = q[n + 1 + i - 1]
      BY <2>1, SubSeqProperties
    <2> QED
      BY <2>1, <2>2
  <1>3. RemoveAt(q, n) = u \o v
    BY DEF RemoveAt
  <1> HIDE DEF u, v
  <1>4. /\ u \o v \in Seq(S) /\ Len(u \o v) = Len(u) + Len(v)
        /\ \A j \in 1 .. Len(u) + Len(v) : (u \o v)[j] = IF j <= Len(u) THEN u[j] ELSE v[j - Len(u)]
    BY <1>1, <1>2, ConcatProperties
  <1>5. ASSUME NEW j \in 1 .. Len(q) - 1
        PROVE  (u \o v)[j] = q[IF j < n THEN j ELSE j + 1]
    <2>1. CASE j < n
      <3>1. j \in 1 .. n - 1 /\ j <= Len(u) /\ j \in 1 .. Len(u) + Len(v)
        BY <1>1, <1>2, <2>1
      <3> QED
        BY <1>1, <1>4, <2>1, <3>1
    <2>2. CASE ~(j < n)
      <3>1. j - (n - 1) \in 1 .. Len(q) - n /\ ~(j <= Len(u)) /\ j \in 1 .. Len(u) + Len(v)
        BY <1>1, <1>2, <2>2
      <3>2. (u \o v)[j] = v[j - (n - 1)]
        BY <1>1, <1>4, <3>1
      <3>3. v[j - (n - 1)] = q[n + (j - (n - 1))]
        BY <1>2, <3>1
      <3>4. n + (j - (n - 1)) = j + 1
        OBVIOUS
      <3> QED
        BY <2>2, <3>2, <3>3, <3>4
    <2> QED
      BY <2>1, <2>2
  <1> QED
    BY <1>1, <1>2, <1>3, <1>4, <1>5

\* A toggle of a listed address erases its breakpoint or adds one.
LEMMA ToggleSound ==
  ASSUME NEW m, SoundMock(m), NEW addr \in ToSet(kStream)
  PROVE  /\ SoundMock(mock_bp_toggle(m, addr))
         /\ mock_registers(mock_bp_toggle(m, addr)) = mock_registers(m)
  <1>1. SoundBps(m.bps) /\ m \in MockState
    BY DEF SoundMock
  <1>2. ASSUME NEW bps, SoundBps(bps)
        PROVE  /\ SoundMock([m EXCEPT !.bps = bps])
               /\ mock_registers([m EXCEPT !.bps = bps]) = mock_registers(m)
    <2>1. PICK x : x = [m EXCEPT !.bps = bps]
      OBVIOUS
    <2>2. bps \in Seq(Breakpoint)
      BY <1>2 DEF SoundBps
    <2>3. /\ x \in MockState /\ x.bps = bps /\ x.pc = m.pc /\ x.ip_index = m.ip_index
          /\ x.rax = m.rax /\ x.rcx = m.rcx
      BY <1>1, <2>1, <2>2 DEF MockState
    <2> QED
      BY <1>2, <2>1, <2>3 DEF SoundMock, mock_registers
  <1>3. CASE \E b \in ToSet(m.bps) : b.address = addr
    <2> DEFINE at == SelectInSeq(m.bps, LAMBDA b : b.address = addr)
               I == {i \in 1 .. Len(m.bps) : m.bps[i].address = addr}
    <2>1. I # {} /\ I \in SUBSET Nat
      BY <1>1, <1>3 DEF SoundBps, ToSet
    <2>2. at = Min(I)
      BY <2>1 DEF SelectInSeq
    <2>3. Min(I) \in I
      <3> HIDE DEF I
      <3> QED
        BY <2>1, MinOfSet
    <2>4. PICK n \in 1 .. Len(m.bps) : at = n
      BY <2>2, <2>3
    <2>5. mock_bp_toggle(m, addr) = [m EXCEPT !.bps = RemoveAt(m.bps, n)]
      BY <1>3, <2>4 DEF mock_bp_toggle
    <2>6. SoundBps(RemoveAt(m.bps, n))
      <3> HIDE DEF at, I
      <3>1. PICK u : u = RemoveAt(m.bps, n)
        OBVIOUS
      <3>2. m.bps \in Seq(Breakpoint)
        BY <1>1 DEF SoundBps
      <3>3. /\ u \in Seq(Breakpoint) /\ Len(u) = Len(m.bps) - 1
            /\ \A j \in 1 .. Len(m.bps) - 1 : u[j] = m.bps[IF j < n THEN j ELSE j + 1]
        BY <3>1, <3>2, RemovedSequence
      <3>4. ASSUME NEW j \in 1 .. Len(u)
            PROVE  (IF j < n THEN j ELSE j + 1) \in 1 .. Len(m.bps)
        BY <3>2, <3>3
      <3>5. \A i \in 1 .. Len(u) : u[i].address \in ToSet(kStream)
        BY <1>1, <3>3, <3>4 DEF SoundBps
      <3>6. ASSUME NEW i \in 1 .. Len(u), NEW j \in 1 .. Len(u), u[i].address = u[j].address
            PROVE  i = j
        <4>1. (IF i < n THEN i ELSE i + 1) = (IF j < n THEN j ELSE j + 1)
          BY <1>1, <3>3, <3>4, <3>6 DEF SoundBps
        <4> QED
          BY <4>1
      <3> QED
        BY <3>1, <3>3, <3>5, <3>6 DEF SoundBps
    <2> QED
      BY <1>2, <2>5, <2>6
  <1>4. CASE ~\E b \in ToSet(m.bps) : b.address = addr
    <2> DEFINE new == [address |-> addr, enabled |-> TRUE]
    <2>1. mock_bp_toggle(m, addr) = [m EXCEPT !.bps = Append(m.bps, new)]
      BY <1>4 DEF mock_bp_toggle
    <2>2. new \in Breakpoint /\ new.address = addr
      BY StreamNumbers DEF Breakpoint
    <2>3. m.bps \in Seq(Breakpoint) /\ \A i \in 1 .. Len(m.bps) : m.bps[i].address # addr
      BY <1>1, <1>4 DEF SoundBps, ToSet
    <2> HIDE DEF new
    <2>4. PICK u : u = Append(m.bps, new)
      OBVIOUS
    <2>5. /\ u \in Seq(Breakpoint) /\ Len(u) = Len(m.bps) + 1 /\ Len(m.bps) \in Nat
          /\ \A i \in 1 .. Len(m.bps) : u[i] = m.bps[i]
          /\ u[Len(m.bps) + 1] = new
      BY <2>2, <2>3, <2>4, AppendProperties
    <2>6. SoundBps(u)
      <3>1. \A i \in 1 .. Len(u) : i \in 1 .. Len(m.bps) \/ i = Len(m.bps) + 1
        BY <2>5
      <3> QED
        BY <1>1, <2>2, <2>3, <2>5, <3>1 DEF SoundBps
    <2>7. /\ SoundMock([m EXCEPT !.bps = u])
          /\ mock_registers([m EXCEPT !.bps = u]) = mock_registers(m)
      BY <1>2, <2>6
    <2> QED
      BY <2>1, <2>4, <2>7
  <1> QED
    BY <1>3, <1>4

\* Enabling or disabling a breakpoint moves nothing.
LEMMA EnabledSound ==
  ASSUME NEW m, SoundMock(m), NEW addr, NEW on \in BOOLEAN
  PROVE  /\ SoundMock(mock_bp_set_enabled(m, addr, on))
         /\ mock_registers(mock_bp_set_enabled(m, addr, on)) = mock_registers(m)
  <1>1. SoundBps(m.bps) /\ m \in MockState /\ m.bps \in Seq(Breakpoint)
    BY DEF SoundMock, SoundBps
  <1>2. PICK u : u = [i \in DOMAIN m.bps |-> IF m.bps[i].address = addr
                                            THEN [m.bps[i] EXCEPT !.enabled = on] ELSE m.bps[i]]
    OBVIOUS
  <1>3. /\ u \in Seq(Breakpoint) /\ Len(u) = Len(m.bps)
        /\ \A i \in 1 .. Len(m.bps) : u[i].address = m.bps[i].address
    <2>1. DOMAIN m.bps = 1 .. Len(m.bps) /\ Len(m.bps) \in Nat
      BY <1>1
    <2>2. \A i \in 1 .. Len(m.bps) : m.bps[i] \in Breakpoint
      BY <1>1, ElementOfSeq
    <2>3. \A b \in Breakpoint : [b EXCEPT !.enabled = on] \in Breakpoint
                                /\ [b EXCEPT !.enabled = on].address = b.address
      BY DEF Breakpoint
    <2>4. u \in [1 .. Len(m.bps) -> Breakpoint]
          /\ \A i \in 1 .. Len(m.bps) : u[i].address = m.bps[i].address
      BY <1>2, <2>1, <2>2, <2>3
    <2> QED
      BY <2>1, <2>4
  <1>4. SoundBps(u)
    BY <1>1, <1>3 DEF SoundBps
  <1>5. PICK x : x = [m EXCEPT !.bps = u]
    OBVIOUS
  <1>6. /\ x \in MockState /\ x.bps = u /\ x.pc = m.pc /\ x.ip_index = m.ip_index
        /\ x.rax = m.rax /\ x.rcx = m.rcx
    BY <1>1, <1>3, <1>5 DEF MockState
  <1>7. mock_bp_set_enabled(m, addr, on) = x
    BY <1>2, <1>5 DEF mock_bp_set_enabled
  <1> QED
    BY <1>4, <1>6, <1>7 DEF SoundMock, mock_registers

-----------------------------------------------------------------------------
(* The session                                                               *)

\* What was opened, with the mock in a sound state.
SessionFrom(s, of, m) ==
  /\ of \in Sessions /\ SoundMock(m)
  /\ \E a \in BOOLEAN : s = [of EXCEPT !.mock = m, !.analyzed = a]

SessionOK(s) == \E of, m : SessionFrom(s, of, m)

Same(s, of) ==
  /\ s.kind = of.kind /\ s.entry = of.entry /\ s.code = of.code /\ s.caller = of.caller
  /\ s.threads = of.threads /\ s.modules = of.modules /\ s.sections = of.sections
  /\ s.functions = of.functions /\ s.blocks = of.blocks /\ s.xrefs = of.xrefs
  /\ s.sizes = of.sizes /\ s.points = of.points /\ s.pages = of.pages

\* The operations change the mock's state and the analysis, nothing else.
LEMMA SessionFields ==
  ASSUME NEW s, NEW of, NEW m, SessionFrom(s, of, m)
  PROVE  /\ s.mock = m /\ s.analyzed \in BOOLEAN /\ Same(s, of)
         /\ \A m2 : SoundMock(m2) => /\ SessionFrom([s EXCEPT !.mock = m2], of, m2)
                                     /\ Same([s EXCEPT !.mock = m2], s)
         /\ /\ SessionFrom([s EXCEPT !.analyzed = TRUE], of, m)
            /\ Same([s EXCEPT !.analyzed = TRUE], s)
            /\ [s EXCEPT !.analyzed = TRUE].mock = s.mock
  <1> DEFINE Fields == {"kind", "analyzed", "mock", "entry", "code", "caller", "threads", "modules",
                        "sections", "functions", "blocks", "xrefs", "sizes", "points", "pages"}
  <1>1. of \in Sessions /\ DOMAIN of = Fields /\ of = [field \in Fields |-> of[field]]
    BY SessionsAssumption DEF SessionFrom
  <1>2. PICK a \in BOOLEAN : s = [of EXCEPT !.mock = m, !.analyzed = a]
    BY DEF SessionFrom
  <1>3. s.mock = m /\ s.analyzed = a /\ Same(s, of)
    BY <1>1, <1>2 DEF Same
  <1>4. ASSUME NEW m2, SoundMock(m2)
        PROVE  /\ SessionFrom([s EXCEPT !.mock = m2], of, m2)
               /\ Same([s EXCEPT !.mock = m2], s)
    <2>1. [s EXCEPT !.mock = m2] = [of EXCEPT !.mock = m2, !.analyzed = a]
      BY <1>1, <1>2
    <2>2. Same([of EXCEPT !.mock = m2, !.analyzed = a], of)
      BY <1>1 DEF Same
    <2> QED
      BY <1>1, <1>3, <1>4, <2>1, <2>2 DEF SessionFrom, Same
  <1>5. /\ SessionFrom([s EXCEPT !.analyzed = TRUE], of, m)
        /\ Same([s EXCEPT !.analyzed = TRUE], s)
        /\ [s EXCEPT !.analyzed = TRUE].mock = s.mock
    <2>1. [s EXCEPT !.analyzed = TRUE] = [of EXCEPT !.mock = m, !.analyzed = TRUE]
      BY <1>1, <1>2
    <2>2. Same([of EXCEPT !.mock = m, !.analyzed = TRUE], of)
      BY <1>1 DEF Same
    <2>3. [of EXCEPT !.mock = m, !.analyzed = TRUE].mock = m
      BY <1>1
    <2>4. SoundMock(m)
      BY DEF SessionFrom
    <2> QED
      BY <1>1, <1>3, <2>1, <2>2, <2>3, <2>4 DEF SessionFrom, Same
  <1> QED
    BY <1>2, <1>3, <1>4, <1>5

\* The session at the start is what was opened.
LEMMA OpenedSound ==
  ASSUME NEW of \in Sessions
  PROVE  SessionOK(of)
  <1> DEFINE Fields == {"kind", "analyzed", "mock", "entry", "code", "caller", "threads", "modules",
                        "sections", "functions", "blocks", "xrefs", "sizes", "points", "pages"}
  <1>1. /\ DOMAIN of = Fields /\ of = [field \in Fields |-> of[field]]
        /\ of.analyzed = (of.kind = "Mock") /\ of.mock = mock_create
    BY SessionsAssumption
  <1>2. PICK a \in BOOLEAN : a = of.analyzed
    BY <1>1
  <1>3. of = [of EXCEPT !.mock = mock_create, !.analyzed = a]
    BY <1>1, <1>2
  <1>4. \E a2 \in BOOLEAN : of = [of EXCEPT !.mock = mock_create, !.analyzed = a2]
    BY <1>3
  <1> QED
    BY <1>4, CreateSound DEF SessionOK, SessionFrom

-----------------------------------------------------------------------------
(* The disassembly table                                                     *)

TableShape(t) ==
  t = [base |-> t.base, row_addrs |-> t.row_addrs,
       view |-> [n |-> t.view.n, bpRows |-> t.view.bpRows, ip |-> t.view.ip, bg |-> t.view.bg]]

Exact(s, t) ==
  LET at == {b.address : b \in ToSet(irida_breakpoints(s))}
      rows == t.row_addrs
  IN  \A r \in DOMAIN rows :
        /\ r \in t.view.bpRows <=> rows[r] \in at
        /\ r = t.view.ip <=> rows[r] = irida_pc(s)
        /\ t.view.bg[r] = IF rows[r] = irida_pc(s) THEN "ip"
                         ELSE IF rows[r] \in at THEN "bp" ELSE "none"

\* The rows of a table whose session is the mock are instructions of it.
Listed(s, t) ==
  /\ t.row_addrs \in Seq(Nat)
  /\ s.kind = "Mock" => ToSet(t.row_addrs) \subseteq ToSet(kStream)

\* A listing is ascending, and the mock's is a part of its stream.
LEMMA DisasmListed ==
  ASSUME NEW s, SessionOK(s), NEW addr
  PROVE  /\ irida_disasm(s, addr, kRows) \in Seq(Nat) /\ Ascending(irida_disasm(s, addr, kRows))
         /\ s.kind = "Mock" => ToSet(irida_disasm(s, addr, kRows)) \subseteq ToSet(kStream)
  <1>1. PICK of, m : SessionFrom(s, of, m)
    BY DEF SessionOK
  <1>2. Same(s, of) /\ of \in Sessions
    BY <1>1, SessionFields DEF SessionFrom
  <1>3. s.code \in Seq(Nat) /\ Ascending(s.code)
    <2>1. of.code \in Seq(Nat) /\ \A i, j \in DOMAIN of.code : i < j => of.code[i] < of.code[j]
      BY <1>2, SessionsAssumption
    <2> QED
      BY <1>2, <2>1 DEF Same, Ascending
  <1>4. CASE s.kind = "Mock"
    <2>1. PICK rows : rows = CodeFrom(kStream, addr)
      OBVIOUS
    <2>2. irida_disasm(s, addr, kRows) = SubSeq(rows, 1, Min({kRows, Len(rows)}))
      BY <1>4, <2>1 DEF irida_disasm, mock_disasm
    <2> QED
      BY <2>1, <2>2, StreamNumbers, ListingAssumption, CodeListed
  <1>5. CASE s.kind # "Mock"
    <2>1. PICK rows : rows = CodeFrom(s.code, addr)
      OBVIOUS
    <2>2. irida_disasm(s, addr, kRows) = SubSeq(rows, 1, Min({kRows, Len(rows)}))
      BY <1>5, <2>1 DEF irida_disasm
    <2> QED
      BY <1>3, <1>5, <2>1, <2>2, ListingAssumption, CodeListed
  <1> QED
    BY <1>4, <1>5

\* Marking from any view whose marks were those of another listing.
LEMMA MarkedExact ==
  ASSUME NEW v, v = [n |-> v.n, bpRows |-> v.bpRows, ip |-> v.ip, bg |-> v.bg],
         NEW n \in Nat, NEW on \in SUBSET (1 .. n), NEW cur \in 0 .. n,
         NEW u, u = setCurrentIpRow(setBreakpointRows(setRows(v, n), on), cur)
  PROVE  /\ u = [n |-> n, bpRows |-> u.bpRows, ip |-> cur, bg |-> u.bg]
         /\ \A r \in 1 .. n :
              /\ r \in u.bpRows <=> r \in on
              /\ u.bg[r] = IF r = cur THEN "ip" ELSE IF r \in on THEN "bp" ELSE "none"
  <1>1. PICK g0 : setRows(v, n) = [n |-> n, bpRows |-> v.bpRows, ip |-> v.ip, bg |-> g0]
    <2>1. PICK g : g = [r \in 1 .. n |-> IF r <= v.n THEN v.bg[r] ELSE "none"]
      OBVIOUS
    <2>2. setRows(v, n) = [v EXCEPT !.n = n, !.bg = g]
      BY <2>1 DEF setRows
    <2>3. [v EXCEPT !.n = n, !.bg = g] = [n |-> n, bpRows |-> v.bpRows, ip |-> v.ip, bg |-> g]
      <3>1. PICK w : w = [v EXCEPT !.n = n]
        OBVIOUS
      <3>2. w = [n |-> n, bpRows |-> v.bpRows, ip |-> v.ip, bg |-> v.bg]
        BY <3>1
      <3>3. [w EXCEPT !.bg = g] = [n |-> n, bpRows |-> v.bpRows, ip |-> v.ip, bg |-> g]
        BY <3>2
      <3> QED
        BY <3>1, <3>3
    <2> QED
      BY <2>2, <2>3
  <1>2. PICK B : B = {r \in v.bpRows : r \notin 1 .. n} \cup on
    OBVIOUS
  <1>b. \A r \in 1 .. n : r \in B <=> r \in on
    BY <1>2
  <1>3. PICK g1 : /\ g1 \in [1 .. n -> {"ip", "bp", "none"}]
                  /\ \A r \in 1 .. n : g1[r] = IF r = v.ip THEN "ip" ELSE IF r \in on THEN "bp" ELSE "none"
                  /\ setBreakpointRows(setRows(v, n), on) = [n |-> n, bpRows |-> B, ip |-> v.ip, bg |-> g1]
    <2>1. PICK x : x = [n |-> n, bpRows |-> B, ip |-> v.ip, bg |-> g0]
      OBVIOUS
    <2>2. PICK g : g = [r \in 1 .. n |-> Background(x, r)]
      OBVIOUS
    <2>3. setBreakpointRows(setRows(v, n), on) = [x EXCEPT !.bg = g]
      <3>1. PICK y : y = setRows(v, n)
        OBVIOUS
      <3>2. y.n = n /\ y.bpRows = v.bpRows
        BY <1>1, <3>1
      <3>3. [y EXCEPT !.bpRows = B] = x
        BY <1>1, <2>1, <3>1
      <3>4. [y EXCEPT !.bpRows = {r \in @ : r \notin 1 .. y.n} \cup on] = [y EXCEPT !.bpRows = B]
        BY <1>2, <3>2
      <3>5. setBreakpointRows(y, on) = [x EXCEPT !.bg = [r \in 1 .. y.n |-> Background(x, r)]]
        BY <3>3, <3>4 DEF setBreakpointRows
      <3> QED
        BY <2>2, <3>1, <3>2, <3>5
    <2>4. [x EXCEPT !.bg = g] = [n |-> n, bpRows |-> B, ip |-> v.ip, bg |-> g]
      BY <2>1
    <2>5. \A r \in 1 .. n : Background(x, r) = IF r = v.ip THEN "ip" ELSE IF r \in on THEN "bp" ELSE "none"
      BY <1>b, <2>1 DEF Background
    <2> QED
      BY <2>2, <2>3, <2>4, <2>5
  <1>4. PICK x : x = [n |-> n, bpRows |-> B, ip |-> cur, bg |-> g1]
    OBVIOUS
  <1>5. ASSUME NEW y, y.n = n, y.bpRows = B, y.ip = cur, NEW g \in [1 .. n -> {"ip", "bp", "none"}],
               y = [n |-> n, bpRows |-> B, ip |-> cur, bg |-> g], NEW row \in 1 .. n
        PROVE  applyRowBackground(y, row) =
                 [n |-> n, bpRows |-> B, ip |-> cur,
                  bg |-> [g EXCEPT ![row] = IF row = cur THEN "ip" ELSE IF row \in on THEN "bp" ELSE "none"]]
    <2>1. Background(y, row) = IF row = cur THEN "ip" ELSE IF row \in on THEN "bp" ELSE "none"
      BY <1>b, <1>5 DEF Background
    <2>2. PICK c : c = IF row = cur THEN "ip" ELSE IF row \in on THEN "bp" ELSE "none"
      OBVIOUS
    <2>3. applyRowBackground(y, row) = [y EXCEPT !.bg[row] = c]
      BY <2>1, <2>2 DEF applyRowBackground
    <2>4. [y EXCEPT !.bg[row] = c] = [n |-> n, bpRows |-> B, ip |-> cur, bg |-> [g EXCEPT ![row] = c]]
      BY <1>5
    <2> QED
      BY <2>2, <2>3, <2>4
  <1>6. PICK g2 : /\ g2 \in [1 .. n -> {"ip", "bp", "none"}]
                  /\ \A r \in 1 .. n : r # cur =>
                       g2[r] = IF r \in on THEN "bp" ELSE "none"
                  /\ (IF v.ip \in 1 .. n THEN applyRowBackground(x, v.ip) ELSE x)
                       = [n |-> n, bpRows |-> B, ip |-> cur, bg |-> g2]
    <2>1. CASE v.ip \in 1 .. n
      <3>1. applyRowBackground(x, v.ip) =
              [n |-> n, bpRows |-> B, ip |-> cur,
               bg |-> [g1 EXCEPT ![v.ip] = IF v.ip = cur THEN "ip" ELSE IF v.ip \in on THEN "bp" ELSE "none"]]
        BY <1>3, <1>4, <1>5, <2>1
      <3> QED
        BY <1>3, <2>1, <3>1
    <2>2. CASE v.ip \notin 1 .. n
      BY <1>3, <1>4, <2>2
    <2> QED
      BY <2>1, <2>2
  <1>7. PICK y : y = [n |-> n, bpRows |-> B, ip |-> cur, bg |-> g2]
    OBVIOUS
  <1>8. u = IF cur \in 1 .. n THEN applyRowBackground(y, cur) ELSE y
    <2>1. PICK z : z = setBreakpointRows(setRows(v, n), on)
      OBVIOUS
    <2>2. z = [n |-> n, bpRows |-> B, ip |-> v.ip, bg |-> g1]
      BY <1>3, <2>1
    <2>3. [z EXCEPT !.ip = cur] = x /\ z.n = n /\ z.ip = v.ip
      BY <1>4, <2>2
    <2>4. u = setCurrentIpRow(z, cur)
      BY <2>1
    <2> QED
      BY <1>6, <1>7, <2>3, <2>4 DEF setCurrentIpRow
  <1>9. CASE cur \in 1 .. n
    <2>1. applyRowBackground(y, cur) =
            [n |-> n, bpRows |-> B, ip |-> cur,
             bg |-> [g2 EXCEPT ![cur] = IF cur = cur THEN "ip" ELSE IF cur \in on THEN "bp" ELSE "none"]]
      BY <1>5, <1>6, <1>7, <1>9
    <2>2. \A r \in 1 .. n : [g2 EXCEPT ![cur] = "ip"][r] = IF r = cur THEN "ip" ELSE g2[r]
      BY <1>6
    <2> QED
      BY <1>6, <1>8, <1>9, <1>b, <2>1, <2>2
  <1>10. CASE cur \notin 1 .. n
    BY <1>6, <1>7, <1>8, <1>10, <1>b
  <1> QED
    BY <1>9, <1>10

\* A refresh from any marks leaves the marks exact.
LEMMA RefreshExact ==
  ASSUME NEW s, SessionOK(s), NEW t, TableShape(t), NEW u, u = disassemblyRefresh(s, t)
  PROVE  TableShape(u) /\ Listed(s, u) /\ Exact(s, u)
  <1>1. PICK addr : addr = IF t.base # 0 THEN t.base ELSE irida_pc(s)
    OBVIOUS
  <1>2. PICK rows : rows = irida_disasm(s, addr, kRows)
    OBVIOUS
  <1>3. /\ rows \in Seq(Nat) /\ Ascending(rows)
        /\ s.kind = "Mock" => ToSet(rows) \subseteq ToSet(kStream)
    BY <1>2, DisasmListed
  <1>4. PICK at : at = {b.address : b \in ToSet(irida_breakpoints(s))}
    OBVIOUS
  <1>5. PICK on : on = {r \in DOMAIN rows : rows[r] \in at}
    OBVIOUS
  <1>6. PICK pc : pc = irida_pc(s)
    OBVIOUS
  <1>7. PICK current : current = {r \in DOMAIN rows : rows[r] = pc}
    OBVIOUS
  <1>8. PICK cur : cur = IF current = {} THEN 0 ELSE Max(current)
    OBVIOUS
  <1>9. PICK n : n = Len(rows)
    OBVIOUS
  <1>d. n \in Nat /\ DOMAIN rows = 1 .. n
    BY <1>3, <1>9
  <1>10. cur \in 0 .. n /\ \A r \in 1 .. n : r = cur <=> rows[r] = pc
    <2>1. CASE current = {}
      BY <1>7, <1>8, <1>d, <2>1
    <2>2. CASE current # {}
      <3>1. current \in SUBSET Nat /\ \A k \in current : k <= n
        BY <1>7, <1>d
      <3>2. Max(current) \in current
        BY <1>d, <2>2, <3>1, MaxOfSet
      <3>3. cur \in 1 .. n /\ rows[cur] = pc
        BY <1>7, <1>8, <1>d, <2>2, <3>2
      <3>4. ASSUME NEW r \in 1 .. n, rows[r] = pc PROVE r = cur
        BY <1>3, <1>9, <3>3, <3>4, <1>d DEF Ascending
      <3> QED
        BY <3>3, <3>4
    <2> QED
      BY <2>1, <2>2
  <1>11. PICK v : v = t.view
    OBVIOUS
  <1>12. v = [n |-> v.n, bpRows |-> v.bpRows, ip |-> v.ip, bg |-> v.bg]
    BY <1>11 DEF TableShape
  <1>13. PICK w : w = setCurrentIpRow(setBreakpointRows(setRows(v, n), on), cur)
    OBVIOUS
  <1>14. u = [base |-> t.base, row_addrs |-> rows, view |-> w]
    BY <1>1, <1>2, <1>4, <1>5, <1>6, <1>7, <1>8, <1>9, <1>11, <1>13 DEF disassemblyRefresh
  <1>15. on \in SUBSET (1 .. n)
    BY <1>5, <1>d
  <1>16. /\ w = [n |-> n, bpRows |-> w.bpRows, ip |-> cur, bg |-> w.bg]
         /\ \A r \in 1 .. n :
              /\ r \in w.bpRows <=> r \in on
              /\ w.bg[r] = IF r = cur THEN "ip" ELSE IF r \in on THEN "bp" ELSE "none"
    BY <1>10, <1>12, <1>13, <1>15, <1>d, MarkedExact
  <1>17. TableShape(u)
    BY <1>14, <1>16 DEF TableShape
  <1>18. Exact(s, u)
    <2>1. ASSUME NEW r \in 1 .. n
          PROVE  /\ r \in w.bpRows <=> rows[r] \in at
                 /\ r = w.ip <=> rows[r] = pc
                 /\ w.bg[r] = IF rows[r] = pc THEN "ip" ELSE IF rows[r] \in at THEN "bp" ELSE "none"
      <3>1. r \in on <=> rows[r] \in at
        BY <1>5, <1>d
      <3>2. w.ip = cur
        BY <1>16
      <3> QED
        BY <1>10, <1>16, <3>1, <3>2
    <2>2. u.view = w /\ u.row_addrs = rows
      BY <1>14
    <2> QED
      BY <1>4, <1>6, <1>d, <2>1, <2>2 DEF Exact
  <1> QED
    BY <1>3, <1>14, <1>17, <1>18 DEF Listed

-----------------------------------------------------------------------------
(* The steps                                                                 *)

\* Every view reloads, and the registers moved from the last stop, if they moved.
Reload ==
  /\ StateChanged /\ SessionOK(session') /\ Same(session', session)
  /\ \/ irida_registers(session') = irida_registers(session) /\ before' = before
     \/ before' = irida_registers(session)

\* The session stands, and the table is refreshed at most.
Keep ==
  /\ UNCHANGED <<session, registers, before>>
  /\ \/ table' = table
     \/ table' = disassemblyRefresh(session, table)
     \/ \E addr : table' = disassemblySetBase(session, table, addr)

\* What else the user can do: the steps that are not reloads.
Others ==
  \/ UNCHANGED vars
  \/ \E addr \in UNION {lists[panel] : panel \in DOMAIN lists} : onDoubleClicked(addr)
  \/ \E i \in DOMAIN graph.scene.items : onBlockActivated(i)
  \/ \E addr \in Clickable : overviewPressed(addr)
  \/ \E value \in 0 .. scrollMax(grid) : overviewScrolled(value)
  \/ \E pos \in session.points : stripPressed(pos) \/ stripMoved(pos)
  \/ stripReleased
  \/ \E v \in session.pages : selectView(v)
  \/ \E sz \in session.sizes : resizeEvent(sz)

\* A change of the mock's state is a reload.
LEMMA MockReload ==
  ASSUME SessionOK(session), NEW m, SoundMock(m), session' = [session EXCEPT !.mock = m],
         StateChanged,
         \/ mock_registers(m) = mock_registers(session.mock) /\ before' = before
         \/ before' = irida_registers(session)
  PROVE  Reload
  <1>1. PICK of, m0 : SessionFrom(session, of, m0)
    BY DEF SessionOK
  <1>2. SessionFrom(session', of, m) /\ Same(session', session)
    BY <1>1, SessionFields
  <1>3. session'.mock = m
    BY <1>2, SessionFields
  <1>4. session'.kind = session.kind
    BY <1>2 DEF Same
  <1>5. SessionOK(session')
    BY <1>2 DEF SessionOK
  <1> QED
    BY <1>2, <1>3, <1>4, <1>5 DEF Reload, irida_registers

\* A step reloads every view or leaves the session alone.
LEMMA StepKinds ==
  ASSUME SessionOK(session), Listed(session, table), [Next]_vars
  PROVE  Reload \/ (Keep /\ Others)
  <1>1. PICK of, m : SessionFrom(session, of, m)
    BY DEF SessionOK
  <1>2. m = session.mock /\ SoundMock(m) /\ SoundMock(session.mock)
    <2>1. session.mock = m
      BY <1>1, SessionFields
    <2> QED
      BY <1>1, <2>1 DEF SessionFrom
  <1>s. Same(session, session)
    BY DEF Same
  <1>3. CASE UNCHANGED vars
    <2>1. Keep
      BY <1>3 DEF vars, Keep
    <2>2. Others
      BY <1>3 DEF Others
    <2> QED
      BY <2>1, <2>2
  <1>4. CASE refreshViews
    BY <1>4, <1>s DEF refreshViews, Reload
  <1>5. CASE analysisFinished
    <2>1. SessionFrom(session', of, m) /\ Same(session', session) /\ session'.mock = session.mock
      BY <1>1, <1>5, SessionFields DEF analysisFinished
    <2>2. session'.kind = session.kind
      BY <2>1 DEF Same
    <2>3. StateChanged /\ before' = before
      BY <1>5 DEF analysisFinished
    <2>4. SessionOK(session')
      BY <2>1 DEF SessionOK
    <2> QED
      BY <2>1, <2>2, <2>3, <2>4 DEF Reload, irida_registers
  <1>6. ASSUME NEW next, SoundMock(next), flow(next)
        PROVE  Reload
    BY <1>6, MockReload DEF flow
  <1>7. CASE stepInto \/ stepOver \/ stepOut \/ run \/ breakExec \/ restart \/ stop
    BY <1>2, <1>6, <1>7, FlowSound DEF stepInto, stepOver, stepOut, run, breakExec, restart, stop
  <1>8. ASSUME NEW row \in DOMAIN table.row_addrs, onCellClicked(row)
        PROVE  Reload
    <2>1. PICK addr : addr = table.row_addrs[row]
      OBVIOUS
    <2>2. toggleBreakpoint(addr)
      BY <1>8, <2>1 DEF onCellClicked
    <2>3. CASE session.kind = "Mock"
      <3>1. addr \in ToSet(kStream)
        BY <2>1, <2>3 DEF Listed, ToSet
      <3>2. PICK next : next = mock_bp_toggle(session.mock, addr)
        OBVIOUS
      <3>3. SoundMock(next) /\ mock_registers(next) = mock_registers(session.mock)
        BY <1>2, <3>1, <3>2, ToggleSound
      <3>4. session' = [session EXCEPT !.mock = next] /\ StateChanged /\ before' = before
        BY <2>2, <2>3, <3>2 DEF toggleBreakpoint
      <3> QED
        BY <3>3, <3>4, MockReload
    <2>4. CASE session.kind # "Mock"
      BY <2>2, <2>4, <1>s DEF toggleBreakpoint, Reload
    <2> QED
      BY <2>3, <2>4
  <1>9. ASSUME NEW b \in ToSet(irida_breakpoints(session)), NEW on \in BOOLEAN,
               setBreakpointEnabled(b.address, on)
        PROVE  Reload
    <2>1. PICK next : next = mock_bp_set_enabled(session.mock, b.address, on)
      OBVIOUS
    <2>2. SoundMock(next) /\ mock_registers(next) = mock_registers(session.mock)
      BY <1>2, <2>1, EnabledSound
    <2>3. session' = [session EXCEPT !.mock = next] /\ StateChanged /\ before' = before
      BY <1>9, <2>1 DEF setBreakpointEnabled
    <2> QED
      BY <2>2, <2>3, MockReload
  <1>10. ASSUME NEW addr, navigateTo(addr)
         PROVE  Keep
    BY <1>10 DEF navigateTo, Keep
  <1>11. ASSUME NEW addr \in UNION {lists[panel] : panel \in DOMAIN lists}, onDoubleClicked(addr)
         PROVE  Keep
    BY <1>10, <1>11 DEF onDoubleClicked
  <1>12. ASSUME NEW i \in DOMAIN graph.scene.items, onBlockActivated(i)
         PROVE  Keep
    BY <1>10, <1>12 DEF onBlockActivated
  <1>13. ASSUME NEW addr \in Clickable, overviewPressed(addr)
         PROVE  Keep
    BY <1>10, <1>13 DEF overviewPressed
  <1>14. ASSUME NEW value \in 0 .. scrollMax(grid), overviewScrolled(value)
         PROVE  Keep
    BY <1>14 DEF overviewScrolled, Keep
  <1>15. ASSUME NEW pos, picked(pos)
         PROVE  Keep
    <2>1. CASE stripAddressAt(strip, pos) # 0
      BY <1>10, <1>15, <2>1 DEF picked
    <2>2. CASE stripAddressAt(strip, pos) = 0
      BY <1>15, <2>2 DEF picked, Keep
    <2> QED
      BY <2>1, <2>2
  <1>16. ASSUME NEW pos \in session.points, stripPressed(pos) \/ stripMoved(pos)
         PROVE  Keep
    BY <1>15, <1>16 DEF stripPressed, stripMoved
  <1>17. CASE stripReleased
    <2>1. Keep
      BY <1>17 DEF stripReleased, Keep
    <2>2. Others
      BY <1>17 DEF Others
    <2> QED
      BY <2>1, <2>2
  <1>18. ASSUME NEW v \in session.pages, selectView(v)
         PROVE  Keep
    <2>1. CASE v = "Linear"
      BY <1>18, <2>1 DEF selectView, Keep
    <2>2. CASE v # "Linear"
      BY <1>18, <2>2 DEF selectView, Keep
    <2> QED
      BY <2>1, <2>2
  <1>19. ASSUME NEW sz \in session.sizes, resizeEvent(sz)
         PROVE  Keep
    BY <1>19 DEF resizeEvent, Keep
  <1> QED
    BY <1>3, <1>4, <1>5, <1>7, <1>8, <1>9, <1>11, <1>12, <1>13, <1>14, <1>16, <1>17, <1>18, <1>19
    DEF Next, Others

-----------------------------------------------------------------------------
(* The disassembly table, the mock and the registers                         *)

\* prev_values_ are those of the last load, and the last load was of this state.
Loaded ==
  /\ registers.prev = << >> \/ registers.prev = irida_registers(session)
  /\ RedIsReal

TableInv ==
  SessionOK(session) /\ TableShape(table) /\ Listed(session, table) /\ Exact(session, table) /\ Loaded

\* The register list is a sequence.
LEMMA RegistersListed ==
  ASSUME NEW s
  PROVE  /\ DOMAIN irida_registers(s) = 1 .. Len(irida_registers(s))
         /\ Len(irida_registers(s)) \in Nat
  <1>1. CASE s.kind = "Mock"
    <2>1. irida_registers(s) = <<s.mock.rax, s.mock.rcx>>
      BY <1>1 DEF irida_registers, mock_registers
    <2>2. Len(<<s.mock.rax, s.mock.rcx>>) = 2 /\ DOMAIN <<s.mock.rax, s.mock.rcx>> = 1 .. 2
      OBVIOUS
    <2> QED
      BY <2>1, <2>2
  <1>2. CASE s.kind # "Mock"
    <2>1. irida_registers(s) = << >> /\ Len(<< >>) = 0 /\ DOMAIN << >> = 1 .. 0
      BY <1>2 DEF irida_registers
    <2> QED
      BY <2>1
  <1> QED
    BY <1>1, <1>2

\* The views start out with an exact table of a session that is just opened.
LEMMA TableInit ==
  ASSUME Init
  PROVE  TableInv
  <1>1. PICK of \in Sessions : session = of
    BY DEF Init
  <1>2. SessionOK(session)
    BY <1>1, OpenedSound
  <1>3. PICK t : /\ t = [base |-> 0, row_addrs |-> << >>,
                         view |-> [n |-> 0, bpRows |-> {}, ip |-> 0, bg |-> << >>]]
                 /\ table = disassemblyRefresh(session, t)
    BY DEF Init
  <1>4. TableShape(t)
    BY <1>3 DEF TableShape
  <1>5. TableShape(table) /\ Listed(session, table) /\ Exact(session, table)
    BY <1>2, <1>3, <1>4, RefreshExact
  <1>6. Loaded
    BY DEF Init, Loaded, RedIsReal
  <1> QED
    BY <1>2, <1>5, <1>6 DEF TableInv

\* Every event leaves the table exact and the session sound.
LEMMA TableStep ==
  ASSUME TableInv, [Next]_vars
  PROVE  TableInv'
  <1>1. Reload \/ Keep
    BY StepKinds DEF TableInv
  <1>2. CASE Reload
    <2>1. SessionOK(session') /\ table' = disassemblyRefresh(session', table)
      BY <1>2 DEF Reload, StateChanged
    <2>2. TableShape(table') /\ Listed(session', table') /\ Exact(session', table')
      BY <2>1, RefreshExact DEF TableInv
    <2>3. Loaded'
      <3>1. PICK now : now = irida_registers(session')
        OBVIOUS
      <3>2. PICK was : was = irida_registers(session)
        OBVIOUS
      <3>3. /\ DOMAIN now = 1 .. Len(now) /\ Len(now) \in Nat /\ Len(<< >>) = 0
        BY <3>1, RegistersListed
      <3>4. registers' = [prev |-> now,
                          red |-> IF Len(registers.prev) = Len(now)
                                  THEN {i \in DOMAIN now : registers.prev[i] # now[i]} ELSE {}]
        BY <1>2, <3>1 DEF Reload, StateChanged, registersRefresh
      <3>5. (now = was /\ before' = before) \/ before' = was
        BY <1>2, <3>1, <3>2 DEF Reload
      <3>6. registers.prev = << >> \/ registers.prev = was
        BY <3>2 DEF TableInv, Loaded
      <3>7. ASSUME NEW i \in registers'.red PROVE now[i] # before'[i]
        BY <3>3, <3>4, <3>5, <3>6, <3>7
      <3>8. registers'.prev = now
        BY <3>4
      <3>9. \A i \in registers'.red : irida_registers(session')[i] # before'[i]
        BY <3>1, <3>7
      <3> QED
        BY <3>1, <3>8, <3>9 DEF Loaded, RedIsReal
    <2> QED
      BY <2>1, <2>2, <2>3 DEF TableInv
  <1>3. CASE Keep
    <2>1. session' = session /\ Loaded'
      BY <1>3 DEF Keep, TableInv, Loaded, RedIsReal
    <2>2. TableShape(table') /\ Listed(session, table') /\ Exact(session, table')
      <3>1. CASE table' = table
        BY <3>1 DEF TableInv
      <3>2. CASE table' = disassemblyRefresh(session, table)
        BY <3>2, RefreshExact DEF TableInv
      <3>3. ASSUME NEW addr, table' = disassemblySetBase(session, table, addr)
            PROVE  TableShape(table') /\ Listed(session, table') /\ Exact(session, table')
        <4>1. PICK t : t = [table EXCEPT !.base = addr]
          OBVIOUS
        <4>2. TableShape(t)
          <5>1. PICK a, b, n, p, i, g :
                  table = [base |-> a, row_addrs |-> b, view |-> [n |-> n, bpRows |-> p, ip |-> i, bg |-> g]]
            BY DEF TableInv, TableShape
          <5>2. t = [base |-> addr, row_addrs |-> b, view |-> [n |-> n, bpRows |-> p, ip |-> i, bg |-> g]]
            BY <4>1, <5>1
          <5> QED
            BY <5>2 DEF TableShape
        <4>3. table' = disassemblyRefresh(session, t)
          BY <3>3, <4>1 DEF disassemblySetBase
        <4> QED
          BY <4>2, <4>3, RefreshExact DEF TableInv
      <3> QED
        BY <1>3, <3>1, <3>2, <3>3 DEF Keep
    <2> QED
      BY <2>1, <2>2 DEF TableInv
  <1> QED
    BY <1>1, <1>2, <1>3

\* The table is exact in every reachable state.
LEMMA TableInvariant == Spec => []TableInv
  <1>1. Init => TableInv
    BY TableInit
  <1>2. TableInv /\ [Next]_vars => TableInv'
    BY TableStep
  <1> QED
    BY <1>1, <1>2, PTL DEF Spec

\* The marks of the disassembly are those of the session's pc and breakpoints,
\* whatever was marked before: setRows keeps the marks of rows that went.
THEOREM ViewsMarksExact == Spec => []MarksExact
  <1>1. TableInv => MarksExact
    BY DEF TableInv, Exact, MarksExact
  <1> QED
    BY <1>1, TableInvariant, PTL

\* The mock stops at instructions of its stream only, with one breakpoint for an
\* address: find_index and mock_bp_toggle of the mock rely on it.
THEOREM ViewsListedStops == Spec => []ListedStops
  <1>1. TableInv => ListedStops
    <2> SUFFICES ASSUME TableInv PROVE ListedStops
      OBVIOUS
    <2>1. SoundMock(session.mock)
      <3>1. PICK of, m : SessionFrom(session, of, m)
        BY DEF TableInv, SessionOK
      <3>2. session.mock = m
        BY <3>1, SessionFields
      <3> QED
        BY <3>1, <3>2 DEF SessionFrom
    <2>2. PICK bps : bps = session.mock.bps
      OBVIOUS
    <2>3. SoundBps(bps) /\ DOMAIN bps = 1 .. Len(bps)
      BY <2>1, <2>2 DEF SoundMock, SoundBps
    <2>4. \A b \in ToSet(bps) : b.address \in ToSet(kStream)
      BY <2>3 DEF SoundBps, ToSet
    <2>5. \A i, j \in DOMAIN bps : bps[i].address = bps[j].address => i = j
      BY <2>3 DEF SoundBps
    <2> QED
      BY <2>1, <2>2, <2>4, <2>5 DEF ListedStops, SoundMock
  <1> QED
    BY <1>1, TableInvariant, PTL

\* A register is red only if it moved since the previous stop, however often the
\* panel was reloaded in between.
THEOREM ViewsRedIsReal == Spec => []RedIsReal
  <1>1. TableInv => RedIsReal
    BY DEF TableInv, Loaded
  <1> QED
    BY <1>1, TableInvariant, PTL

-----------------------------------------------------------------------------
(* The byte grid and the byte strip                                          *)

Grid == [start : Nat, end : Nat, value : Nat, w : Nat \ {0}, h : Nat \ {0}]
Strip == [start : Nat, end : Nat, w : Nat \ {0}, h : Nat \ {0}, pinned : BOOLEAN, dragging : BOOLEAN]

\* The extent of the image is a range of numbers.
LEMMA SpanNumbers ==
  ASSUME NEW sections \in Seq(Section)
  PROVE  Span(sections).start \in Nat /\ Span(sections).end \in Nat
  <1> DEFINE mapped == {s \in ToSet(sections) : s.vsize # 0}
             starts == {s.vaddr : s \in mapped}
             ends == {s.vaddr + s.vsize : s \in mapped}
             q == [i \in 1 .. Len(sections) |-> sections[i].vaddr + sections[i].vsize]
  <1>1. \A i \in 1 .. Len(sections) : sections[i] \in Section
    BY ElementOfSeq
  <1>2. \A s \in mapped : s \in Section /\ \E i \in 1 .. Len(sections) : s = sections[i]
    BY <1>1 DEF ToSet
  <1>3. starts \in SUBSET Nat /\ ends \in SUBSET Nat
    BY <1>2 DEF Section
  <1>4. q \in Seq(Nat) /\ Len(q) = Len(sections)
    <2>1. Len(sections) \in Nat
      OBVIOUS
    <2>2. \A i \in 1 .. Len(sections) : sections[i].vaddr + sections[i].vsize \in Nat
      BY <1>1 DEF Section
    <2> QED
      BY <2>1, <2>2
  <1>5. \A e \in ends : \E i \in 1 .. Len(sections) : e = q[i]
    BY <1>2
  <1>6. CASE mapped = {}
    BY <1>6 DEF Span
  <1>7. CASE mapped # {}
    <2>1. Span(sections) = [start |-> Min(starts), end |-> Max(ends)]
      BY <1>7 DEF Span
    <2>2. starts # {} /\ ends # {}
      BY <1>7
    <2> HIDE DEF mapped, starts, ends, q
    <2>3. PICK b \in Nat : \A i \in 1 .. Len(q) : q[i] <= b
      BY <1>4, Bounded
    <2>4. \A e \in ends : e <= b
      BY <1>4, <1>5, <2>3
    <2>5. Min(starts) \in Nat
      BY <1>3, <2>2, MinOfSet
    <2>6. Max(ends) \in Nat
      BY <1>3, <2>2, <2>4, MaxOfSet
    <2> QED
      BY <2>1, <2>5, <2>6
  <1> QED
    BY <1>6, <1>7

\* C++ division yields an integer, and from zero up it rounds down.
LEMMA QuotientNumber ==
  ASSUME NEW a \in Int, NEW b \in Nat \ {0}
  PROVE  Quotient(a, b) \in Int /\ (a >= 0 => Quotient(a, b) = a \div b /\ Quotient(a, b) >= 0)
  <1>1. CASE a >= 0
    <2>1. a \in Nat /\ Quotient(a, b) = a \div b
      BY <1>1 DEF Quotient
    <2> QED
      BY <2>1, DivMod
  <1>2. CASE ~(a >= 0)
    <2>1. -a \in Nat /\ Quotient(a, b) = -((-a) \div b)
      BY <1>2 DEF Quotient
    <2>2. (-a) \div b \in Nat
      BY <2>1, DivMod
    <2> QED
      BY <1>2, <2>1, <2>2
  <1> QED
    BY <1>1, <1>2

\* Cells, margins and columns have a size.
LEMMA CellNumbers ==
  cellW_ \in Nat \ {0} /\ cellH_ \in Nat \ {0} /\ gutterW_ \in Nat \ {0} /\ kMargin \in Nat \ {0}
  /\ cols_ \in Nat \ {0}
  BY GridAssumption

\* A grid has a column and a visible row at least, whatever its size.
LEMMA GridNumbers ==
  ASSUME NEW g, g.w \in Nat, g.h \in Nat
  PROVE  columns(g) \in Nat \ {0} /\ visibleRows(g) \in Nat \ {0}
  <1>1. PICK a : a = Quotient(g.w - gutterW_ - kMargin, cellW_)
    OBVIOUS
  <1>2. PICK b : b = Quotient(g.h - kMargin, cellH_)
    OBVIOUS
  <1>3. a \in Int /\ b \in Int
    <2>1. g.w - gutterW_ - kMargin \in Int /\ g.h - kMargin \in Int
      BY CellNumbers
    <2> QED
      BY <1>1, <1>2, <2>1, CellNumbers, QuotientNumber
  <1>4. columns(g) = Max({1, a}) /\ visibleRows(g) = Max({1, b})
    BY <1>1, <1>2 DEF columns, visibleRows
  <1> QED
    BY <1>3, <1>4, MaxOfTwo

\* The scroll bar reaches far enough to show the row of every byte, and no further.
LEMMA ScrollNumbers ==
  ASSUME NEW g \in Grid
  PROVE  /\ scrollMax(g) \in Nat
         /\ \A o \in 0 .. g.end - g.start - 1 : o \div columns(g) < scrollMax(g) + visibleRows(g)
  <1>t. g.start \in Nat /\ g.end \in Nat /\ columns(g) \in Nat \ {0} /\ visibleRows(g) \in Nat \ {0}
    BY GridNumbers DEF Grid
  <1>1. CASE g.end <= g.start
    BY <1>1, <1>t DEF scrollMax
  <1>2. CASE ~(g.end <= g.start)
    <2>1. PICK n : n = g.end - g.start
      OBVIOUS
    <2>2. PICK k : k = columns(g)
      OBVIOUS
    <2>3. PICK v : v = visibleRows(g)
      OBVIOUS
    <2>4. n \in Nat /\ k \in Nat \ {0} /\ v \in Nat \ {0} /\ 0 \in 0 .. n - 1
      BY <1>2, <1>t, <2>1, <2>2, <2>3
    <2>5. PICK rows : rows = RoundUp(n, k)
      OBVIOUS
    <2>6. rows \in Nat /\ \A o \in 0 .. n - 1 : o \div k <= rows - 1
      BY <2>4, <2>5, RowsRoundUp
    <2>7. scrollMax(g) = Max({0, rows - v})
      BY <1>2, <2>1, <2>2, <2>3, <2>5 DEF scrollMax
    <2>8. scrollMax(g) = IF 0 <= rows - v THEN rows - v ELSE 0
      BY <2>4, <2>6, <2>7, MaxOfTwo
    <2>9. \A o \in 0 .. n - 1 : o \div k \in Nat
      BY <2>4, DivMod
    <2>10. ASSUME NEW o \in 0 .. n - 1 PROVE o \div k < scrollMax(g) + v
      <3>1. PICK x : x = o \div k
        OBVIOUS
      <3>2. x \in Nat /\ x <= rows - 1
        BY <2>6, <2>9, <2>10, <3>1
      <3>3. PICK m : m = scrollMax(g)
        OBVIOUS
      <3>4. m = IF 0 <= rows - v THEN rows - v ELSE 0
        BY <2>8, <3>3
      <3>5. x < m + v
        BY <2>4, <2>6, <3>2, <3>4
      <3> QED
        BY <3>1, <3>3, <3>5
    <2> QED
      BY <2>1, <2>2, <2>3, <2>4, <2>6, <2>8, <2>10
  <1> QED
    BY <1>1, <1>2

\* A point of a painted cell stands for the cell's byte.
LEMMA GridClick ==
  ASSUME NEW g \in Grid, NEW cell \in Painted(g), NEW dx \in 0 .. cellW_ - 1, NEW dy \in 0 .. cellH_ - 1
  PROVE  addressAt(g, [x |-> Origin(cell).x + dx, y |-> Origin(cell).y + dy]) = cell.addr
  <1>1. PICK k : k = columns(g)
    OBVIOUS
  <1>2. PICK v : v = visibleRows(g)
    OBVIOUS
  <1>t. /\ g.start \in Nat /\ g.end \in Nat /\ g.value \in Nat /\ k \in Nat \ {0} /\ v \in Nat \ {0}
    BY <1>1, <1>2, GridNumbers DEF Grid
  <1>3. PICK r \in 0 .. v, c \in 0 .. k - 1 :
          cell = [r |-> r, c |-> c, addr |-> g.start + (g.value + r) * k + c] /\ cell.addr < g.end
    BY <1>1, <1>2 DEF Painted
  <1>4. PICK pos : pos = [x |-> gutterW_ + c * cellW_ + dx, y |-> kMargin + r * cellH_ + dy]
    OBVIOUS
  <1>5. pos = [x |-> Origin(cell).x + dx, y |-> Origin(cell).y + dy]
    BY <1>3, <1>4 DEF Origin
  <1>6. Quotient(pos.y - kMargin, cellH_) = r
    <2>1. r \in Nat /\ dy \in Nat /\ cellH_ \in Nat \ {0} /\ kMargin \in Nat
      BY <1>t, CellNumbers
    <2>2. PICK p \in Nat : p = r * cellH_
      BY <2>1
    <2>3. pos.y - kMargin = r * cellH_ + dy /\ r * cellH_ + dy \in Nat
      BY <1>4, <2>1, <2>2
    <2>4. (r * cellH_ + dy) \div cellH_ = r
      BY <2>1, DivIs
    <2>5. PICK q : q = r * cellH_ + dy
      OBVIOUS
    <2>6. q \in Nat /\ q \in Int /\ q >= 0 /\ q \div cellH_ = r /\ pos.y - kMargin = q
      BY <2>3, <2>4, <2>5
    <2>7. Quotient(q, cellH_) = q \div cellH_
      BY <2>1, <2>6, QuotientNumber
    <2> QED
      BY <2>6, <2>7
  <1>7. Quotient(pos.x - gutterW_, cellW_) = c
    <2>1. c \in Nat /\ dx \in Nat /\ cellW_ \in Nat \ {0} /\ gutterW_ \in Nat
      BY <1>t, CellNumbers
    <2>2. PICK p \in Nat : p = c * cellW_
      BY <2>1
    <2>3. pos.x - gutterW_ = c * cellW_ + dx /\ c * cellW_ + dx \in Nat
      BY <1>4, <2>1, <2>2
    <2>4. (c * cellW_ + dx) \div cellW_ = c
      BY <2>1, DivIs
    <2>5. PICK q : q = c * cellW_ + dx
      OBVIOUS
    <2>6. q \in Nat /\ q \in Int /\ q >= 0 /\ q \div cellW_ = c /\ pos.x - gutterW_ = q
      BY <2>3, <2>4, <2>5
    <2>7. Quotient(q, cellW_) = q \div cellW_
      BY <2>1, <2>6, QuotientNumber
    <2> QED
      BY <2>6, <2>7
  <1>8. Clamp(c, 0, k - 1) = c
    BY <1>t DEF Clamp
  <1>9. PICK p \in Nat : p = (g.value + r) * k
    <2>1. g.value + r \in Nat
      BY <1>t
    <2> QED
      BY <1>t, <2>1
  <1>10. cell.addr = g.start + p + c /\ g.start + p + c < g.end
    BY <1>3, <1>9
  <1>11. ~(g.end <= g.start) /\ g.value + r >= 0
    BY <1>10, <1>t
  <1>12. addressAt(g, pos) = g.start + p + c
    BY <1>1, <1>6, <1>7, <1>8, <1>9, <1>10, <1>11 DEF addressAt
  <1> QED
    BY <1>5, <1>10, <1>12

\* The point of the grid is a number whatever the point.
LEMMA GridAddress ==
  ASSUME NEW g \in Grid, NEW x \in Nat, NEW y \in Nat
  PROVE  addressAt(g, [x |-> x, y |-> y]) \in Nat
  <1>1. PICK k : k = columns(g)
    OBVIOUS
  <1>t. g.start \in Nat /\ g.end \in Nat /\ g.value \in Nat /\ k \in Nat \ {0}
    BY <1>1, GridNumbers DEF Grid
  <1>2. PICK a : a = Quotient(y - kMargin, cellH_)
    OBVIOUS
  <1>3. PICK b : b = Quotient(x - gutterW_, cellW_)
    OBVIOUS
  <1>4. a \in Int /\ b \in Int
    <2>1. y - kMargin \in Int /\ x - gutterW_ \in Int
      BY CellNumbers
    <2> QED
      BY <1>2, <1>3, <2>1, CellNumbers, QuotientNumber
  <1>5. PICK c : c = Clamp(b, 0, k - 1)
    OBVIOUS
  <1>6. c \in Nat
    BY <1>4, <1>5, <1>t DEF Clamp
  <1>7. PICK row : row = g.value + a
    OBVIOUS
  <1>8. row \in Int /\ (row >= 0 => row * k \in Nat)
    BY <1>4, <1>7, <1>t
  <1>9. PICK p : p = row * k
    OBVIOUS
  <1>10. addressAt(g, [x |-> x, y |-> y]) =
           IF g.end <= g.start THEN 0
           ELSE IF row >= 0 /\ g.start + p + c < g.end THEN g.start + p + c ELSE 0
    BY <1>1, <1>2, <1>3, <1>5, <1>7, <1>9 DEF addressAt
  <1> QED
    BY <1>6, <1>8, <1>9, <1>10, <1>t

\* Multiplication by a natural is monotonic.
LEMMA MulMono ==
  ASSUME NEW a \in Nat, NEW b \in Nat, a <= b, NEW k \in Nat
  PROVE  a * k \in Nat /\ b * k \in Nat /\ a * k <= b * k
  <1>1. PICK d \in Nat : b = a + d
    BY b - a \in Nat, b = a + (b - a)
  <1>2. d * k \in Nat /\ a * k \in Nat /\ b * k = a * k + d * k
    BY <1>1
  <1> QED
    BY <1>2

\* A row of pixels stands for whole columns, and the rows for the whole image.
LEMMA StripNumbers ==
  ASSUME NEW s \in Strip, s.end > s.start, NEW B, B = bytesPerRow(s), NEW k, k = colBytes(s)
  PROVE  B \in Nat \ {0} /\ k \in Nat \ {0} /\ B = cols_ * k /\ s.end - s.start <= B * s.h
  <1>t. /\ s.start \in Nat /\ s.end \in Nat /\ s.h \in Nat \ {0} /\ cols_ \in Nat \ {0}
    BY CellNumbers DEF Strip
  <1>1. PICK n \in Nat \ {0} : n = s.end - s.start
    BY <1>t
  <1>2. PICK h \in Nat \ {0} : h = s.h
    BY <1>t
  <1>3. PICK q \in Nat \ {0} : q = RoundUp(n, h) /\ n <= q * h
    <2>1. 0 \in 0 .. n - 1
      OBVIOUS
    <2>2. RoundUp(n, h) \in Nat /\ n <= RoundUp(n, h) * h
      BY <2>1, RowsRoundUp
    <2>3. RoundUp(n, h) # 0
      BY <2>2
    <2> QED
      BY <2>2, <2>3
  <1>4. PICK r \in Nat \ {0} : r = RoundUp(q, cols_) /\ q <= r * cols_
    <2>1. 0 \in 0 .. q - 1
      OBVIOUS
    <2>2. RoundUp(q, cols_) \in Nat /\ q <= RoundUp(q, cols_) * cols_
      BY <1>t, <2>1, RowsRoundUp
    <2>3. RoundUp(q, cols_) # 0
      BY <1>t, <2>2
    <2> QED
      BY <2>2, <2>3
  <1>5. PICK M \in Nat : M = r * cols_ /\ q <= M
    BY <1>4, <1>t
  <1>6. bytesPerRow(s) = Max({cols_, M})
    <2>1. ~(s.end <= s.start \/ s.h <= 0)
      BY <1>t
    <2>2. RoundUp(RoundUp(s.end - s.start, s.h), cols_) * cols_ = M
      BY <1>1, <1>2, <1>3, <1>4, <1>5
    <2> QED
      BY <2>1, <2>2 DEF bytesPerRow
  <1>7. B = IF cols_ <= M THEN M ELSE cols_
    BY <1>6, <1>t, MaxOfTwo
  <1>8. B \in Nat \ {0} /\ M <= B
    BY <1>7, <1>t
  <1>9. PICK j \in Nat \ {0} : B = j * cols_
    <2>1. CASE B = M
      BY <1>5, <2>1
    <2>2. CASE B = cols_
      BY <1>t, <2>2, cols_ = 1 * cols_
    <2> QED
      BY <1>7, <2>1, <2>2
  <1>10. B \div cols_ = j
    <2>1. (j * cols_ + 0) \div cols_ = j
      BY <1>t, 0 \in 0 .. cols_ - 1, DivIs
    <2>2. PICK z \in Nat : z = j * cols_
      BY <1>t
    <2> QED
      BY <1>9, <2>1, <2>2
  <1>11. k = j
    <2>1. colBytes(s) = Max({1, j})
      BY <1>10 DEF colBytes
    <2> QED
      BY <2>1, MaxOfTwo
  <1>12. q * h <= B * h
    BY <1>5, <1>8, MulMono
  <1>13. q * h \in Nat /\ B * h \in Nat
    BY <1>8
  <1>14. B = cols_ * j
    BY <1>9, <1>t
  <1> QED
    BY <1>1, <1>2, <1>3, <1>8, <1>11, <1>12, <1>13, <1>14

\* The run of bytes a cell is coloured by.
Run(s, B, k, y, c) ==
  [y |-> y, c |-> c, first |-> s.start + y * B + c * k,
   len |-> Min({k, Min({B, s.end - (s.start + y * B)}) - c * k})]

\* The cells of the strip, without the set comprehension: the runs that begin
\* inside the image and the row.
LEMMA CellsAre ==
  ASSUME NEW s \in Strip, s.end > s.start, NEW B, B = bytesPerRow(s), NEW k, k = colBytes(s)
  PROVE  \A cell : cell \in Runs(s) <=>
           /\ \E y \in 0 .. s.h - 1, c \in 0 .. cols_ - 1 : cell = Run(s, B, k, y, c)
           /\ s.start + cell.y * B < s.end
           /\ cell.c * k < Min({B, s.end - (s.start + cell.y * B)})
  <1>1. ~(s.w <= 0 \/ s.h <= 0 \/ s.end <= s.start)
    BY DEF Strip
  <1> DEFINE T == {Run(s, B, k, y, c) : y \in 0 .. s.h - 1, c \in 0 .. cols_ - 1}
  <1>3. Runs(s) = {cell \in T : /\ s.start + cell.y * B < s.end
                                 /\ cell.c * k < Min({B, s.end - (s.start + cell.y * B)})}
    BY <1>1 DEF Runs, Run
  <1>4. \A cell : cell \in T <=> \E y \in 0 .. s.h - 1, c \in 0 .. cols_ - 1 : cell = Run(s, B, k, y, c)
    OBVIOUS
  <1> HIDE DEF T
  <1> QED
    BY <1>3, <1>4

\* A cell is painted with a byte just when the byte is within its reach.
LEMMA RunHas ==
  ASSUME NEW s \in Strip, s.end > s.start, NEW B, B = bytesPerRow(s), NEW k, k = colBytes(s),
         NEW y \in 0 .. s.h - 1, NEW c \in 0 .. cols_ - 1, NEW o \in 0 .. s.end - s.start - 1
  PROVE  /\ y * B \in Nat /\ c * k \in Nat /\ c * k + k <= B
         /\ Run(s, B, k, y, c).first = s.start + y * B + c * k
         /\ (/\ Run(s, B, k, y, c) \in Runs(s) /\ Run(s, B, k, y, c).first <= s.start + o
             /\ s.start + o < Run(s, B, k, y, c).first + Run(s, B, k, y, c).len)
              <=> (y * B + c * k <= o /\ o < y * B + c * k + k)
  <1>t. /\ s.start \in Nat /\ s.end \in Nat /\ s.h \in Nat \ {0} /\ cols_ \in Nat \ {0}
    BY CellNumbers DEF Strip
  <1>1. B \in Nat \ {0} /\ k \in Nat \ {0} /\ B = cols_ * k /\ y \in Nat /\ c \in Nat /\ c + 1 <= cols_
    BY <1>t, StripNumbers
  <1>2. PICK P \in Nat : P = y * B
    BY <1>1
  <1>3. PICK Q \in Nat : Q = c * k
    BY <1>1
  <1>4. Q + k <= B
    <2>1. (c + 1) * k <= cols_ * k /\ (c + 1) * k = c * k + k
      BY <1>1, <1>t, MulMono
    <2> QED
      BY <1>1, <1>3, <2>1
  <1>5. PICK want : want = Min({B, s.end - (s.start + P)})
    OBVIOUS
  <1>6. want = IF B <= s.end - (s.start + P) THEN B ELSE s.end - (s.start + P)
    BY <1>1, <1>5, <1>t, MinOfTwo
  <1>7. want \in Int
    BY <1>1, <1>6, <1>t
  <1>8. PICK len : len = Min({k, want - Q})
    OBVIOUS
  <1>9. len = IF k <= want - Q THEN k ELSE want - Q
    BY <1>1, <1>7, <1>8, MinOfTwo
  <1>10. PICK u : u = Run(s, B, k, y, c)
    OBVIOUS
  <1>11. u = [y |-> y, c |-> c, first |-> s.start + P + Q, len |-> len]
    BY <1>2, <1>3, <1>5, <1>8, <1>10 DEF Run
  <1>12. u \in Runs(s) <=> (s.start + P < s.end /\ Q < want)
    <2>1. \E yy \in 0 .. s.h - 1, cc \in 0 .. cols_ - 1 : u = Run(s, B, k, yy, cc)
      BY <1>10
    <2>2. u \in Runs(s) <=> (/\ s.start + u.y * B < s.end
                              /\ u.c * k < Min({B, s.end - (s.start + u.y * B)}))
      BY <2>1, CellsAre
    <2>3. u.y * B = P /\ u.c * k = Q
      BY <1>2, <1>3, <1>11
    <2> QED
      BY <1>5, <2>2, <2>3
  <1>13. u.first = s.start + P + Q /\ u.len = len
    BY <1>11
  <1>14. (/\ s.start + P < s.end /\ Q < want /\ s.start + P + Q <= s.start + o
          /\ s.start + o < s.start + P + Q + len)
           <=> (P + Q <= o /\ o < P + Q + k)
    BY <1>1, <1>4, <1>6, <1>9, <1>t
  <1> QED
    BY <1>2, <1>3, <1>4, <1>10, <1>12, <1>13, <1>14

\* The layout has every byte of the image once, in the row of pixels it falls into.
LEMMA StripOnce ==
  ASSUME NEW s \in Strip, s.end > s.start, NEW addr \in s.start .. s.end - 1,
         NEW B, B = bytesPerRow(s), NEW k, k = colBytes(s)
  PROVE  \E y \in 0 .. s.h - 1, c \in 0 .. cols_ - 1 :
           /\ y = (addr - s.start) \div B
           /\ Over(Runs(s), addr) = {Run(s, B, k, y, c)}
  <1>t. /\ s.start \in Nat /\ s.end \in Nat /\ s.h \in Nat \ {0} /\ cols_ \in Nat \ {0}
    BY CellNumbers DEF Strip
  <1>1. B = bytesPerRow(s)
    OBVIOUS
  <1>2. k = colBytes(s)
    OBVIOUS
  <1>3. B \in Nat \ {0} /\ k \in Nat \ {0} /\ B = cols_ * k /\ s.end - s.start <= B * s.h
    BY <1>1, <1>2, StripNumbers
  <1>4. PICK o \in 0 .. s.end - s.start - 1 : addr = s.start + o
    BY <1>t, addr - s.start \in 0 .. s.end - s.start - 1, addr = s.start + (addr - s.start)
  <1>5. PICK y : y = o \div B
    OBVIOUS
  <1>6. y \in Nat /\ y * B <= o /\ o < y * B + B /\ y * B \in Nat
    BY <1>3, <1>5, DivMod
  <1>7. y \in 0 .. s.h - 1
    <2>1. CASE s.h <= y
      <3>1. s.h * B <= y * B /\ s.h * B \in Nat /\ B * s.h = s.h * B
        BY <1>3, <1>6, <1>t, <2>1, MulMono
      <3>2. PICK P \in Nat : P = y * B
        BY <1>6
      <3>3. PICK H \in Nat : H = s.h * B
        BY <3>1
      <3> QED
        BY <1>3, <1>6, <1>t, <3>1, <3>2, <3>3
    <2> QED
      BY <1>6, <1>t, <2>1
  <1>8. PICK d \in 0 .. B - 1 : d = o - y * B
    <2>1. PICK P \in Nat : P = y * B
      BY <1>6
    <2> QED
      BY <1>3, <1>6, <2>1
  <1>9. PICK c : c = d \div k
    OBVIOUS
  <1>10. c \in Nat /\ c * k <= d /\ d < c * k + k /\ c * k \in Nat
    BY <1>3, <1>9, DivMod
  <1>11. c \in 0 .. cols_ - 1
    <2>1. CASE cols_ <= c
      <3>1. cols_ * k <= c * k
        BY <1>3, <1>10, <1>t, <2>1, MulMono
      <3>2. PICK Q \in Nat : Q = c * k
        BY <1>10
      <3> QED
        BY <1>3, <1>8, <1>10, <3>1, <3>2
    <2> QED
      BY <1>10, <1>t, <2>1
  <1>12. y * B + c * k <= o /\ o < y * B + c * k + k
    <2>1. PICK P \in Nat : P = y * B
      BY <1>6
    <2>2. PICK Q \in Nat : Q = c * k
      BY <1>10
    <2> QED
      BY <1>3, <1>8, <1>10, <2>1, <2>2
  <1>13. PICK u : u = Run(s, B, k, y, c)
    OBVIOUS
  <1>14. u \in Runs(s) /\ u.first <= addr /\ addr < u.first + u.len
    BY <1>1, <1>2, <1>4, <1>7, <1>11, <1>12, <1>13, RunHas
  <1>15. ASSUME NEW cell \in Runs(s), cell.first <= addr, addr < cell.first + cell.len
         PROVE  cell = u
    <2>1. PICK y2 \in 0 .. s.h - 1, c2 \in 0 .. cols_ - 1 : cell = Run(s, B, k, y2, c2)
      <3>1. cell \in Runs(s) <=>
              /\ \E y2 \in 0 .. s.h - 1, c2 \in 0 .. cols_ - 1 : cell = Run(s, B, k, y2, c2)
              /\ s.start + cell.y * B < s.end
              /\ cell.c * k < Min({B, s.end - (s.start + cell.y * B)})
        BY <1>1, <1>2, CellsAre
      <3> QED
        BY <1>15, <3>1
    <2>2. y2 * B + c2 * k <= o /\ o < y2 * B + c2 * k + k /\ c2 * k + k <= B
          /\ y2 * B \in Nat /\ c2 * k \in Nat
      BY <1>1, <1>2, <1>4, <1>15, <2>1, RunHas
    <2>3. y2 \in Nat /\ c2 \in Nat
      BY <1>t
    <2>4. PICK P \in Nat : P = y2 * B
      BY <2>2
    <2>5. PICK Q \in Nat : Q = c2 * k
      BY <2>2
    <2>6. PICK e \in 0 .. B - 1 : o = P + e
      BY <1>3, <2>2, <2>4, <2>5, o - P \in 0 .. B - 1, o = P + (o - P)
    <2>7. (y2 * B + e) \div B = y2
      BY <1>3, <2>3, <2>6, DivIs
    <2>8. y2 = y
      BY <1>5, <2>4, <2>6, <2>7
    <2>9. e = d
      <3>1. P = y * B
        BY <2>4, <2>8
      <3> QED
        BY <1>8, <2>6, <3>1
    <2>10. PICK f \in 0 .. k - 1 : d = Q + f
      BY <1>3, <2>2, <2>4, <2>5, <2>6, <2>9, d - Q \in 0 .. k - 1, d = Q + (d - Q)
    <2>11. (c2 * k + f) \div k = c2
      BY <1>3, <2>3, <2>10, DivIs
    <2>12. c2 = c
      BY <1>9, <2>5, <2>10, <2>11
    <2> QED
      BY <1>13, <2>1, <2>8, <2>12
  <1>16. Over(Runs(s), addr) = {u}
    BY <1>14, <1>15 DEF Over
  <1>17. y = (addr - s.start) \div B
    BY <1>4, <1>5, <1>t
  <1> QED
    BY <1>7, <1>11, <1>13, <1>16, <1>17

\* What a read of the strip's bytes may answer, and a run as far as it is coloured.
ReadsOf(s, reach) == reach \in [s.start .. s.end - 1 -> Nat]
Cut(s, x, reach) == [x EXCEPT !.len = Have(s, x, reach)]

\* How long a run is coloured, of the len bytes it has and the r the read returned.
CutLength(B, r, Q, len) == Min({len, Max({0, Min({B, r}) - Q})})

\* The arithmetic of it, with the three clamps spelled out.
LEMMA CutNumbers ==
  ASSUME NEW B \in Nat, NEW r \in Nat, NEW Q \in Nat, NEW len \in Int,
         NEW got \in Nat, got = IF B <= r THEN B ELSE r,
         NEW m \in Int, m = IF 0 <= got - Q THEN got - Q ELSE 0,
         NEW h \in Int, h = IF len <= m THEN len ELSE m, NEW d \in Nat
  PROVE  d < h <=> (d < len /\ Q + d < B /\ Q + d < r)
  <1>1. d < h <=> (d < len /\ d < m)
    OBVIOUS
  <1>2. d < m <=> Q + d < got
    OBVIOUS
  <1>3. Q + d < got <=> (Q + d < B /\ Q + d < r)
    OBVIOUS
  <1> QED
    BY <1>1, <1>2, <1>3

CutSound(h, len, Q, B, r) ==
  h \in Int /\ \A d \in Nat : d < h <=> (d < len /\ Q + d < B /\ Q + d < r)

\* The byte d of a run is coloured: it is in the run, and the read of the row, of B
\* bytes at most, has got to it; len bytes are in the run, Q bytes in the row before it.
LEMMA CutAt ==
  ASSUME NEW B \in Nat, NEW r \in Nat, NEW Q \in Nat, NEW len \in Int,
         NEW h, h = CutLength(B, r, Q, len)
  PROVE  CutSound(h, len, Q, B, r)
  <1>1. PICK got : got = Min({B, r})
    OBVIOUS
  <1>2. got \in Nat /\ got = IF B <= r THEN B ELSE r
    BY <1>1, MinOfTwo
  <1>3. PICK m : m = Max({0, got - Q})
    OBVIOUS
  <1>4. m \in Int /\ m = IF 0 <= got - Q THEN got - Q ELSE 0
    BY <1>2, <1>3, MaxOfTwo
  <1>5. h = Min({len, m})
    BY <1>1, <1>3 DEF CutLength
  <1>6. h \in Int /\ h = IF len <= m THEN len ELSE m
    BY <1>4, <1>5, MinOfTwo
  <1> QED
    BY <1>2, <1>4, <1>6, CutNumbers DEF CutSound

\* The length of a run is a number.
LEMMA RunLength ==
  ASSUME NEW B \in Nat, NEW k \in Nat, NEW Q \in Nat, NEW rest \in Int
  PROVE  Min({k, Min({B, rest}) - Q}) \in Int
  <1>1. PICK want : want = Min({B, rest})
    OBVIOUS
  <1>2. want \in Int
    BY <1>1, MinOfTwo
  <1>3. Min({k, want - Q}) \in Int
    BY <1>2, MinOfTwo
  <1> QED
    BY <1>1, <1>3

\* A byte of a run is coloured just when the read of its row has got to it.
HaveSound(s, u, B, P, Q, reach) ==
  /\ Cut(s, u, reach).first = u.first /\ Cut(s, u, reach).len = Have(s, u, reach)
  /\ Have(s, u, reach) \in Int /\ u.len \in Int
  /\ u.first = s.start + P + Q /\ u.first \in Nat
  /\ s.start + P \in s.start .. s.end - 1
  /\ \A d \in Nat : d < Have(s, u, reach) <=>
                      (d < u.len /\ Q + d < B /\ Q + d < reach[s.start + P])

\* Every run of the layout is coloured so.
LEMMA HaveIs ==
  ASSUME NEW s \in Strip, s.end > s.start, NEW B, B = bytesPerRow(s), NEW k, k = colBytes(s),
         NEW y \in 0 .. s.h - 1, NEW c \in 0 .. cols_ - 1, NEW u, u = Run(s, B, k, y, c), u \in Runs(s),
         NEW reach, ReadsOf(s, reach), NEW P \in Nat, P = y * B, NEW Q \in Nat, Q = c * k
  PROVE  HaveSound(s, u, B, P, Q, reach)
  <1>t. /\ s.start \in Nat /\ s.end \in Nat /\ s.h \in Nat \ {0} /\ cols_ \in Nat \ {0}
    BY CellNumbers DEF Strip
  <1>1. B \in Nat \ {0} /\ k \in Nat \ {0}
    BY <1>t, StripNumbers
  <1>6. PICK len : len = Min({k, Min({B, s.end - (s.start + P)}) - Q})
    OBVIOUS
  <1>7. len \in Int
    <2>1. s.end - (s.start + P) \in Int
      BY <1>t
    <2> QED
      BY <1>1, <1>6, <2>1, RunLength
  <1>8. u = [y |-> y, c |-> c, first |-> s.start + P + Q, len |-> len]
    BY <1>6 DEF Run
  <1>9. u.y = y /\ u.c = c /\ u.first = s.start + P + Q /\ u.len = len
    BY <1>8
  <1>10. s.start + P < s.end
    <2>1. s.start + u.y * B < s.end
      BY CellsAre
    <2> QED
      BY <1>9, <2>1
  <1>11. s.start + P \in s.start .. s.end - 1
    BY <1>10, <1>t
  <1>12. PICK r : r = reach[s.start + P]
    OBVIOUS
  <1>13. r \in Nat
    BY <1>11, <1>12 DEF ReadsOf
  <1>14. PICK h : h = CutLength(B, r, Q, len)
    OBVIOUS
  <1>15. Have(s, u, reach) = h
    BY <1>9, <1>12, <1>14 DEF Have, CutLength
  <1>16. h \in Int /\ \A d \in Nat : d < h <=> (d < len /\ Q + d < B /\ Q + d < r)
    <2>1. B \in Nat
      BY <1>1
    <2>2. CutSound(h, len, Q, B, r)
      BY <1>7, <1>13, <1>14, <2>1, CutAt
    <2> QED
      BY <2>2 DEF CutSound
  <1>17. PICK w : w = Cut(s, u, reach)
    OBVIOUS
  <1>18. w.first = u.first /\ w.len = h
    BY <1>8, <1>15, <1>17 DEF Cut
  <1>19. u.first \in Nat
    BY <1>9, <1>t
  <1> QED
    BY <1>7, <1>9, <1>11, <1>12, <1>15, <1>16, <1>17, <1>18, <1>19 DEF HaveSound

\* The read of a byte's row reaches the byte just when it colours it in its run.
LEMMA ReachAt ==
  ASSUME NEW start \in Nat, NEW P \in Nat, NEW Q \in Nat, NEW B \in Nat, NEW k \in Nat, Q + k <= B,
         NEW o \in Nat, P + Q <= o, o < P + Q + k, NEW len \in Int, start + o < start + P + Q + len,
         NEW r, r \in Nat, NEW h \in Int,
         \A d \in Nat : d < h <=> (d < len /\ Q + d < B /\ Q + d < r)
  PROVE  start + o < start + P + Q + h <=> start + o < start + P + r
  <1>1. PICK d \in Nat : d = o - P - Q
    OBVIOUS
  <1>2. d < h <=> (d < len /\ Q + d < B /\ Q + d < r)
    OBVIOUS
  <1> QED
    BY <1>1, <1>2

\* The one run that has a byte.
TheRun(s, addr, u) == Over(Runs(s), addr) = {u}

\* A run of the layout is that of a row and a column.
LEMMA RunOf ==
  ASSUME NEW s \in Strip, s.end > s.start, NEW B, B = bytesPerRow(s), NEW k, k = colBytes(s)
  PROVE  \A v \in Runs(s) : \E y \in 0 .. s.h - 1, c \in 0 .. cols_ - 1 : v = Run(s, B, k, y, c)
  <1>1. ~(s.w <= 0 \/ s.h <= 0 \/ s.end <= s.start)
    BY DEF Strip
  <1> DEFINE T == {Run(s, B, k, y, c) : y \in 0 .. s.h - 1, c \in 0 .. cols_ - 1}
  <1>3. Runs(s) = {cell \in T : /\ s.start + cell.y * B < s.end
                                /\ cell.c * k < Min({B, s.end - (s.start + cell.y * B)})}
    BY <1>1 DEF Runs, Run
  <1>4. \A cell : cell \in T <=> \E y \in 0 .. s.h - 1, c \in 0 .. cols_ - 1 : cell = Run(s, B, k, y, c)
    OBVIOUS
  <1> HIDE DEF T
  <1>5. \A v \in Runs(s) : v \in T
    BY <1>3
  <1> QED
    BY <1>4, <1>5

\* The painted cells over a byte: the run that has it, if it is coloured so far.
LEMMA PaintedOver ==
  ASSUME NEW s \in Strip, s.end > s.start, NEW addr \in s.start .. s.end - 1,
         NEW reach, ReadsOf(s, reach), NEW u, TheRun(s, addr, u)
  PROVE  \A cell \in Over(Cells(s, reach), addr) : cell = Cut(s, u, reach)
  <1>t. /\ s.start \in Nat /\ s.end \in Nat /\ s.h \in Nat \ {0} /\ cols_ \in Nat \ {0}
    BY CellNumbers DEF Strip
  <1>1. PICK B : B = bytesPerRow(s)
    OBVIOUS
  <1>2. PICK k : k = colBytes(s)
    OBVIOUS
  <1>3. B \in Nat \ {0} /\ k \in Nat \ {0}
    BY <1>1, <1>2, StripNumbers
  <1>4. SUFFICES ASSUME NEW cell \in Over(Cells(s, reach), addr) PROVE cell = Cut(s, u, reach)
    OBVIOUS
  <1>5. PICK v \in Runs(s) : cell = Cut(s, v, reach)
    BY <1>4 DEF Over, Cells, Cut
  <1>6. cell.first <= addr /\ addr < cell.first + cell.len
    BY <1>4 DEF Over
  <1>7. PICK y2 \in 0 .. s.h - 1, c2 \in 0 .. cols_ - 1 : v = Run(s, B, k, y2, c2)
    BY <1>1, <1>2, <1>5, RunOf
  <1>8. PICK P \in Nat : P = y2 * B
    BY <1>3, <1>t
  <1>9. PICK Q \in Nat : Q = c2 * k
    BY <1>3, <1>t
  <1>10. HaveSound(s, v, B, P, Q, reach)
    BY <1>1, <1>2, <1>7, <1>8, <1>9, HaveIs
  <1>11. /\ cell.first = v.first /\ cell.len = Have(s, v, reach) /\ Have(s, v, reach) \in Int
         /\ v.first \in Nat /\ v.len \in Int
         /\ \A d \in Nat : d < Have(s, v, reach) => d < v.len
    BY <1>5, <1>10 DEF HaveSound
  <1>12. addr < v.first + v.len
    <2>1. PICK f \in Nat : f = v.first
      BY <1>11
    <2>2. PICK d \in Nat : d = addr - f
      BY <1>6, <1>11, <1>t, <2>1
    <2>3. d < Have(s, v, reach)
      BY <1>6, <1>11, <1>t, <2>1, <2>2
    <2>4. d < v.len
      BY <1>11, <2>3
    <2> QED
      BY <1>11, <1>t, <2>1, <2>2, <2>4
  <1>13. v \in Over(Runs(s), addr)
    BY <1>6, <1>11, <1>12 DEF Over
  <1> QED
    BY <1>5, <1>13 DEF TheRun

\* The strip paints a byte of the image once if the read of its row reaches it, and
\* not at all otherwise.
LEMMA StripPainted ==
  ASSUME NEW s \in Strip, s.end > s.start, NEW addr \in s.start .. s.end - 1,
         NEW reach, ReadsOf(s, reach),
         NEW row, row = s.start + ((addr - s.start) \div bytesPerRow(s)) * bytesPerRow(s)
  PROVE  Cardinality(Over(Cells(s, reach), addr)) = IF addr < row + reach[row] THEN 1 ELSE 0
  <1>t. /\ s.start \in Nat /\ s.end \in Nat /\ s.h \in Nat \ {0} /\ cols_ \in Nat \ {0}
    BY CellNumbers DEF Strip
  <1>1. PICK B : B = bytesPerRow(s)
    OBVIOUS
  <1>2. PICK k : k = colBytes(s)
    OBVIOUS
  <1>3. B \in Nat \ {0} /\ k \in Nat \ {0}
    BY <1>1, <1>2, StripNumbers
  <1>4. PICK y \in 0 .. s.h - 1, c \in 0 .. cols_ - 1 :
          y = (addr - s.start) \div B /\ Over(Runs(s), addr) = {Run(s, B, k, y, c)}
    BY <1>1, <1>2, StripOnce
  <1>5. PICK u : u = Run(s, B, k, y, c)
    OBVIOUS
  <1>6. u \in Runs(s) /\ u.first <= addr /\ addr < u.first + u.len
    BY <1>4, <1>5 DEF Over
  <1>7. PICK P \in Nat : P = y * B
    BY <1>3, <1>t
  <1>8. PICK Q \in Nat : Q = c * k
    BY <1>3, <1>t
  <1>9. HaveSound(s, u, B, P, Q, reach)
    BY <1>1, <1>2, <1>5, <1>6, <1>7, <1>8, HaveIs
  <1>10. PICK cut : cut = Cut(s, u, reach)
    OBVIOUS
  <1>11. PICK h : h = Have(s, u, reach)
    OBVIOUS
  <1>12. cut.first = u.first /\ cut.len = h /\ h \in Int /\ u.len \in Int
         /\ u.first = s.start + P + Q /\ u.first \in Nat
    BY <1>9, <1>10, <1>11 DEF HaveSound
  <1>13. PICK o \in Nat : o = addr - s.start
    BY <1>t
  <1>14. o \in 0 .. s.end - s.start - 1 /\ addr = s.start + o
    BY <1>13, <1>t
  <1>15. Q + k <= B /\ P + Q <= o /\ o < P + Q + k
    BY <1>1, <1>2, <1>5, <1>6, <1>7, <1>8, <1>14, RunHas
  <1>16. row = s.start + P
    BY <1>1, <1>4, <1>7
  <1>17. PICK r : r = reach[row]
    OBVIOUS
  <1>18. /\ r \in Nat
         /\ \A d \in Nat : d < h <=> (d < u.len /\ Q + d < B /\ Q + d < r)
    BY <1>9, <1>11, <1>16, <1>17 DEF HaveSound, ReadsOf
  <1>19. s.start + o < s.start + P + Q + h <=> s.start + o < s.start + P + r
    <2>1. s.start + o < s.start + P + Q + u.len
      BY <1>6, <1>12, <1>14
    <2> QED
      BY <1>3, <1>12, <1>15, <1>18, <1>t, <2>1, ReachAt
  <1>20. addr < u.first + h <=> addr < row + r
    BY <1>12, <1>14, <1>16, <1>19
  <1>21. \A cell \in Over(Cells(s, reach), addr) : cell = cut
    BY <1>4, <1>5, <1>10, PaintedOver DEF TheRun
  <1>22. CASE addr < row + r
    <2>1. addr < u.first + h
      BY <1>20, <1>22
    <2>2. h > 0
      BY <1>6, <1>12, <1>t, <2>1
    <2>3. cut \in Cells(s, reach)
      BY <1>6, <1>10, <1>11, <2>2 DEF Cells, Cut
    <2>4. cut \in Over(Cells(s, reach), addr)
      BY <1>6, <1>12, <2>1, <2>3 DEF Over
    <2>5. Over(Cells(s, reach), addr) = {cut}
      BY <1>21, <2>4
    <2> QED
      BY <1>17, <1>22, <2>5, FS_Singleton
  <1>23. CASE ~(addr < row + r)
    <2>1. ASSUME NEW cell \in Over(Cells(s, reach), addr) PROVE FALSE
      <3>1. cell = cut /\ addr < cell.first + cell.len
        BY <1>21, <2>1 DEF Over
      <3> QED
        BY <1>12, <1>20, <1>23, <3>1
    <2>2. Over(Cells(s, reach), addr) = {}
      BY <2>1
    <2> QED
      BY <1>17, <1>23, <2>2, FS_EmptySet
  <1> QED
    BY <1>22, <1>23

\* A click on the strip stands for a number, the first byte of the cell at the
\* point, or the last byte of the image where the row has no cell.
LEMMA StripClick ==
  ASSUME NEW s \in Strip, s.end > s.start, NEW pos \in Point,
         NEW y, y = Clamp(pos.y, 0, s.h - 1), NEW addr, addr = stripAddressAt(s, pos)
  PROVE  /\ addr \in s.start .. s.end - 1
         /\ \/ \E cell \in Runs(s) : cell.y = y /\ cell.first = addr
            \/ /\ addr = s.end - 1
               /\ \E c \in 0 .. cols_ - 1 : \A cell \in Runs(s) : ~(cell.y = y /\ cell.c = c)
  <1>t. /\ s.start \in Nat /\ s.end \in Nat /\ s.h \in Nat \ {0} /\ s.w \in Nat \ {0} /\ cols_ \in Nat \ {0}
    BY CellNumbers DEF Strip
  <1>1. PICK B : B = bytesPerRow(s)
    OBVIOUS
  <1>2. PICK k : k = colBytes(s)
    OBVIOUS
  <1>3. B \in Nat \ {0} /\ k \in Nat \ {0}
    BY <1>1, <1>2, StripNumbers
  <1>4. PICK cw : cw = Max({1, s.w \div cols_})
    OBVIOUS
  <1>5. cw \in Nat \ {0}
    <2>1. s.w \div cols_ \in Nat
      BY <1>t, DivMod
    <2>2. PICK a \in Nat : a = s.w \div cols_
      BY <2>1
    <2> QED
      BY <1>4, <2>2, MaxOfTwo
  <1>6. PICK c : c = Clamp(Quotient(pos.x, cw), 0, cols_ - 1)
    OBVIOUS
  <1>7. c \in 0 .. cols_ - 1
    <2>1. Quotient(pos.x, cw) \in Int
      BY <1>5, QuotientNumber DEF Point
    <2> QED
      BY <1>6, <1>t, <2>1 DEF Clamp
  <1>8. y \in 0 .. s.h - 1
    BY <1>t DEF Clamp, Point
  <1>9. PICK a : a = s.start + y * B + c * k
    OBVIOUS
  <1>10. addr = IF a < s.end THEN a ELSE s.end - 1
    <2>1. ~(s.end <= s.start)
      BY <1>t
    <2> QED
      BY <1>1, <1>2, <1>4, <1>6, <1>9, <2>1 DEF stripAddressAt
  <1>11. y * B \in Nat /\ c * k \in Nat
    BY <1>3, <1>7, <1>8, <1>t
  <1>12. PICK o \in Nat : o = y * B + c * k
    BY <1>11
  <1>13. a = s.start + o
    BY <1>9, <1>11, <1>12, <1>t
  <1>14. CASE a < s.end
    <2>1. o \in 0 .. s.end - s.start - 1
      BY <1>13, <1>14, <1>t
    <2>2. y * B + c * k <= o /\ o < y * B + c * k + k
      BY <1>3, <1>12
    <2>3. PICK u : u = Run(s, B, k, y, c)
      OBVIOUS
    <2>4. /\ u \in Runs(s) /\ u.first <= s.start + o /\ s.start + o < u.first + u.len
          /\ u.first = s.start + y * B + c * k
      BY <1>1, <1>2, <1>7, <1>8, <2>1, <2>2, <2>3, RunHas
    <2>5. u.y = y
      BY <2>3 DEF Run
    <2>6. addr = a /\ addr = s.start + o /\ u.first = addr
      BY <1>9, <1>10, <1>13, <1>14, <2>4
    <2>7. addr \in s.start .. s.end - 1
      BY <1>t, <2>1, <2>6
    <2> QED
      BY <2>4, <2>5, <2>6, <2>7
  <1>15. CASE ~(a < s.end)
    <2>1. ASSUME NEW cell \in Runs(s), cell.y = y, cell.c = c PROVE FALSE
      <3>1. /\ s.start + y * B < s.end
            /\ c * k < Min({B, s.end - (s.start + y * B)})
        BY <1>1, <1>2, <2>1, CellsAre
      <3>2. PICK P \in Nat : P = y * B
        BY <1>11
      <3>3. PICK Q \in Nat : Q = c * k
        BY <1>11
      <3>4. Q < Min({B, s.end - (s.start + P)})
        BY <3>1, <3>2, <3>3
      <3>5. Q < s.end - (s.start + P)
        <4>1. PICK e \in Int : e = s.end - (s.start + P)
          BY <1>t
        <4>2. PICK m : m = Min({B, e})
          OBVIOUS
        <4>3. m = IF B <= e THEN B ELSE e
          BY <1>3, <4>1, <4>2, MinOfTwo
        <4> QED
          BY <1>3, <3>4, <4>1, <4>2, <4>3
      <3> QED
        BY <1>9, <1>15, <1>t, <3>2, <3>3, <3>5
    <2>2. addr = s.end - 1 /\ addr \in s.start .. s.end - 1
      BY <1>10, <1>15, <1>t
    <2> QED
      BY <1>7, <2>1, <2>2
  <1> QED
    BY <1>14, <1>15

-----------------------------------------------------------------------------
(* Where the grid stands                                                     *)

\* The scroll bar is within its range, and a range that was read is the image's.
GridInv(g, sections) ==
  /\ g \in Grid /\ g.value <= scrollMax(g)
  /\ g.end # 0 => g.start = Span(sections).start /\ g.end = Span(sections).end

\* The row of the address is between the first and the last full row shown.
Shown(g, a) ==
  /\ InGrid(g, a) /\ g.value <= (a - g.start) \div columns(g)
  /\ (a - g.start) \div columns(g) < g.value + visibleRows(g)

\* Scrolling moves the value, within the range, and nothing else.
LEMMA ScrolledGrid ==
  ASSUME NEW g \in Grid, NEW v \in Int, NEW u, u = scrolled(g, v)
  PROVE  /\ u \in Grid /\ u.value = Clamp(v, 0, scrollMax(g))
         /\ u.start = g.start /\ u.end = g.end /\ u.w = g.w /\ u.h = g.h
         /\ columns(u) = columns(g) /\ visibleRows(u) = visibleRows(g) /\ scrollMax(u) = scrollMax(g)
         /\ u.value <= scrollMax(u)
         /\ (v = g.value /\ g.value <= scrollMax(g)) => u = g
  <1>1. scrollMax(g) \in Nat
    BY ScrollNumbers
  <1>2. PICK c : c = Clamp(v, 0, scrollMax(g))
    OBVIOUS
  <1>3. c \in Nat /\ c <= scrollMax(g) /\ (v \in 0 .. scrollMax(g) => c = v)
    BY <1>1, <1>2 DEF Clamp
  <1>4. u = [g EXCEPT !.value = c]
    BY <1>2 DEF scrolled
  <1>5. u \in Grid /\ u.value = c /\ u.start = g.start /\ u.end = g.end /\ u.w = g.w /\ u.h = g.h
    BY <1>3, <1>4 DEF Grid
  <1>6. columns(u) = columns(g) /\ visibleRows(u) = visibleRows(g)
    BY <1>5 DEF columns, visibleRows
  <1>7. scrollMax(u) = scrollMax(g)
    BY <1>5, <1>6 DEF scrollMax
  <1>8. ASSUME v = g.value, g.value <= scrollMax(g) PROVE u = g
    <2>1. c = g.value
      BY <1>1, <1>3, <1>8 DEF Grid
    <2> QED
      BY <1>4, <2>1 DEF Grid
  <1> QED
    BY <1>2, <1>3, <1>5, <1>6, <1>7, <1>8

\* Setting the range of the scroll bar leaves a value within it alone.
LEMMA UpdatedGrid ==
  ASSUME NEW g \in Grid, NEW u, u = updateScrollRange(g)
  PROVE  /\ u \in Grid /\ u.value <= scrollMax(u)
         /\ u.start = g.start /\ u.end = g.end /\ u.w = g.w /\ u.h = g.h
         /\ g.value <= scrollMax(g) => u = g
  <1>1. PICK v \in Int : v = g.value
    BY DEF Grid
  <1>2. u = scrolled(g, v)
    BY <1>1 DEF updateScrollRange, scrolled
  <1>3. u \in Grid /\ u.value <= scrollMax(u)
    BY <1>2, ScrolledGrid
  <1>4. u.start = g.start /\ u.end = g.end /\ u.w = g.w /\ u.h = g.h
    BY <1>2, ScrolledGrid
  <1>5. (v = g.value /\ g.value <= scrollMax(g)) => u = g
    BY <1>2, ScrolledGrid
  <1> QED
    BY <1>1, <1>3, <1>4, <1>5

\* Moving to an address of the image shows its row.
LEMMA SetBaseShows ==
  ASSUME NEW g, NEW sections, GridInv(g, sections), NEW a \in Nat, NEW u, u = overviewSetBase(g, a)
  PROVE  /\ GridInv(u, sections)
         /\ InGrid(g, a) => Shown(u, a)
         /\ ~InGrid(g, a) => u = g
  <1>1. g \in Grid /\ g.value \in Int
    BY DEF GridInv, Grid
  <1>2. updateScrollRange(g) = g
    BY <1>1, UpdatedGrid DEF GridInv
  <1>3. CASE InGrid(g, a)
    <2>1. PICK row : row = (a - g.start) \div columns(g)
      OBVIOUS
    <2>2. g.start \in Nat /\ g.end \in Nat /\ columns(g) \in Nat \ {0} /\ visibleRows(g) \in Nat \ {0}
          /\ g.value \in Nat
      BY <1>1, GridNumbers DEF Grid
    <2>3. a - g.start \in 0 .. g.end - g.start - 1
      BY <1>3, <2>2 DEF InGrid
    <2>4. row \in Nat
      <3>1. PICK d \in Nat : d = a - g.start
        BY <2>2, <2>3
      <3> QED
        BY <2>1, <2>2, <3>1, DivMod
    <2>5. u = scrolled(g, row)
      BY <1>2, <1>3, <2>1 DEF overviewSetBase
    <2>6. /\ u \in Grid /\ u.value = Clamp(row, 0, scrollMax(g))
          /\ u.start = g.start /\ u.end = g.end
          /\ columns(u) = columns(g) /\ visibleRows(u) = visibleRows(g)
          /\ u.value <= scrollMax(u)
      BY <1>1, <2>4, <2>5, ScrolledGrid
    <2>7. row < scrollMax(g) + visibleRows(g) /\ scrollMax(g) \in Nat
      BY <1>1, <2>1, <2>3, ScrollNumbers
    <2>8. u.value <= row /\ row < u.value + visibleRows(g)
      BY <2>2, <2>4, <2>6, <2>7 DEF Clamp
    <2>9. Shown(u, a)
      BY <1>3, <2>1, <2>6, <2>8 DEF Shown, InGrid
    <2>10. GridInv(u, sections)
      BY <2>6 DEF GridInv
    <2> QED
      BY <1>3, <2>9, <2>10
  <1>4. CASE ~InGrid(g, a)
    BY <1>4 DEF overviewSetBase
  <1> QED
    BY <1>3, <1>4

\* A reload of a grid that has the image's range leaves it as it is.
LEMMA RefreshKeeps ==
  ASSUME NEW g, NEW sections \in Seq(Section), GridInv(g, sections),
         NEW u, u = overviewRefresh(g, sections)
  PROVE  GridInv(u, sections) /\ (g.end # 0 => u = g) /\ u.w = g.w /\ u.h = g.h
  <1>1. g \in Grid /\ g.value \in Int
    BY DEF GridInv, Grid
  <1>2. PICK st, en : st = Span(sections).start /\ en = Span(sections).end
    OBVIOUS
  <1>3. st \in Nat /\ en \in Nat
    BY <1>2, SpanNumbers
  <1>4. PICK x : x = [g EXCEPT !.start = st, !.end = en]
    OBVIOUS
  <1>5. x \in Grid /\ x.start = st /\ x.end = en /\ x.value = g.value /\ x.w = g.w /\ x.h = g.h
    BY <1>1, <1>3, <1>4 DEF Grid
  <1>6. u = updateScrollRange(x)
    BY <1>2, <1>4 DEF overviewRefresh, setRange
  <1>7. /\ u \in Grid /\ u.value <= scrollMax(u)
        /\ u.start = x.start /\ u.end = x.end /\ u.w = x.w /\ u.h = x.h
        /\ x.value <= scrollMax(x) => u = x
    BY <1>5, <1>6, UpdatedGrid
  <1>8. ASSUME g.end # 0 PROVE u = g
    <2>1. g.start = st /\ g.end = en
      BY <1>2, <1>8 DEF GridInv
    <2>2. x = g
      BY <1>1, <1>4, <2>1 DEF Grid
    <2> QED
      BY <1>7, <2>2 DEF GridInv
  <1> QED
    BY <1>2, <1>5, <1>7, <1>8 DEF GridInv

\* A grid that keeps its size keeps its place.
LEMMA ResizeKeeps ==
  ASSUME NEW g, NEW sections, GridInv(g, sections), NEW sz \in Size, NEW u, u = overviewResize(g, sz)
  PROVE  GridInv(u, sections) /\ ((g.w = sz.w /\ g.h = sz.h) => u = g)
  <1>1. g \in Grid /\ g.value \in Int
    BY DEF GridInv, Grid
  <1>2. PICK x : x = [g EXCEPT !.w = sz.w, !.h = sz.h]
    OBVIOUS
  <1>3. x \in Grid /\ x.start = g.start /\ x.end = g.end /\ x.value = g.value
    BY <1>1, <1>2 DEF Grid, Size
  <1>4. u = updateScrollRange(x)
    BY <1>2 DEF overviewResize
  <1>5. /\ u \in Grid /\ u.value <= scrollMax(u)
        /\ u.start = x.start /\ u.end = x.end /\ u.w = x.w /\ u.h = x.h
        /\ x.value <= scrollMax(x) => u = x
    BY <1>3, <1>4, UpdatedGrid
  <1>6. ASSUME g.w = sz.w, g.h = sz.h PROVE u = g
    <2>1. x = g
      BY <1>1, <1>2, <1>6 DEF Grid
    <2> QED
      BY <1>5, <2>1 DEF GridInv
  <1> QED
    BY <1>3, <1>5, <1>6 DEF GridInv

\* The user's own scrolling.
LEMMA ScrollKeeps ==
  ASSUME NEW g, NEW sections, GridInv(g, sections), NEW v \in Int, NEW u, u = scrolled(g, v)
  PROVE  GridInv(u, sections)
  <1>1. g \in Grid
    BY DEF GridInv
  <1>2. u \in Grid /\ u.start = g.start /\ u.end = g.end /\ u.value <= scrollMax(u)
    BY <1>1, ScrolledGrid
  <1> QED
    BY <1>2 DEF GridInv

\* A row that is shown paints a cell for the address.
LEMMA ShownPainted ==
  ASSUME NEW g \in Grid, NEW a \in Nat, Shown(g, a)
  PROVE  \E cell \in Painted(g) : cell.addr = a /\ cell.r < visibleRows(g)
  <1>1. PICK k : k = columns(g)
    OBVIOUS
  <1>2. PICK v : v = visibleRows(g)
    OBVIOUS
  <1>t. g.start \in Nat /\ g.end \in Nat /\ g.value \in Nat /\ k \in Nat \ {0} /\ v \in Nat \ {0}
    BY <1>1, <1>2, GridNumbers DEF Grid
  <1>3. PICK o \in Nat : o = a - g.start /\ a = g.start + o /\ a < g.end
    BY <1>t DEF Shown, InGrid
  <1>4. PICK row : row = o \div k
    OBVIOUS
  <1>5. row \in Nat /\ g.value <= row /\ row < g.value + v
    BY <1>1, <1>2, <1>3, <1>4, <1>t, DivMod DEF Shown
  <1>6. row * k <= o /\ o < row * k + k /\ row * k \in Nat
    <2>1. (o \div k) * k <= o /\ o < (o \div k) * k + k
      BY <1>t, DivMod
    <2> QED
      BY <1>4, <1>5, <1>t, <2>1
  <1>7. PICK p \in Nat : p = row * k
    BY <1>6
  <1>8. PICK c \in 0 .. k - 1 : c = o - p /\ o = p + c
    BY <1>6, <1>7, <1>t, o - p \in 0 .. k - 1, o = p + (o - p)
  <1>9. PICK r \in 0 .. v : r = row - g.value /\ g.value + r = row /\ r < v
    BY <1>5, <1>t, row - g.value \in 0 .. v
  <1>10. PICK cell : cell = [r |-> r, c |-> c, addr |-> g.start + (g.value + r) * k + c]
    OBVIOUS
  <1>11. cell.addr = a
    <2>1. (g.value + r) * k = p
      BY <1>7, <1>9
    <2>2. cell.addr = g.start + (g.value + r) * k + c
      BY <1>10
    <2> QED
      BY <1>3, <1>7, <1>8, <1>t, <2>1, <2>2
  <1>12. cell \in Painted(g)
    BY <1>1, <1>2, <1>3, <1>10, <1>11 DEF Painted
  <1>13. cell.r = r
    BY <1>10
  <1> QED
    BY <1>2, <1>9, <1>11, <1>12, <1>13

-----------------------------------------------------------------------------
(* The graph: blocks side by side                                            *)

\* Blocks with a size, at addresses of their own.
Placeable(blocks) ==
  /\ \E S : blocks \in Seq(S)
  /\ \A i \in 1 .. Len(blocks) :
       blocks[i].addr \in Int /\ Width(blocks[i]) \in Nat /\ Height(blocks[i]) \in Nat
  /\ \A i, j \in 1 .. Len(blocks) : blocks[i].addr = blocks[j].addr => i = j

\* What the block k adds to the width of a set of blocks.
Share(blocks, ids, k) == IF k \in ids THEN Width(blocks[k]) + kHorizontalSpacing ELSE 0

\* The loop Extent is defined with.
IsSumming(blocks, ids, f) ==
  f = [k \in 0 .. Len(blocks) |->
         IF k = 0 THEN 0
         ELSE f[k - 1] + IF k \in ids THEN Width(blocks[k]) + kHorizontalSpacing ELSE 0]
Summing(blocks, ids) == CHOOSE f : IsSumming(blocks, ids, f)

\* Extent is what the loop has after its last turn.
LEMMA ExtentIs ==
  ASSUME NEW blocks, NEW ids
  PROVE  Extent(blocks, ids) = Summing(blocks, ids)[Len(blocks)]
  BY Zenon DEF Extent, Summing, IsSumming

\* The shares are numbers, and the sums of them exist.
LEMMA SummingExists ==
  ASSUME NEW blocks, Placeable(blocks), NEW ids
  PROVE  /\ \A k \in 1 .. Len(blocks) : Share(blocks, ids, k) \in Nat
         /\ \E f : IsSumming(blocks, ids, f)
  <1>1. PICK n \in Nat : n = Len(blocks)
    BY DEF Placeable
  <1>2. \A k \in 1 .. n : Share(blocks, ids, k) \in Nat
    BY <1>1, LayoutAssumption DEF Placeable, Share
  <1> DEFINE turn == [p \in Nat \X Nat |-> IF p[1] \in 1 .. n THEN p[2] + Share(blocks, ids, p[1]) ELSE p[2]]
  <1>3. turn \in [Nat \X Nat -> Nat]
    BY <1>2
  <1>4. PICK f : IsRun(f, Nat, 0, turn, n)
    <2> HIDE DEF turn
    <2> QED
      BY <1>3, LoopStates
  <1>5. f = [k \in 0 .. n |-> f[k]] /\ f[0] = 0
    BY <1>4 DEF IsRun
  <1>6. ASSUME NEW k \in 1 .. n PROVE f[k] = f[k - 1] + Share(blocks, ids, k)
    <2>1. k - 1 \in 0 .. n /\ k \in Nat /\ f[k] = turn[<<k, f[k - 1]>>] /\ f[k - 1] \in Nat
      <3> HIDE DEF turn
      <3>1. k - 1 \in 0 .. n /\ k \in Nat
        OBVIOUS
      <3> QED
        BY <1>4, <3>1 DEF IsRun
    <2> QED
      BY <2>1
  <1>7. \A k \in 0 .. n : f[k] = IF k = 0 THEN 0 ELSE f[k - 1] + IF k \in ids THEN Width(blocks[k]) + kHorizontalSpacing ELSE 0
    <2> HIDE DEF turn
    <2>1. f[0] = 0 /\ n \in Nat
      BY <1>5
    <2> QED
      BY <1>6, <2>1 DEF Share
  <1>8. IsSumming(blocks, ids, f)
    <2> HIDE DEF turn
    <2> QED
      BY <1>1, <1>5, <1>7, Zenon DEF IsSumming
  <1> QED
    BY <1>1, <1>2, <1>8

\* The sums, turn by turn.
LEMMA SummingSteps ==
  ASSUME NEW blocks, Placeable(blocks), NEW ids
  PROVE  \E f : /\ Extent(blocks, ids) = f[Len(blocks)]
                /\ f[0] = 0
                /\ \A k \in 1 .. Len(blocks) : f[k] = f[k - 1] + Share(blocks, ids, k)
  <1>1. PICK f : f = Summing(blocks, ids) /\ IsSumming(blocks, ids, f)
    BY SummingExists, Zenon DEF Summing
  <1>2. Len(blocks) \in Nat
    BY DEF Placeable
  <1>3. \A k \in 0 .. Len(blocks) : f[k] = IF k = 0 THEN 0 ELSE f[k - 1] + IF k \in ids THEN Width(blocks[k]) + kHorizontalSpacing ELSE 0
    BY <1>1, Zenon DEF IsSumming
  <1>4. f[0] = 0 /\ \A k \in 1 .. Len(blocks) : f[k] = f[k - 1] + Share(blocks, ids, k)
    BY <1>2, <1>3 DEF Share
  <1> QED
    BY <1>1, <1>4, ExtentIs

\* A set of blocks has a width, and one block more makes it wider by its own.
LEMMA ExtentGrows ==
  ASSUME NEW blocks, Placeable(blocks), NEW ids, NEW more, ids \subseteq more,
         NEW i \in 1 .. Len(blocks), i \in more, i \notin ids
  PROVE  /\ Extent(blocks, ids) \in Nat /\ Extent(blocks, more) \in Nat
         /\ Extent(blocks, ids) + Width(blocks[i]) + kHorizontalSpacing <= Extent(blocks, more)
  <1>1. PICK n \in Nat : n = Len(blocks)
    BY DEF Placeable
  <1>2. PICK f : /\ Extent(blocks, ids) = f[n] /\ f[0] = 0
                 /\ \A k \in 1 .. n : f[k] = f[k - 1] + Share(blocks, ids, k)
    BY <1>1, SummingSteps
  <1>3. PICK g : /\ Extent(blocks, more) = g[n] /\ g[0] = 0
                 /\ \A k \in 1 .. n : g[k] = g[k - 1] + Share(blocks, more, k)
    BY <1>1, SummingSteps
  <1>4. PICK w \in Nat : w = Width(blocks[i]) + kHorizontalSpacing
    BY <1>1, LayoutAssumption DEF Placeable
  <1>5. /\ \A k \in 1 .. n : Share(blocks, ids, k) \in Nat /\ Share(blocks, more, k) \in Nat
        /\ \A k \in 1 .. n : Share(blocks, ids, k) <= Share(blocks, more, k)
        /\ Share(blocks, ids, i) = 0 /\ Share(blocks, more, i) = w
    <2>1. \A k \in 1 .. n : Share(blocks, ids, k) \in Nat /\ Share(blocks, more, k) \in Nat
      BY <1>1, SummingExists
    <2>2. \A k \in 1 .. n : Share(blocks, ids, k) = Share(blocks, more, k) \/ Share(blocks, ids, k) = 0
      BY DEF Share
    <2>3. Share(blocks, ids, i) = 0 /\ Share(blocks, more, i) = w
      BY <1>4 DEF Share
    <2> QED
      BY <2>1, <2>2, <2>3
  <1> DEFINE Ahead(k) == f[k] \in Nat /\ g[k] \in Nat /\ f[k] <= g[k] /\ (i <= k => f[k] + w <= g[k])
             T == {k \in Nat : k <= n => Ahead(k)}
  <1>6. 0 \in T
    BY <1>1, <1>2, <1>3
  <1>7. ASSUME NEW k \in T PROVE k + 1 \in T
    <2> SUFFICES ASSUME k + 1 <= n PROVE Ahead(k + 1)
      OBVIOUS
    <2>1. PICK x \in Nat, y \in Nat : x = f[k] /\ y = g[k] /\ x <= y /\ (i <= k => x + w <= y)
      <3>1. k \in Nat /\ k <= n
        OBVIOUS
      <3> QED
        BY <3>1
    <2>2. k + 1 \in 1 .. n /\ (k + 1) - 1 = k
      OBVIOUS
    <2>3. PICK a \in Nat, b \in Nat : /\ a = Share(blocks, ids, k + 1) /\ b = Share(blocks, more, k + 1) /\ a <= b
                                      /\ (k + 1 = i => a = 0 /\ b = w)
      BY <1>5, <2>2
    <2>4. f[k + 1] = x + a /\ g[k + 1] = y + b
      BY <1>2, <1>3, <2>1, <2>2, <2>3
    <2>5. x + a <= y + b
      BY <2>1, <2>3
    <2>6. ASSUME i <= k + 1 PROVE (x + a) + w <= y + b
      <3>1. CASE i = k + 1
        <4>1. a = 0 /\ b = w
          BY <2>3, <3>1
        <4> QED
          BY <2>1, <4>1
      <3>2. CASE i # k + 1
        <4>1. i <= k
          BY <1>1, <2>2, <2>6, <3>2
        <4>2. x + w <= y
          BY <2>1, <4>1
        <4>3. a <= b
          BY <2>3
        <4> QED
          BY <4>2, <4>3
      <3> QED
        BY <3>1, <3>2
    <2> QED
      BY <2>4, <2>5, <2>6
  <1>8. T = Nat
    <2> HIDE DEF Ahead
    <2>1. T \in SUBSET Nat
      OBVIOUS
    <2> HIDE DEF T
    <2> QED
      BY <1>6, <1>7, <2>1, Counting
  <1>9. f[n] \in Nat /\ g[n] \in Nat /\ f[n] + w <= g[n]
    <2>1. n \in T /\ i <= n /\ n <= n
      BY <1>1, <1>8
    <2> QED
      BY <2>1
  <1>10. PICK v \in Nat, h \in Nat : v = Width(blocks[i]) /\ h = kHorizontalSpacing
    BY <1>1, LayoutAssumption DEF Placeable
  <1> HIDE DEF T
  <1> QED
    BY <1>2, <1>3, <1>4, <1>9, <1>10

-----------------------------------------------------------------------------
(* The graph: rows below each other                                          *)

\* The height of the tallest block of a layer.
Tallest(blocks, layer, l) == Max({0} \cup {Height(blocks[i]) : i \in Row(layer, l)})

\* It is as high as each of them.
LEMMA TallestIs ==
  ASSUME NEW blocks, Placeable(blocks), NEW layer \in [1 .. Len(blocks) -> Nat], NEW l
  PROVE  /\ Tallest(blocks, layer, l) \in Nat
         /\ \A i \in Row(layer, l) : Height(blocks[i]) <= Tallest(blocks, layer, l)
  <1> DEFINE H == {0} \cup {Height(blocks[i]) : i \in Row(layer, l)}
  <1>1. PICK n \in Nat : n = Len(blocks)
    BY DEF Placeable
  <1>2. Row(layer, l) \subseteq 1 .. n
    BY <1>1 DEF Row
  <1>3. \A i \in 1 .. n : Height(blocks[i]) \in Nat
    BY <1>1 DEF Placeable
  <1>4. PICK q : q = [i \in 1 .. n |-> Height(blocks[i])]
    OBVIOUS
  <1>5. q \in Seq(Nat) /\ Len(q) = n
    BY <1>3, <1>4
  <1>6. PICK b \in Nat : \A i \in 1 .. n : q[i] <= b
    BY <1>5, Bounded
  <1>7. H \in SUBSET Nat /\ H # {} /\ \A k \in H : k <= b
    BY <1>2, <1>3, <1>4, <1>6
  <1>8. Max(H) \in H /\ \A k \in H : k <= Max(H)
    <2> HIDE DEF H
    <2> QED
      BY <1>7, MaxOfSet
  <1>9. Tallest(blocks, layer, l) = Max(H)
    BY DEF Tallest
  <1> QED
    BY <1>7, <1>8, <1>9

\* The loop of LayerY, and the last layer.
LastLayer(blocks, layer) == Max({layer[i] : i \in DOMAIN blocks})
IsStacking(blocks, layer, f) ==
  f = [l \in 0 .. LastLayer(blocks, layer) |->
         IF l = 0 THEN 0 ELSE f[l - 1] + kVerticalSpacing + Tallest(blocks, layer, l - 1)]
Stacking(blocks, layer) == CHOOSE f : IsStacking(blocks, layer, f)

LEMMA LayerYIs ==
  ASSUME NEW blocks, NEW layer
  PROVE  LayerY(blocks, layer) = Stacking(blocks, layer)
  BY Zenon DEF LayerY, Stacking, IsStacking, LastLayer, Tallest

\* Every layer is at most the last.
LEMMA LastLayerIs ==
  ASSUME NEW blocks, Placeable(blocks), Len(blocks) # 0, NEW layer \in [1 .. Len(blocks) -> Nat]
  PROVE  /\ LastLayer(blocks, layer) \in Nat
         /\ \A i \in 1 .. Len(blocks) : layer[i] <= LastLayer(blocks, layer)
  <1>1. PICK n \in Nat : n = Len(blocks) /\ n # 0 /\ DOMAIN blocks = 1 .. n
    BY DEF Placeable
  <1> DEFINE H == {layer[i] : i \in 1 .. n}
  <1>2. layer \in Seq(Nat) /\ Len(layer) = n
    BY <1>1
  <1>3. PICK b \in Nat : \A i \in 1 .. n : layer[i] <= b
    BY <1>2, Bounded
  <1>4. H \in SUBSET Nat /\ H # {} /\ \A k \in H : k <= b
    <2>1. 1 \in 1 .. n /\ layer[1] \in H
      BY <1>1
    <2> QED
      BY <1>1, <1>3, <2>1
  <1>5. Max(H) \in H /\ \A k \in H : k <= Max(H)
    <2> HIDE DEF H
    <2> QED
      BY <1>4, MaxOfSet
  <1>6. LastLayer(blocks, layer) = Max(H)
    BY <1>1 DEF LastLayer
  <1> QED
    BY <1>1, <1>4, <1>5, <1>6

\* The tops of the rows, row by row.
LEMMA StackingSteps ==
  ASSUME NEW blocks, Placeable(blocks), Len(blocks) # 0, NEW layer \in [1 .. Len(blocks) -> Nat]
  PROVE  LET y == LayerY(blocks, layer)
         IN  /\ y[0] = 0
             /\ \A l \in 1 .. LastLayer(blocks, layer) :
                  y[l] = y[l - 1] + kVerticalSpacing + Tallest(blocks, layer, l - 1)
  <1>1. PICK n \in Nat : n = LastLayer(blocks, layer)
    BY LastLayerIs
  <1>2. \A l : Tallest(blocks, layer, l) \in Nat
    BY TallestIs
  <1>k. PICK v \in Nat : v = kVerticalSpacing
    BY LayoutAssumption
  <1> DEFINE turn == [p \in Nat \X Nat |-> p[2] + v + Tallest(blocks, layer, p[1] - 1)]
  <1>3. turn \in [Nat \X Nat -> Nat]
    BY <1>2
  <1>4. PICK f : IsRun(f, Nat, 0, turn, n)
    <2> HIDE DEF turn
    <2> QED
      BY <1>3, LoopStates
  <1>5. f = [l \in 0 .. n |-> f[l]] /\ f[0] = 0
    BY <1>4 DEF IsRun
  <1>6. ASSUME NEW l \in 1 .. n PROVE f[l] = f[l - 1] + kVerticalSpacing + Tallest(blocks, layer, l - 1)
    <2>1. l \in Nat /\ f[l] = turn[<<l, f[l - 1]>>] /\ f[l - 1] \in Nat
      <3> HIDE DEF turn
      <3>1. l - 1 \in 0 .. n /\ l \in Nat
        OBVIOUS
      <3> QED
        BY <1>4, <3>1 DEF IsRun
    <2>2. <<l, f[l - 1]>> \in Nat \X Nat
      BY <2>1
    <2> QED
      BY <1>k, <2>1, <2>2
  <1>7. \A l \in 0 .. n : f[l] = IF l = 0 THEN 0 ELSE f[l - 1] + kVerticalSpacing + Tallest(blocks, layer, l - 1)
    <2> HIDE DEF turn
    <2>1. f[0] = 0 /\ n \in Nat
      BY <1>5
    <2> QED
      BY <1>6, <2>1
  <1>8. IsStacking(blocks, layer, f)
    <2> HIDE DEF turn
    <2> QED
      BY <1>1, <1>5, <1>7, Zenon DEF IsStacking
  <1>9. PICK g : g = Stacking(blocks, layer) /\ IsStacking(blocks, layer, g)
    BY <1>8, Zenon DEF Stacking
  <1>10. \A l \in 0 .. n : g[l] = IF l = 0 THEN 0 ELSE g[l - 1] + kVerticalSpacing + Tallest(blocks, layer, l - 1)
    BY <1>1, <1>9, Zenon DEF IsStacking
  <1>11. g[0] = 0 /\ \A l \in 1 .. n : g[l] = g[l - 1] + kVerticalSpacing + Tallest(blocks, layer, l - 1)
    <2> HIDE DEF turn
    <2> QED
      BY <1>10
  <1> QED
    BY <1>1, <1>9, <1>11, LayerYIs

\* A row starts below every block of the rows above it, by the spacing.
LEMMA RowsApart ==
  ASSUME NEW blocks, Placeable(blocks), Len(blocks) # 0, NEW layer \in [1 .. Len(blocks) -> Nat]
  PROVE  LET y == LayerY(blocks, layer)
         IN  \A i, j \in 1 .. Len(blocks) :
               /\ y[layer[j]] \in Nat
               /\ layer[i] < layer[j] => y[layer[i]] + Height(blocks[i]) + kVerticalSpacing <= y[layer[j]]
  <1>1. PICK n \in Nat : n = Len(blocks)
    BY DEF Placeable
  <1>2. PICK last \in Nat : last = LastLayer(blocks, layer) /\ \A i \in 1 .. n : layer[i] <= last
    BY <1>1, LastLayerIs
  <1>3. PICK v \in Nat : v = kVerticalSpacing
    BY LayoutAssumption
  <1>4. PICK y : /\ y = LayerY(blocks, layer) /\ y[0] = 0
                 /\ \A l \in 1 .. last : y[l] = y[l - 1] + v + Tallest(blocks, layer, l - 1)
    BY <1>2, <1>3, StackingSteps
  <1> DEFINE Below(l) == /\ \A k \in 0 .. l : y[k] \in Nat
                         /\ \A i \in 1 .. n : layer[i] < l => y[layer[i]] + Height(blocks[i]) + v <= y[l]
             T == {l \in Nat : l <= last => Below(l)}
  <1>5. 0 \in T
    <2>1. \A i \in 1 .. n : ~(layer[i] < 0)
      BY <1>1
    <2> QED
      BY <1>4, <2>1
  <1>6. ASSUME NEW l \in T PROVE l + 1 \in T
    <2> SUFFICES ASSUME l + 1 <= last PROVE Below(l + 1)
      OBVIOUS
    <2>0. l \in Nat /\ Below(l)
      <3>1. l \in Nat /\ l <= last
        OBVIOUS
      <3> QED
        BY <3>1
    <2>1. PICK a \in Nat : a = y[l] /\ \A i \in 1 .. n : layer[i] < l => y[layer[i]] + Height(blocks[i]) + v <= a
      <3>1. l \in 0 .. l
        BY <2>0
      <3> QED
        BY <2>0, <3>1
    <2>2. PICK t \in Nat : t = Tallest(blocks, layer, l) /\ \A i \in Row(layer, l) : Height(blocks[i]) <= t
      BY TallestIs
    <2>3. y[l + 1] = a + v + t
      <3>1. l + 1 \in 1 .. last /\ (l + 1) - 1 = l
        OBVIOUS
      <3> QED
        BY <1>4, <2>1, <2>2, <3>1
    <2>4. ASSUME NEW i \in 1 .. n, layer[i] < l + 1
          PROVE  y[layer[i]] + Height(blocks[i]) + v <= y[l + 1]
      <3>1. PICK h \in Nat : h = Height(blocks[i])
        BY <1>1 DEF Placeable
      <3>2. PICK m \in Nat : m = layer[i]
        BY <1>1
      <3>3. CASE m = l
        <4>1. h <= t
          BY <1>1, <2>2, <3>1, <3>2, <3>3 DEF Row
        <4>2. y[m] = a
          BY <2>1, <3>3
        <4>3. a + h + v <= a + v + t
          BY <4>1
        <4> QED
          BY <2>3, <3>1, <3>2, <4>2, <4>3
      <3>4. CASE m # l
        <4>1. m < l
          BY <2>4, <3>2, <3>4
        <4>2. y[m] + h + v <= a
          BY <2>1, <3>1, <3>2, <4>1
        <4>3. y[m] \in Nat
          <5>1. m \in 0 .. l
            BY <2>0, <4>1
          <5> QED
            BY <2>0, <5>1
        <4> QED
          BY <2>3, <3>1, <3>2, <4>2, <4>3
      <3> QED
        BY <3>3, <3>4
    <2>5. y[l + 1] \in Nat
      BY <2>3
    <2>6. ASSUME NEW k \in 0 .. l + 1 PROVE y[k] \in Nat
      <3>1. k = l + 1 \/ k \in 0 .. l
        BY <2>0
      <3> QED
        BY <2>0, <2>5, <3>1
    <2> QED
      BY <2>4, <2>6
  <1>7. T = Nat
    <2> HIDE DEF Below
    <2>1. T \in SUBSET Nat
      OBVIOUS
    <2> HIDE DEF T
    <2> QED
      BY <1>5, <1>6, <2>1, Counting
  <1>8. ASSUME NEW i \in 1 .. n, NEW j \in 1 .. n
        PROVE  /\ y[layer[j]] \in Nat
               /\ layer[i] < layer[j] => y[layer[i]] + Height(blocks[i]) + v <= y[layer[j]]
    <2>1. PICK m \in Nat : m = layer[j] /\ m <= last
      BY <1>1, <1>2
    <2>2. Below(m)
      <3>1. m \in T
        BY <1>7
      <3> QED
        BY <2>1, <3>1
    <2>3. m \in 0 .. m
      BY <2>1
    <2> QED
      BY <2>1, <2>2, <2>3
  <1> HIDE DEF Below, T
  <1> QED
    BY <1>1, <1>3, <1>4, <1>8

-----------------------------------------------------------------------------
(* The graph: the search                                                     *)

\* One of a block's successors.
Succ(blocks, i, j) == j \in At(blocks, blocks[i].jump) \/ j \in At(blocks, blocks[i].fail)

\* At most one block is at an address.
LEMMA AtOne ==
  ASSUME NEW blocks, Placeable(blocks), NEW target, At(blocks, target) # {}
  PROVE  \E j \in 1 .. Len(blocks) : At(blocks, target) = {j} /\ Max(At(blocks, target)) = j
  <1>1. DOMAIN blocks = 1 .. Len(blocks) /\ Len(blocks) \in Nat
    BY DEF Placeable
  <1>2. PICK j \in 1 .. Len(blocks) : j \in At(blocks, target)
    BY <1>1 DEF At
  <1>3. At(blocks, target) = {j}
    BY <1>1, <1>2 DEF At, Placeable
  <1>4. Max({j}) = j
    <2>1. {j} = {j, j} /\ j \in Int
      BY <1>1
    <2> QED
      BY <2>1, MaxOfTwo
  <1> QED
    BY <1>3, <1>4

\* The edges drawn are those to the successors.
LEMMA EdgesAre ==
  ASSUME NEW blocks, Placeable(blocks)
  PROVE  /\ \A e \in Edges(blocks) : /\ e.from \in 1 .. Len(blocks) /\ e.to \in 1 .. Len(blocks)
                                     /\ Succ(blocks, e.from, e.to)
         /\ \A i, j \in 1 .. Len(blocks) :
              Succ(blocks, i, j) => \E e \in Edges(blocks) : e.from = i /\ e.to = j
  <1>1. DOMAIN blocks = 1 .. Len(blocks) /\ Len(blocks) \in Nat
    BY DEF Placeable
  <1>2. \A target : At(blocks, target) \subseteq 1 .. Len(blocks)
    BY <1>1 DEF At
  <1>3. \A target : target = 0 => At(blocks, target) = {}
    BY DEF At
  <1> DEFINE From(i) == LET b == blocks[i] IN
                          IF b.jump # 0 /\ b.fail # 0
                          THEN Edge(blocks, i, b.jump, "taken") \cup Edge(blocks, i, b.fail, "fail")
                          ELSE Edge(blocks, i, b.jump, "uncond") \cup Edge(blocks, i, b.fail, "uncond")
  <1>4. Edges(blocks) = UNION {From(i) : i \in 1 .. Len(blocks)}
    BY <1>1 DEF Edges
  <1>5. ASSUME NEW i \in 1 .. Len(blocks), NEW e \in From(i)
        PROVE  e.from = i /\ e.to \in 1 .. Len(blocks) /\ Succ(blocks, i, e.to)
    <2>1. PICK target, colour : /\ target = blocks[i].jump \/ target = blocks[i].fail
                                /\ e \in Edge(blocks, i, target, colour)
      OBVIOUS
    <2>2. PICK j \in At(blocks, target) : e = [from |-> i, to |-> j, colour |-> colour]
      BY <2>1 DEF Edge
    <2> QED
      BY <1>2, <2>1, <2>2 DEF Succ
  <1>6. ASSUME NEW i \in 1 .. Len(blocks), NEW j \in 1 .. Len(blocks), Succ(blocks, i, j)
        PROVE  \E e \in From(i) : e.from = i /\ e.to = j
    <2>1. PICK target : /\ target = blocks[i].jump \/ target = blocks[i].fail
                        /\ j \in At(blocks, target)
      BY <1>6 DEF Succ
    <2>2. \A colour : [from |-> i, to |-> j, colour |-> colour] \in Edge(blocks, i, target, colour)
      BY <2>1 DEF Edge
    <2>3. \E colour : Edge(blocks, i, target, colour) \subseteq From(i)
      BY <2>1
    <2>4. PICK colour : [from |-> i, to |-> j, colour |-> colour] \in From(i)
      BY <2>2, <2>3
    <2> QED
      BY <2>4
  <1> HIDE DEF From
  <1> QED
    BY <1>4, <1>5, <1>6

\* The states of the search.
States(n) == [layer : [1 .. n -> Int], order : Seq(1 .. n)]

\* Discover finds block j: it gets the next layer and is queued.
Finds(blocks, st, to, i, j, target, n) ==
  /\ At(blocks, target) = {j} /\ st.layer[j] = -1
  /\ to.layer = [st.layer EXCEPT ![j] = st.layer[i] + 1]
  /\ to.order = Append(st.order, j)
  /\ to \in States(n)

\* The target has a layer, or is no block.
Known(blocks, st, target) == \A j \in At(blocks, target) : st.layer[j] # -1

\* Discover leaves layer and queue alone or finds a new block.
LEMMA DiscoverIs ==
  ASSUME NEW blocks, Placeable(blocks), NEW n \in Nat, n = Len(blocks), NEW st, st \in States(n),
         NEW i \in 1 .. n, NEW target, NEW res, res = Discover(blocks, st, i, target)
  PROVE  \/ res = st /\ Known(blocks, st, target)
         \/ \E j \in 1 .. n : Finds(blocks, st, res, i, j, target, n)
  <1>1. CASE At(blocks, target) = {}
    <2>1. Discover(blocks, st, i, target) = st
      BY <1>1 DEF Discover
    <2> QED
      BY <1>1, <2>1 DEF Known
  <1>2. CASE At(blocks, target) # {}
    <2>1. PICK j \in 1 .. n : At(blocks, target) = {j} /\ Max(At(blocks, target)) = j
      BY <1>2, AtOne
    <2>2. CASE st.layer[j] # -1
      <3>1. Discover(blocks, st, i, target) = st
        BY <2>1, <2>2 DEF Discover
      <3> QED
        BY <2>1, <2>2, <3>1 DEF Known
    <2>3. CASE st.layer[j] = -1
      <3>1. PICK to : to = [layer |-> [st.layer EXCEPT ![j] = st.layer[i] + 1], order |-> Append(st.order, j)]
        OBVIOUS
      <3>2. Discover(blocks, st, i, target) = to
        BY <1>2, <2>1, <2>3, <3>1 DEF Discover
      <3>3. to \in States(n)
        <4>1. st.layer \in [1 .. n -> Int] /\ st.order \in Seq(1 .. n)
          BY DEF States
        <4>2. [st.layer EXCEPT ![j] = st.layer[i] + 1] \in [1 .. n -> Int]
          BY <4>1
        <4>3. Append(st.order, j) \in Seq(1 .. n)
          BY <4>1, AppendProperties
        <4> QED
          BY <3>1, <4>2, <4>3 DEF States
      <3>4. to.layer = [st.layer EXCEPT ![j] = st.layer[i] + 1] /\ to.order = Append(st.order, j)
        BY <3>1
      <3> QED
        BY <2>1, <2>3, <3>2, <3>3, <3>4 DEF Finds
    <2> QED
      BY <2>2, <2>3
  <1> QED
    BY <1>1, <1>2

\* The queue: each block at most once, those with a layer, in the order of their
\* layers, which are no higher than the places.
Queued(layer, order, n) ==
  /\ layer[1] = 0 /\ Len(order) # 0
  /\ \A i \in 1 .. n : layer[i] >= -1 /\ (layer[i] = 0 => i = 1)
  /\ \A a \in 1 .. Len(order) : layer[order[a]] >= 0 /\ layer[order[a]] < a
  /\ \A a, b \in 1 .. Len(order) : /\ order[a] = order[b] => a = b
                                   /\ a <= b => layer[order[a]] <= layer[order[b]]
  /\ \A i \in 1 .. n : layer[i] # -1 => \E a \in 1 .. Len(order) : order[a] = i

\* A block that was found is one row below one that leads to it.
Entered(blocks, layer, n) ==
  \A i \in 1 .. n : layer[i] > 0 => \E p \in 1 .. n : layer[p] = layer[i] - 1 /\ Succ(blocks, p, i)

\* Nothing is queued more than one row below what is still to be visited.
Spread(layer, order, head) ==
  \A a, b \in 1 .. Len(order) : head < a => layer[order[b]] <= layer[order[a]] + 1

\* The successors of block i are at most one row below it.
Settled(blocks, layer, i, n) ==
  \A j \in 1 .. n : Succ(blocks, i, j) => layer[j] # -1 /\ layer[j] <= layer[i] + 1

\* The search after the first `head` blocks of the queue were visited.
Searching(blocks, st, head, n) ==
  /\ st \in States(n)
  /\ Queued(st.layer, st.order, n) /\ Entered(blocks, st.layer, n)
  /\ Spread(st.layer, st.order, head)
  /\ \A a \in 1 .. Len(st.order) : a <= head => Settled(blocks, st.layer, st.order[a], n)

\* A layer that was given is kept.
Kept(st, to, n) ==
  /\ Len(st.order) <= Len(to.order) /\ \A a \in 1 .. Len(st.order) : to.order[a] = st.order[a]
  /\ \A j \in 1 .. n : st.layer[j] # -1 => to.layer[j] = st.layer[j]

\* What was settled stays so.
LEMMA SettledKept ==
  ASSUME NEW blocks, NEW n, NEW st, NEW to, Kept(st, to, n), NEW i \in 1 .. n, st.layer[i] # -1,
         Settled(blocks, st.layer, i, n)
  PROVE  Settled(blocks, to.layer, i, n)
  BY DEF Kept, Settled

\* Block i at the head finds block j: it gets the next layer and is queued.
Enters(layer, order, head, i, j, lay, ord, n) ==
  /\ layer \in [1 .. n -> Int] /\ order \in Seq(1 .. n) /\ head + 1 <= Len(order)
  /\ i = order[head + 1] /\ j \in 1 .. n /\ layer[j] = -1
  /\ lay = [layer EXCEPT ![j] = layer[i] + 1] /\ ord = Append(order, j)

\* What is kept when j enters the queue behind i.
Entry(layer, order, i, j, lay, ord, n) ==
  /\ Len(ord) = Len(order) + 1 /\ \A a \in 1 .. Len(order) : ord[a] = order[a]
  /\ ord[Len(order) + 1] = j /\ i \in 1 .. n /\ i # j /\ lay[i] = layer[i] /\ lay[j] = layer[i] + 1
  /\ \A k \in 1 .. n : layer[k] # -1 => lay[k] = layer[k]

\* A new block is queued, one row below the block at the head.
LEMMA EnterKeeps ==
  ASSUME NEW blocks, NEW n \in Nat, NEW layer, NEW order, NEW head \in Nat, NEW i, NEW j, NEW lay, NEW ord,
         Enters(layer, order, head, i, j, lay, ord, n), Succ(blocks, i, j),
         Queued(layer, order, n), Entered(blocks, layer, n), Spread(layer, order, head)
  PROVE  /\ Queued(lay, ord, n) /\ Entered(blocks, lay, n) /\ Spread(lay, ord, head)
         /\ Entry(layer, order, i, j, lay, ord, n)
  <1>0. layer \in [1 .. n -> Int] /\ order \in Seq(1 .. n) /\ j \in 1 .. n /\ layer[j] = -1
    BY DEF Enters
  <1>1. PICK L \in Nat : L = Len(order) /\ L # 0
    BY <1>0 DEF Queued
  <1>2. Len(ord) = L + 1 /\ ord[L + 1] = j /\ \A a \in 1 .. L : ord[a] = order[a]
    BY <1>0, <1>1, AppendProperties DEF Enters
  <1>3. \A a \in 1 .. L : order[a] \in 1 .. n /\ layer[order[a]] \in Int
    BY <1>0, <1>1, ElementOfSeq
  <1>4. \A a \in 1 .. L : layer[order[a]] >= 0 /\ layer[order[a]] < a
    BY <1>1 DEF Queued
  <1>5. head + 1 \in 1 .. L /\ i = order[head + 1]
    BY <1>1 DEF Enters
  <1>6. PICK d \in Nat : d = layer[i] /\ d < head + 1 /\ i \in 1 .. n
    BY <1>3, <1>4, <1>5
  <1>7. /\ lay \in [1 .. n -> Int] /\ lay[j] = d + 1
        /\ \A k \in 1 .. n : k # j => lay[k] = layer[k]
    <2>1. lay = [layer EXCEPT ![j] = d + 1]
      BY <1>6 DEF Enters
    <2>2. d + 1 \in Int
      OBVIOUS
    <2> QED
      BY <1>0, <2>1, <2>2
  <1>8. \A a \in 1 .. L : order[a] # j /\ lay[order[a]] = layer[order[a]]
    BY <1>0, <1>3, <1>4, <1>7
  <1>9. \A a \in 1 .. L : layer[order[a]] <= d + 1
    <2>1. \A b \in 1 .. L : layer[order[b]] <= layer[order[head + 1]] + 1
      <3>1. head < head + 1
        OBVIOUS
      <3> QED
        BY <1>1, <1>5, <3>1 DEF Spread
    <2> QED
      BY <1>5, <1>6, <2>1
  <1>10. \A a \in 1 .. L + 1 : a \in 1 .. L \/ a = L + 1
    OBVIOUS
  <1>11. \A a \in 1 .. L : lay[ord[a]] = layer[order[a]]
    BY <1>2, <1>8
  <1>12. lay[ord[L + 1]] = d + 1
    BY <1>2, <1>7
  <1>13. layer[1] = 0 /\ lay[1] = 0 /\ 1 \in 1 .. n
    <2>1. layer[1] = 0
      BY DEF Queued
    <2> QED
      BY <1>0, <1>7, <2>1
  <1>14. \A k \in 1 .. n : lay[k] >= -1 /\ (lay[k] = 0 => k = 1)
    <2>1. \A k \in 1 .. n : layer[k] >= -1 /\ (layer[k] = 0 => k = 1)
      BY DEF Queued
    <2>2. ASSUME NEW k \in 1 .. n PROVE lay[k] >= -1 /\ (lay[k] = 0 => k = 1)
      <3>1. lay[k] = layer[k] \/ lay[k] = d + 1
        BY <1>7
      <3> QED
        BY <1>0, <2>1, <3>1
    <2> QED
      BY <2>2
  <1>15. ASSUME NEW a \in 1 .. L + 1 PROVE lay[ord[a]] >= 0 /\ lay[ord[a]] < a
    <2>1. CASE a \in 1 .. L
      BY <1>4, <1>11, <2>1
    <2>2. CASE a = L + 1
      BY <1>5, <1>6, <1>12, <2>2
    <2> QED
      BY <1>10, <2>1, <2>2
  <1>16. ASSUME NEW a \in 1 .. L + 1, NEW b \in 1 .. L + 1, ord[a] = ord[b] PROVE a = b
    <2>1. \A x, y \in 1 .. L : order[x] = order[y] => x = y
      BY <1>1 DEF Queued
    <2> QED
      BY <1>2, <1>8, <1>10, <1>16, <2>1
  <1>17. ASSUME NEW a \in 1 .. L + 1, NEW b \in 1 .. L + 1, a <= b PROVE lay[ord[a]] <= lay[ord[b]]
    <2>1. CASE b = L + 1
      <3>1. CASE a = L + 1
        BY <1>12, <2>1, <3>1
      <3>2. CASE a \in 1 .. L
        BY <1>9, <1>11, <1>12, <2>1, <3>2
      <3> QED
        BY <1>10, <3>1, <3>2
    <2>2. CASE b # L + 1
      <3>1. a \in 1 .. L /\ b \in 1 .. L
        BY <1>17, <2>2
      <3>2. layer[order[a]] <= layer[order[b]]
        BY <1>1, <1>17, <3>1 DEF Queued
      <3> QED
        BY <1>11, <3>1, <3>2
    <2> QED
      BY <2>1, <2>2
  <1>18. ASSUME NEW k \in 1 .. n, lay[k] # -1 PROVE \E a \in 1 .. L + 1 : ord[a] = k
    <2>1. CASE k = j
      BY <1>2, <2>1
    <2>2. CASE k # j
      <3>1. PICK a \in 1 .. L : order[a] = k
        BY <1>1, <1>7, <1>18, <2>2 DEF Queued
      <3>2. a \in 1 .. L + 1 /\ ord[a] = k
        BY <1>2, <3>1
      <3> QED
        BY <3>2
    <2> QED
      BY <2>1, <2>2
  <1>19. Queued(lay, ord, n)
    BY <1>2, <1>13, <1>14, <1>15, <1>16, <1>17, <1>18 DEF Queued
  <1>20. Entered(blocks, lay, n)
    <2>1. ASSUME NEW k \in 1 .. n, lay[k] > 0
          PROVE  \E p \in 1 .. n : lay[p] = lay[k] - 1 /\ Succ(blocks, p, k)
      <3>1. CASE k = j
        <4>1. i # j /\ lay[i] = d
          BY <1>0, <1>6, <1>7
        <4> QED
          BY <1>6, <1>7, <3>1, <4>1
      <3>2. CASE k # j
        <4>1. lay[k] = layer[k] /\ layer[k] > 0
          BY <1>7, <2>1, <3>2
        <4>2. PICK p \in 1 .. n : layer[p] = layer[k] - 1 /\ Succ(blocks, p, k)
          BY <4>1 DEF Entered
        <4>3. p # j
          BY <1>0, <4>1, <4>2
        <4> QED
          BY <1>7, <4>1, <4>2, <4>3
      <3> QED
        BY <3>1, <3>2
    <2> QED
      BY <2>1 DEF Entered
  <1>21. Spread(lay, ord, head)
    <2>1. ASSUME NEW a \in 1 .. L + 1, NEW b \in 1 .. L + 1, head < a
          PROVE  lay[ord[b]] <= lay[ord[a]] + 1
      <3>1. lay[ord[a]] >= d
        <4>1. CASE a = L + 1
          BY <1>12, <4>1
        <4>2. CASE a \in 1 .. L
          <5>1. head + 1 <= a
            BY <2>1
          <5>2. layer[order[head + 1]] <= layer[order[a]]
            BY <1>1, <1>5, <4>2, <5>1 DEF Queued
          <5> QED
            BY <1>3, <1>5, <1>6, <1>11, <4>2, <5>2
        <4> QED
          BY <1>10, <4>1, <4>2
      <3>2. lay[ord[b]] <= d + 1
        <4>1. CASE b = L + 1
          BY <1>12, <4>1
        <4>2. CASE b \in 1 .. L
          BY <1>9, <1>11, <4>2
        <4> QED
          BY <1>10, <4>1, <4>2
      <3>3. lay[ord[a]] \in Int /\ lay[ord[b]] \in Int
        BY <1>3, <1>10, <1>11, <1>12
      <3> QED
        BY <3>1, <3>2, <3>3
    <2> QED
      BY <1>2, <2>1 DEF Spread
  <1>22. i # j /\ lay[i] = layer[i] /\ lay[j] = layer[i] + 1 /\ \A k \in 1 .. n : layer[k] # -1 => lay[k] = layer[k]
    BY <1>0, <1>6, <1>7
  <1> QED
    BY <1>1, <1>2, <1>6, <1>19, <1>20, <1>21, <1>22 DEF Entry

\* The parts of a search, one by one.
LEMMA SearchingParts ==
  ASSUME NEW blocks, NEW st, NEW head, NEW n, Searching(blocks, st, head, n)
  PROVE  /\ st \in States(n) /\ st.layer \in [1 .. n -> Int] /\ st.order \in Seq(1 .. n)
         /\ Queued(st.layer, st.order, n) /\ Entered(blocks, st.layer, n) /\ Spread(st.layer, st.order, head)
         /\ \A a \in 1 .. Len(st.order) : a <= head => Settled(blocks, st.layer, st.order[a], n)
  BY DEF Searching, States

\* Block i has met its successors at the target: the search goes on.
Met(blocks, st, to, head, i, target, n) ==
  /\ Searching(blocks, to, head, n) /\ Kept(st, to, n)
  /\ \A j \in At(blocks, target) : to.layer[j] # -1 /\ to.layer[j] <= to.layer[i] + 1

\* The block at the head meets one of its successors.
LEMMA DiscoverKeeps ==
  ASSUME NEW blocks, Placeable(blocks), NEW n \in Nat, n = Len(blocks), NEW st, NEW head \in Nat,
         Searching(blocks, st, head, n), head + 1 <= Len(st.order), NEW i, i = st.order[head + 1],
         NEW target, target = blocks[i].jump \/ target = blocks[i].fail,
         NEW to, to = Discover(blocks, st, i, target)
  PROVE  Met(blocks, st, to, head, i, target, n)
  <1>1. PICK layer \in [1 .. n -> Int], order \in Seq(1 .. n) : layer = st.layer /\ order = st.order
    BY SearchingParts
  <1>2. /\ st \in States(n) /\ Queued(layer, order, n) /\ Entered(blocks, layer, n) /\ Spread(layer, order, head)
        /\ \A a \in 1 .. Len(order) : a <= head => Settled(blocks, layer, order[a], n)
    BY <1>1, SearchingParts
  <1>3. PICK L \in Nat : L = Len(order) /\ head + 1 \in 1 .. L /\ i = order[head + 1]
    BY <1>1
  <1>4. i \in 1 .. n /\ \A a \in 1 .. L : order[a] \in 1 .. n
    BY <1>3, ElementOfSeq
  <1>6. ASSUME to = st, \A j \in At(blocks, target) : layer[j] # -1
        PROVE  Met(blocks, st, to, head, i, target, n)
    <2>1. Kept(st, to, n)
      <3>1. Len(st.order) <= Len(st.order)
        BY <1>1, <1>3
      <3> QED
        BY <1>6, <3>1 DEF Kept
    <2>2. ASSUME NEW j \in At(blocks, target)
          PROVE  to.layer[j] # -1 /\ to.layer[j] <= to.layer[i] + 1
      <3>1. j \in 1 .. n /\ layer[j] # -1
        BY <1>6 DEF At, Placeable
      <3>2. PICK b \in 1 .. L : order[b] = j
        BY <1>2, <1>3, <3>1 DEF Queued
      <3>3. head < head + 1
        OBVIOUS
      <3>4. layer[order[b]] <= layer[order[head + 1]] + 1
        BY <1>2, <1>3, <3>3 DEF Spread
      <3> QED
        BY <1>1, <1>3, <1>6, <3>1, <3>2, <3>4
    <2> QED
      BY <1>6, <2>1, <2>2 DEF Met
  <1>7. ASSUME NEW j \in 1 .. n, Finds(blocks, st, to, i, j, target, n)
        PROVE  Met(blocks, st, to, head, i, target, n)
    <2>0. /\ At(blocks, target) = {j} /\ layer[j] = -1 /\ to \in States(n)
          /\ to.layer = [layer EXCEPT ![j] = layer[i] + 1] /\ to.order = Append(order, j)
      BY <1>1, <1>7 DEF Finds
    <2>1. PICK lay, ord : lay = to.layer /\ ord = to.order
      OBVIOUS
    <2>2. Enters(layer, order, head, i, j, lay, ord, n)
      BY <1>3, <2>0, <2>1 DEF Enters
    <2>3. Succ(blocks, i, j)
      BY <2>0 DEF Succ
    <2>10. /\ Queued(lay, ord, n) /\ Entered(blocks, lay, n) /\ Spread(lay, ord, head)
           /\ Entry(layer, order, i, j, lay, ord, n)
      BY <1>2, <2>2, <2>3, EnterKeeps
    <2>4. /\ Len(ord) = L + 1 /\ \A a \in 1 .. L : ord[a] = order[a]
          /\ lay[i] = layer[i] /\ lay[j] = layer[i] + 1
          /\ \A k \in 1 .. n : layer[k] # -1 => lay[k] = layer[k]
      BY <1>3, <2>10 DEF Entry
    <2>5. Kept(st, to, n)
      <3>1. Len(order) <= Len(ord)
        BY <1>3, <2>4
      <3> QED
        BY <1>1, <1>3, <2>1, <2>4, <3>1 DEF Kept
    <2>6. ASSUME NEW a \in 1 .. Len(ord), a <= head PROVE Settled(blocks, lay, ord[a], n)
      <3>1. a \in 1 .. L /\ ord[a] = order[a]
        BY <1>3, <2>4, <2>6
      <3>2. Settled(blocks, layer, order[a], n) /\ order[a] \in 1 .. n
        BY <1>2, <1>3, <1>4, <2>6, <3>1
      <3>3. layer[order[a]] >= 0
        BY <1>2, <1>3, <3>1 DEF Queued
      <3>4. layer[order[a]] # -1
        BY <3>3
      <3> QED
        BY <1>1, <2>1, <2>5, <3>1, <3>2, <3>4, SettledKept
    <2>7. Searching(blocks, to, head, n)
      BY <2>0, <2>1, <2>10, <2>6 DEF Searching
    <2>8. layer[i] \in Int /\ layer[i] >= 0
      <3>1. layer[order[head + 1]] >= 0
        BY <1>2, <1>3 DEF Queued
      <3> QED
        BY <1>3, <1>4, <3>1
    <2>9. lay[j] # -1 /\ lay[j] <= lay[i] + 1
      BY <2>4, <2>8
    <2> QED
      BY <2>0, <2>1, <2>5, <2>7, <2>9 DEF Met
  <1>8. \/ to = st /\ Known(blocks, st, target)
        \/ \E j \in 1 .. n : Finds(blocks, st, to, i, j, target, n)
    BY <1>2, <1>4, DiscoverIs
  <1> QED
    BY <1>1, <1>6, <1>7, <1>8 DEF Known

\* One turn of the search.
LEMMA VisitKeeps ==
  ASSUME NEW blocks, Placeable(blocks), NEW n \in Nat, n = Len(blocks), NEW st, NEW head \in Nat,
         Searching(blocks, st, head, n), head + 1 <= Len(st.order)
  PROVE  Searching(blocks, Visit(blocks, st, st.order[head + 1]), head + 1, n)
  <1>1. PICK i : i = st.order[head + 1]
    OBVIOUS
  <1>2. PICK mid : mid = Discover(blocks, st, i, blocks[i].jump)
    OBVIOUS
  <1>15. PICK jump : jump = blocks[i].jump
    OBVIOUS
  <1>16. Met(blocks, st, mid, head, i, jump, n)
    BY <1>1, <1>2, <1>15, DiscoverKeeps
  <1>3. /\ Searching(blocks, mid, head, n) /\ Kept(st, mid, n)
        /\ \A j \in At(blocks, blocks[i].jump) : mid.layer[j] # -1 /\ mid.layer[j] <= mid.layer[i] + 1
    BY <1>15, <1>16 DEF Met
  <1>4. Len(st.order) \in Nat /\ Len(mid.order) \in Nat
    <2>1. st.order \in Seq(1 .. n) /\ mid.order \in Seq(1 .. n)
      BY <1>3, SearchingParts
    <2> QED
      BY <2>1
  <1>5. head + 1 <= Len(mid.order) /\ mid.order[head + 1] = i /\ i \in 1 .. n
    <2>1. st.order \in Seq(1 .. n)
      BY SearchingParts
    <2>2. head + 1 \in 1 .. Len(st.order)
      BY <1>4
    <2>3. i \in 1 .. n
      BY <1>1, <2>1, <2>2, ElementOfSeq
    <2>4. Len(st.order) <= Len(mid.order) /\ mid.order[head + 1] = i
      BY <1>1, <1>3, <2>2 DEF Kept
    <2> QED
      BY <1>4, <2>3, <2>4
  <1>6. PICK to : to = Discover(blocks, mid, i, blocks[i].fail)
    OBVIOUS
  <1>7. /\ Searching(blocks, to, head, n) /\ Kept(mid, to, n)
        /\ \A j \in At(blocks, blocks[i].fail) : to.layer[j] # -1 /\ to.layer[j] <= to.layer[i] + 1
    <2>1. PICK fail : fail = blocks[i].fail
      OBVIOUS
    <2>2. Met(blocks, mid, to, head, i, fail, n)
      BY <1>3, <1>5, <1>6, <2>1, DiscoverKeeps
    <2> QED
      BY <2>1, <2>2 DEF Met
  <1>8. PICK L \in Nat : L = Len(to.order) /\ head + 1 <= L /\ to.order[head + 1] = i
    <2>1. to.order \in Seq(1 .. n)
      BY <1>7, SearchingParts
    <2>2. Len(mid.order) <= Len(to.order)
      BY <1>7 DEF Kept
    <2>3. head + 1 \in 1 .. Len(mid.order)
      BY <1>4, <1>5
    <2>4. to.order[head + 1] = mid.order[head + 1]
      BY <1>7, <2>3 DEF Kept
    <2> QED
      BY <1>4, <1>5, <2>1, <2>2, <2>4
  <1>9. Settled(blocks, to.layer, i, n)
    <2>1. mid.layer[i] # -1 /\ to.layer[i] = mid.layer[i]
      <3>1. mid.layer[i] >= 0 /\ mid.layer[i] \in Int
        <4>1. Queued(mid.layer, mid.order, n) /\ head + 1 \in 1 .. Len(mid.order) /\ mid.layer \in [1 .. n -> Int]
          BY <1>3, <1>4, <1>5, SearchingParts
        <4> QED
          BY <1>5, <4>1 DEF Queued
      <3>2. mid.layer[i] # -1
        BY <3>1
      <3> QED
        BY <1>5, <1>7, <3>2 DEF Kept
    <2>2. ASSUME NEW j \in 1 .. n, Succ(blocks, i, j)
          PROVE  to.layer[j] # -1 /\ to.layer[j] <= to.layer[i] + 1
      <3>1. CASE j \in At(blocks, blocks[i].fail)
        BY <1>7, <3>1
      <3>2. CASE j \in At(blocks, blocks[i].jump)
        <4>1. mid.layer[j] # -1 /\ mid.layer[j] <= mid.layer[i] + 1
          BY <1>3, <3>2
        <4>2. to.layer[j] = mid.layer[j]
          BY <1>7, <4>1 DEF Kept
        <4> QED
          BY <2>1, <4>1, <4>2
      <3> QED
        BY <2>2, <3>1, <3>2 DEF Succ
    <2> QED
      BY <2>2 DEF Settled
  <1>10. /\ to \in States(n) /\ Queued(to.layer, to.order, n) /\ Entered(blocks, to.layer, n)
         /\ Spread(to.layer, to.order, head)
         /\ \A a \in 1 .. L : a <= head => Settled(blocks, to.layer, to.order[a], n)
    BY <1>7, <1>8, SearchingParts
  <1>11. Spread(to.layer, to.order, head + 1)
    BY <1>8, <1>10 DEF Spread
  <1>12. \A a \in 1 .. L : a <= head + 1 => Settled(blocks, to.layer, to.order[a], n)
    <2>1. \A a \in 1 .. L : a <= head + 1 => a <= head \/ a = head + 1
      OBVIOUS
    <2> QED
      BY <1>8, <1>9, <1>10, <2>1
  <1>13. Searching(blocks, to, head + 1, n)
    BY <1>8, <1>10, <1>11, <1>12 DEF Searching
  <1>14. Visit(blocks, st, st.order[head + 1]) = to
    BY <1>1, <1>2, <1>6 DEF Visit
  <1> QED
    BY <1>13, <1>14

\* One turn of the search's loop, when there still is a block in the queue.
Turn(blocks, k, st) == IF k > Len(st.order) THEN st ELSE Visit(blocks, st, st.order[k])

\* A turn leads from a state of the search to one.
LEMMA TurnTyped ==
  ASSUME NEW blocks, Placeable(blocks), NEW n \in Nat, n = Len(blocks), NEW st, st \in States(n),
         NEW k \in Nat \ {0}
  PROVE  Turn(blocks, k, st) \in States(n)
  <1>1. CASE k > Len(st.order)
    BY <1>1 DEF Turn
  <1>2. CASE ~(k > Len(st.order))
    <2>1. PICK i : i = st.order[k] /\ i \in 1 .. n
      <3>1. st.order \in Seq(1 .. n)
        BY DEF States
      <3>2. k \in 1 .. Len(st.order)
        BY <1>2, <3>1
      <3> QED
        BY <3>1, <3>2, ElementOfSeq
    <2>2. ASSUME NEW s, s \in States(n), NEW target, NEW res, res = Discover(blocks, s, i, target)
          PROVE  res \in States(n)
      BY <2>1, <2>2, DiscoverIs DEF Finds
    <2>3. PICK mid : mid = Discover(blocks, st, i, blocks[i].jump)
      OBVIOUS
    <2>4. mid \in States(n)
      BY <2>2, <2>3
    <2>5. PICK to : to = Discover(blocks, mid, i, blocks[i].fail)
      OBVIOUS
    <2>6. to \in States(n)
      BY <2>2, <2>4, <2>5
    <2>7. Turn(blocks, k, st) = to
      BY <1>2, <2>1, <2>3, <2>5 DEF Turn, Visit
    <2> QED
      BY <2>6, <2>7
  <1> QED
    BY <1>1, <1>2

\* A turn keeps the search sound, also when the queue is at its end.
LEMMA TurnKeeps ==
  ASSUME NEW blocks, Placeable(blocks), NEW n \in Nat, n = Len(blocks), NEW st, NEW k \in Nat,
         Searching(blocks, st, k, n)
  PROVE  Searching(blocks, Turn(blocks, k + 1, st), k + 1, n)
  <1>1. PICK L \in Nat : L = Len(st.order)
    BY SearchingParts
  <1>2. CASE k + 1 > L
    <2>1. Turn(blocks, k + 1, st) = st
      BY <1>1, <1>2 DEF Turn
    <2>2. \A a \in 1 .. L : a <= k
      BY <1>2
    <2>3. Spread(st.layer, st.order, k + 1)
      <3>1. \A a \in 1 .. L : ~(k + 1 < a)
        BY <1>2
      <3> QED
        BY <1>1, <3>1 DEF Spread
    <2>4. \A a \in 1 .. Len(st.order) : Settled(blocks, st.layer, st.order[a], n)
      BY <1>1, <2>2, SearchingParts
    <2>5. st \in States(n) /\ Queued(st.layer, st.order, n) /\ Entered(blocks, st.layer, n)
      BY SearchingParts
    <2> QED
      BY <2>1, <2>3, <2>4, <2>5 DEF Searching
  <1>3. CASE ~(k + 1 > L)
    <2>1. Turn(blocks, k + 1, st) = Visit(blocks, st, st.order[k + 1])
      BY <1>1, <1>3 DEF Turn
    <2>2. k + 1 <= Len(st.order)
      BY <1>1, <1>3
    <2> QED
      BY <2>1, <2>2, VisitKeeps
  <1> QED
    BY <1>2, <1>3

\* The search begins with the first block in layer zero.
Begin(blocks) ==
  [layer |-> [i \in 1 .. Len(blocks) |-> IF i = 1 THEN 0 ELSE -1], order |-> <<1>>]

LEMMA BeginSearching ==
  ASSUME NEW blocks, NEW n \in Nat \ {0}, n = Len(blocks)
  PROVE  Begin(blocks) \in States(n) /\ Searching(blocks, Begin(blocks), 0, n)
  <1>1. PICK layer, order : /\ layer = [i \in 1 .. n |-> IF i = 1 THEN 0 ELSE -1]
                            /\ order = <<1>>
    OBVIOUS
  <1>2. PICK st : st = Begin(blocks) /\ st = [layer |-> layer, order |-> order]
    BY <1>1 DEF Begin
  <1>3. st.layer = layer /\ st.order = order
    BY <1>2
  <1>4. layer \in [1 .. n -> Int] /\ order \in Seq(1 .. n) /\ Len(order) = 1 /\ order[1] = 1
    <2>1. 1 \in 1 .. n
      OBVIOUS
    <2>2. layer \in [1 .. n -> Int]
      BY <1>1
    <2>3. <<1>> \in Seq(1 .. n) /\ Len(<<1>>) = 1 /\ <<1>>[1] = 1
      BY <2>1
    <2> QED
      BY <1>1, <2>2, <2>3
  <1>5. st \in States(n)
    BY <1>2, <1>4 DEF States
  <1>6. \A a \in 1 .. Len(order) : a = 1
    BY <1>4
  <1>7. layer[1] = 0 /\ \A i \in 1 .. n : (i = 1 /\ layer[i] = 0) \/ layer[i] = -1
    BY <1>1
  <1>8. Queued(layer, order, n)
    BY <1>4, <1>6, <1>7 DEF Queued
  <1>9. Entered(blocks, layer, n)
    BY <1>7 DEF Entered
  <1>10. Spread(layer, order, 0)
    BY <1>4, <1>6, <1>7 DEF Spread
  <1>11. \A a \in 1 .. Len(order) : ~(a <= 0)
    BY <1>6
  <1>12. Searching(blocks, st, 0, n)
    BY <1>3, <1>5, <1>8, <1>9, <1>10, <1>11 DEF Searching
  <1> QED
    BY <1>2, <1>5, <1>12

\* The loop Bfs is defined with.
IsSearch(blocks, f) ==
  f = [head \in 0 .. Len(blocks) |->
         IF head = 0 THEN Begin(blocks) ELSE Turn(blocks, head, f[head - 1])]
Search(blocks) == CHOOSE f : IsSearch(blocks, f)

\* Bfs is what the loop has after its last turn.
LEMMA BfsIs ==
  ASSUME NEW blocks
  PROVE  Bfs(blocks) = Search(blocks)[Len(blocks)].layer
  BY Zenon DEF Bfs, Search, IsSearch, Begin, Turn

\* The states of the search, turn by turn.
LEMMA SearchSteps ==
  ASSUME NEW blocks, Placeable(blocks), NEW n \in Nat \ {0}, n = Len(blocks)
  PROVE  \E f : /\ Bfs(blocks) = f[n].layer
                /\ f[0] = Begin(blocks)
                /\ \A k \in 1 .. n : f[k] = Turn(blocks, k, f[k - 1])
  <1> DEFINE turn == [p \in Nat \X States(n) |-> IF p[1] = 0 THEN p[2] ELSE Turn(blocks, p[1], p[2])]
  <1>1. turn \in [Nat \X States(n) -> States(n)]
    <2>1. ASSUME NEW p \in Nat \X States(n)
          PROVE  (IF p[1] = 0 THEN p[2] ELSE Turn(blocks, p[1], p[2])) \in States(n)
      <3>1. p[1] \in Nat /\ p[2] \in States(n)
        OBVIOUS
      <3> QED
        BY <3>1, TurnTyped
    <2> QED
      BY <2>1
  <1>2. PICK f : IsRun(f, States(n), Begin(blocks), turn, n)
    <2> HIDE DEF turn
    <2>1. Begin(blocks) \in States(n)
      BY BeginSearching
    <2> QED
      BY <1>1, <2>1, LoopStates
  <1>3. f = [k \in 0 .. n |-> f[k]] /\ f[0] = Begin(blocks)
    BY <1>2 DEF IsRun
  <1>4. ASSUME NEW k \in 1 .. n PROVE f[k] = Turn(blocks, k, f[k - 1])
    <2>1. k - 1 \in 0 .. n /\ k \in Nat /\ k # 0
      OBVIOUS
    <2>2. f[k] = turn[<<k, f[k - 1]>>] /\ f[k - 1] \in States(n)
      <3> HIDE DEF turn
      <3> QED
        BY <1>2, <2>1 DEF IsRun
    <2>3. PICK s \in States(n) : s = f[k - 1]
      BY <2>2
    <2>4. turn[<<k, s>>] = Turn(blocks, k, s)
      BY <2>1
    <2> QED
      BY <2>2, <2>3, <2>4
  <1> HIDE DEF turn
  <1>5. \A k \in 0 .. n : f[k] = IF k = 0 THEN Begin(blocks) ELSE Turn(blocks, k, f[k - 1])
    <2>1. \A k \in 0 .. n : k = 0 \/ k \in 1 .. n
      OBVIOUS
    <2>2. \A k \in 1 .. n : k # 0
      OBVIOUS
    <2> QED
      BY <1>3, <1>4, <2>1, <2>2
  <1>6. IsSearch(blocks, f)
    BY <1>3, <1>5, Zenon DEF IsSearch
  <1>7. PICK g : g = Search(blocks) /\ IsSearch(blocks, g)
    BY <1>6, Zenon DEF Search
  <1>8. \A k \in 0 .. n : g[k] = IF k = 0 THEN Begin(blocks) ELSE Turn(blocks, k, g[k - 1])
    BY <1>7, Zenon DEF IsSearch
  <1>9. g[0] = Begin(blocks) /\ \A k \in 1 .. n : g[k] = Turn(blocks, k, g[k - 1])
    <2>1. 0 \in 0 .. n /\ \A k \in 1 .. n : k \in 0 .. n /\ k # 0
      OBVIOUS
    <2> QED
      BY <1>8, <2>1
  <1> QED
    BY <1>7, <1>9, BfsIs

\* The search is sound after its last turn.
LEMMA SearchEnds ==
  ASSUME NEW blocks, Placeable(blocks), NEW n \in Nat \ {0}, n = Len(blocks)
  PROVE  \E st : Bfs(blocks) = st.layer /\ Searching(blocks, st, n, n)
  <1>1. PICK f : /\ Bfs(blocks) = f[n].layer /\ f[0] = Begin(blocks)
                 /\ \A k \in 1 .. n : f[k] = Turn(blocks, k, f[k - 1])
    BY SearchSteps
  <1> DEFINE T == {k \in Nat : k <= n => Searching(blocks, f[k], k, n)}
  <1>2. 0 \in T
    BY <1>1, BeginSearching
  <1>3. ASSUME NEW k \in T PROVE k + 1 \in T
    <2>1. k \in Nat /\ (k <= n => Searching(blocks, f[k], k, n))
      OBVIOUS
    <2> HIDE DEF T
    <2>2. ASSUME k + 1 <= n PROVE Searching(blocks, f[k + 1], k + 1, n)
      <3>1. k <= n /\ k + 1 \in 1 .. n /\ (k + 1) - 1 = k
        BY <2>1, <2>2
      <3>2. PICK st : st = f[k] /\ Searching(blocks, st, k, n)
        BY <2>1, <3>1
      <3>3. f[k + 1] = Turn(blocks, k + 1, st)
        BY <1>1, <3>1, <3>2
      <3>4. Searching(blocks, Turn(blocks, k + 1, st), k + 1, n)
        BY <2>1, <3>2, TurnKeeps
      <3> QED
        BY <3>3, <3>4
    <2> QED
      BY <2>1, <2>2 DEF T
  <1>4. T = Nat
    <2>1. T \in SUBSET Nat
      OBVIOUS
    <2> HIDE DEF T
    <2> QED
      BY <1>2, <1>3, <2>1, Counting
  <1>5. Searching(blocks, f[n], n, n)
    <2>1. n \in T
      BY <1>4
    <2> QED
      BY <2>1
  <1> QED
    BY <1>1, <1>5

\* The layers of the search: those of the blocks found are shortest paths' lengths.
Shortest(blocks, bfs, n) ==
  /\ bfs \in [1 .. n -> Int] /\ bfs[1] = 0 /\ Entered(blocks, bfs, n)
  /\ \A i \in 1 .. n : /\ bfs[i] >= -1 /\ bfs[i] < n /\ (bfs[i] = 0 => i = 1)
                       /\ bfs[i] # -1 => Settled(blocks, bfs, i, n)

\* The queue holds no block twice, so it is at its end after as many turns as there
\* are blocks, and every block found was visited.
LEMMA BfsShortest ==
  ASSUME NEW blocks, Placeable(blocks), NEW n \in Nat \ {0}, n = Len(blocks)
  PROVE  Shortest(blocks, Bfs(blocks), n)
  <1>1. PICK st : Bfs(blocks) = st.layer /\ Searching(blocks, st, n, n)
    BY SearchEnds
  <1>2. PICK bfs \in [1 .. n -> Int], order \in Seq(1 .. n) : bfs = st.layer /\ order = st.order
    BY <1>1, SearchingParts
  <1>3. /\ Queued(bfs, order, n) /\ Entered(blocks, bfs, n)
        /\ \A a \in 1 .. Len(order) : a <= n => Settled(blocks, bfs, order[a], n)
    BY <1>1, <1>2, SearchingParts
  <1>4. PICK L \in Nat : L = Len(order)
    OBVIOUS
  <1>5. L <= n
    <2>1. order \in [1 .. L -> 1 .. n]
      BY <1>4
    <2>2. \A a, b \in 1 .. L : order[a] = order[b] => a = b
      BY <1>3, <1>4 DEF Queued
    <2>3. order \in Injection(1 .. L, 1 .. n)
      BY <2>1, <2>2 DEF Injection, IsInjective
    <2>4. IsFiniteSet(1 .. n) /\ Cardinality(1 .. n) = n /\ Cardinality(1 .. L) = L
      <3>1. ASSUME NEW m \in Nat PROVE IsFiniteSet(1 .. m) /\ Cardinality(1 .. m) = m
        <4>1. IsFiniteSet(1 .. m) /\ Cardinality(1 .. m) = IF 1 > m THEN 0 ELSE m - 1 + 1
          BY 1 \in Int, m \in Int, FS_Interval
        <4> QED
          BY <4>1
      <3> QED
        BY <3>1
    <2> QED
      BY <2>3, <2>4, FS_Injection
  <1>6. bfs[1] = 0
    BY <1>3 DEF Queued
  <1>7. ASSUME NEW i \in 1 .. n
        PROVE  /\ bfs[i] >= -1 /\ bfs[i] < n /\ (bfs[i] = 0 => i = 1)
               /\ bfs[i] # -1 => Settled(blocks, bfs, i, n)
    <2>1. bfs[i] >= -1 /\ (bfs[i] = 0 => i = 1)
      BY <1>3 DEF Queued
    <2>2. CASE bfs[i] = -1
      BY <2>1, <2>2
    <2>3. CASE bfs[i] # -1
      <3>1. PICK a \in 1 .. L : order[a] = i
        BY <1>3, <1>4, <2>3 DEF Queued
      <3>2. bfs[order[a]] < a
        BY <1>3, <1>4 DEF Queued
      <3>3. a <= n
        BY <1>5
      <3>4. Settled(blocks, bfs, i, n)
        BY <1>3, <1>4, <3>1, <3>3
      <3>5. bfs[i] \in Int /\ bfs[i] < a
        BY <1>2, <3>1, <3>2
      <3>6. bfs[i] < n
        BY <3>3, <3>5
      <3> QED
        BY <2>1, <3>4, <3>6
    <2> QED
      BY <2>2, <2>3
  <1> QED
    BY <1>1, <1>2, <1>3, <1>6, <1>7 DEF Shortest

\* The blocks found in the first k layers of the search.
Within(bfs, k, n) == {j \in 1 .. n : bfs[j] # -1 /\ bfs[j] <= k}

\* One edge further.
Further(blocks, S) == S \cup {e.to : e \in {f \in Edges(blocks) : f.from \in S}}

\* The search finds the blocks that are one edge further in the next layer.
LEMMA WithinSteps ==
  ASSUME NEW blocks, Placeable(blocks), NEW n \in Nat \ {0}, n = Len(blocks), NEW bfs,
         Shortest(blocks, bfs, n), NEW k \in Nat
  PROVE  Within(bfs, 0, n) = {1} /\ Within(bfs, k + 1, n) = Further(blocks, Within(bfs, k, n))
  <1>1. bfs \in [1 .. n -> Int] /\ bfs[1] = 0 /\ Entered(blocks, bfs, n)
    BY DEF Shortest
  <1>2. \A i \in 1 .. n : /\ bfs[i] \in Int /\ bfs[i] >= -1 /\ (bfs[i] = 0 => i = 1)
                          /\ bfs[i] # -1 => Settled(blocks, bfs, i, n)
    BY <1>1 DEF Shortest
  <1>3. Within(bfs, 0, n) = {1}
    <2>1. 1 \in 1 .. n /\ bfs[1] # -1 /\ bfs[1] <= 0
      BY <1>1
    <2>2. ASSUME NEW j \in 1 .. n, bfs[j] # -1, bfs[j] <= 0 PROVE j = 1
      <3>1. bfs[j] = 0
        BY <1>2, <2>2
      <3> QED
        BY <1>2, <3>1
    <2> QED
      BY <2>1, <2>2 DEF Within
  <1>4. ASSUME NEW j \in Within(bfs, k + 1, n) PROVE j \in Further(blocks, Within(bfs, k, n))
    <2>1. j \in 1 .. n /\ bfs[j] # -1 /\ bfs[j] <= k + 1 /\ bfs[j] \in Int /\ bfs[j] >= -1
      BY <1>2, <1>4 DEF Within
    <2>2. CASE bfs[j] <= k
      BY <2>1, <2>2 DEF Within, Further
    <2>3. CASE ~(bfs[j] <= k)
      <3>1. bfs[j] = k + 1 /\ bfs[j] > 0 /\ bfs[j] - 1 = k
        BY <2>1, <2>3
      <3>2. PICK p \in 1 .. n : bfs[p] = k /\ Succ(blocks, p, j)
        BY <1>1, <2>1, <3>1 DEF Entered
      <3>3. p \in Within(bfs, k, n)
        <4>1. k # -1 /\ k <= k
          OBVIOUS
        <4> QED
          BY <3>2, <4>1 DEF Within
      <3>4. PICK e \in Edges(blocks) : e.from = p /\ e.to = j
        BY <2>1, <3>2, EdgesAre
      <3> QED
        BY <3>3, <3>4 DEF Further
    <2> QED
      BY <2>2, <2>3
  <1>5. ASSUME NEW j \in Further(blocks, Within(bfs, k, n)) PROVE j \in Within(bfs, k + 1, n)
    <2>1. CASE j \in Within(bfs, k, n)
      <3>1. j \in 1 .. n /\ bfs[j] # -1 /\ bfs[j] <= k /\ bfs[j] \in Int
        BY <1>2, <2>1 DEF Within
      <3>2. bfs[j] <= k + 1
        BY <3>1
      <3> QED
        BY <3>1, <3>2 DEF Within
    <2>2. CASE j \notin Within(bfs, k, n)
      <3>1. PICK e \in Edges(blocks) : e.from \in Within(bfs, k, n) /\ j = e.to
        BY <1>5, <2>2 DEF Further
      <3>2. PICK i \in 1 .. n : i = e.from /\ bfs[i] # -1 /\ bfs[i] <= k /\ bfs[i] \in Int
        BY <1>2, <3>1 DEF Within
      <3>3. j \in 1 .. n /\ Succ(blocks, i, j)
        BY <3>1, <3>2, EdgesAre
      <3>4. bfs[j] # -1 /\ bfs[j] <= bfs[i] + 1
        BY <1>2, <3>2, <3>3 DEF Settled
      <3>5. bfs[j] \in Int
        BY <1>2, <3>3
      <3>6. bfs[j] <= k + 1
        BY <3>2, <3>4, <3>5
      <3> QED
        BY <3>3, <3>4, <3>6 DEF Within
    <2> QED
      BY <2>1, <2>2
  <1> QED
    BY <1>3, <1>4, <1>5

\* The loop of Reached.
IsReaching(blocks, m, f) ==
  f = [k \in 0 .. m |-> IF k = 0 THEN {1} ELSE Further(blocks, f[k - 1])]
Reaching(blocks, m) == CHOOSE f : IsReaching(blocks, m, f)

\* Reached is what its loop has after its last turn.
LEMMA ReachedIs ==
  ASSUME NEW blocks, NEW m
  PROVE  Reached(blocks, m) = Reaching(blocks, m)[m]
  BY Zenon DEF Reached, Reaching, IsReaching, Further

\* The blocks at most m edges away are those the search gave one of the layers up to m.
LEMMA ReachedWithin ==
  ASSUME NEW blocks, Placeable(blocks), NEW n \in Nat \ {0}, n = Len(blocks), NEW bfs,
         Shortest(blocks, bfs, n), NEW m \in Nat
  PROVE  Reached(blocks, m) = Within(bfs, m, n)
  <1>1. PICK f : f = [k \in 0 .. m |-> Within(bfs, k, n)]
    OBVIOUS
  <1>2. \A k \in 0 .. m : f[k] = IF k = 0 THEN {1} ELSE Further(blocks, f[k - 1])
    <2>1. ASSUME NEW k \in 0 .. m, k # 0 PROVE f[k] = Further(blocks, f[k - 1])
      <3>1. k - 1 \in 0 .. m /\ k - 1 \in Nat /\ (k - 1) + 1 = k
        BY <2>1
      <3>2. PICK j \in Nat : j = k - 1 /\ j + 1 = k
        BY <3>1
      <3>3. Within(bfs, j + 1, n) = Further(blocks, Within(bfs, j, n))
        BY WithinSteps
      <3> QED
        BY <1>1, <3>1, <3>2, <3>3
    <2>2. f[0] = {1}
      <3>1. 0 \in 0 .. m /\ 0 \in Nat
        OBVIOUS
      <3>2. Within(bfs, 0, n) = {1}
        BY <3>1, WithinSteps
      <3> QED
        BY <1>1, <3>1, <3>2
    <2> QED
      BY <2>1, <2>2
  <1>3. f = [k \in 0 .. m |-> f[k]]
    BY <1>1
  <1>4. IsReaching(blocks, m, f)
    BY <1>2, <1>3, Zenon DEF IsReaching
  <1>5. PICK g : g = Reaching(blocks, m) /\ IsReaching(blocks, m, g)
    BY <1>4, Zenon DEF Reaching
  <1>6. \A k \in 0 .. m : g[k] = IF k = 0 THEN {1} ELSE Further(blocks, g[k - 1])
    BY <1>5, Zenon DEF IsReaching
  <1> DEFINE T == {k \in Nat : k <= m => g[k] = f[k]}
  <1>7. 0 \in T
    <2>1. 0 \in 0 .. m
      OBVIOUS
    <2>2. g[0] = f[0]
      BY <1>2, <1>6, <2>1
    <2> QED
      BY <2>2
  <1>8. ASSUME NEW k \in T PROVE k + 1 \in T
    <2>1. k \in Nat /\ (k <= m => g[k] = f[k])
      OBVIOUS
    <2> HIDE DEF T
    <2>2. ASSUME k + 1 <= m PROVE g[k + 1] = f[k + 1]
      <3>1. k <= m /\ k + 1 \in 0 .. m /\ k + 1 # 0 /\ (k + 1) - 1 = k
        BY <2>1, <2>2
      <3>2. g[k + 1] = Further(blocks, g[k]) /\ f[k + 1] = Further(blocks, f[k])
        BY <1>2, <1>6, <3>1
      <3> QED
        BY <2>1, <3>1, <3>2
    <2> QED
      BY <2>1, <2>2 DEF T
  <1>9. T = Nat
    <2>1. T \in SUBSET Nat
      OBVIOUS
    <2> HIDE DEF T
    <2> QED
      BY <1>7, <1>8, <2>1, Counting
  <1>10. g[m] = f[m]
    <2>1. m \in T /\ m <= m
      BY <1>9
    <2> QED
      BY <2>1
  <1>11. f[m] = Within(bfs, m, n)
    BY <1>1, m \in 0 .. m
  <1> QED
    BY <1>5, <1>10, <1>11, ReachedIs

\* The layers: a block that was found keeps the search's, the others come after.
LEMMA LayersAre ==
  ASSUME NEW blocks, Placeable(blocks), NEW n \in Nat \ {0}, n = Len(blocks),
         NEW bfs, bfs = Bfs(blocks), NEW layer, layer = Layers(blocks)
  PROVE  /\ layer \in [1 .. n -> Nat]
         /\ \A i \in 1 .. n : bfs[i] # -1 => layer[i] = bfs[i]
         /\ \A i, j \in 1 .. n : bfs[i] # -1 /\ bfs[j] = -1 => layer[i] < layer[j]
  <1>1. Shortest(blocks, bfs, n)
    BY BfsShortest
  <1>2. bfs \in [1 .. n -> Int] /\ \A i \in 1 .. n : bfs[i] \in Int /\ bfs[i] >= -1 /\ bfs[i] < n
    BY <1>1 DEF Shortest
  <1> DEFINE S == {bfs[j] : j \in 1 .. n}
             unreached == {i \in 1 .. n : bfs[i] = -1}
             Ahead(i) == {j \in unreached : j <= i}
  <1>3. PICK top \in Int : top = Max(S) /\ \A i \in 1 .. n : bfs[i] <= top
    <2>1. S \in SUBSET Int /\ S # {} /\ \A k \in S : k <= n
      <3>1. 1 \in 1 .. n
        OBVIOUS
      <3> QED
        BY <1>2, <3>1
    <2>2. n \in Int /\ \A i \in 1 .. n : bfs[i] \in S
      OBVIOUS
    <2> HIDE DEF S
    <2>3. Max(S) \in S /\ \A k \in S : k <= Max(S)
      BY <2>1, <2>2, MaxOfInts
    <2> QED
      BY <2>1, <2>2, <2>3
  <1>4. top \in Nat
    <2>1. bfs[1] = 0 /\ 1 \in 1 .. n
      BY <1>1 DEF Shortest
    <2>2. 0 <= top
      BY <1>3, <2>1
    <2> QED
      BY <2>2
  <1>5. ASSUME NEW i \in 1 .. n, bfs[i] = -1
        PROVE  Cardinality(Ahead(i)) \in Nat /\ Cardinality(Ahead(i)) >= 1
    <2>1. IsFiniteSet(1 .. n)
      BY 1 \in Int, n \in Int, FS_Interval
    <2>2. Ahead(i) \subseteq 1 .. n /\ i \in Ahead(i)
      BY <1>5
    <2> HIDE DEF Ahead
    <2>3. IsFiniteSet(Ahead(i))
      BY <2>1, <2>2, FS_Subset
    <2>4. Cardinality(Ahead(i)) \in Nat /\ (Cardinality(Ahead(i)) = 0 <=> Ahead(i) = {})
      BY <2>3, FS_CardinalityType, FS_EmptySet
    <2>5. Cardinality(Ahead(i)) # 0
      BY <2>2, <2>4
    <2> QED
      BY <2>4, <2>5
  <1>6. layer = [i \in 1 .. n |-> IF i \in unreached THEN top + Cardinality(Ahead(i)) ELSE bfs[i]]
    <2>1. DOMAIN blocks = 1 .. n /\ DOMAIN bfs = 1 .. n
      BY <1>2 DEF Placeable
    <2> QED
      BY <1>3, <2>1 DEF Layers
  <1> HIDE DEF Ahead, S
  <1>7. \A i \in 1 .. n : bfs[i] # -1 => layer[i] = bfs[i]
    BY <1>6
  <1>8. \A i \in 1 .. n : bfs[i] = -1 => layer[i] = top + Cardinality(Ahead(i))
    BY <1>6
  <1>9. ASSUME NEW i \in 1 .. n PROVE layer[i] \in Nat
    <2>1. CASE bfs[i] = -1
      <3>1. PICK c \in Nat : c = Cardinality(Ahead(i))
        BY <1>5, <2>1
      <3> QED
        BY <1>4, <1>8, <2>1, <3>1
    <2>2. CASE bfs[i] # -1
      BY <1>2, <1>7, <2>2
    <2> QED
      BY <2>1, <2>2
  <1>10. ASSUME NEW i \in 1 .. n, NEW j \in 1 .. n, bfs[i] # -1, bfs[j] = -1 PROVE layer[i] < layer[j]
    <2>1. PICK c \in Nat : c = Cardinality(Ahead(j)) /\ c >= 1
      BY <1>5, <1>10
    <2>2. layer[i] = bfs[i] /\ bfs[i] \in Int /\ bfs[i] <= top
      BY <1>2, <1>3, <1>7, <1>10
    <2>3. layer[j] = top + c
      BY <1>8, <1>10, <2>1
    <2> QED
      BY <2>1, <2>2, <2>3
  <1>11. layer = [i \in 1 .. n |-> layer[i]]
    BY <1>6
  <1>12. layer \in [1 .. n -> Nat]
    BY <1>9, <1>11
  <1> QED
    BY <1>7, <1>10, <1>12

\* Two blocks of a layer are apart, the one at the lower address to the left.
LEMMA ColumnsApart ==
  ASSUME NEW blocks, Placeable(blocks), NEW n \in Nat \ {0}, n = Len(blocks),
         NEW layer \in [1 .. n -> Nat], NEW i \in 1 .. n, NEW j \in 1 .. n,
         layer[i] = layer[j], blocks[i].addr < blocks[j].addr
  PROVE  /\ Extent(blocks, LeftOf(blocks, layer, i)) \in Nat
         /\ Extent(blocks, LeftOf(blocks, layer, j)) \in Nat
         /\ Extent(blocks, Row(layer, layer[i])) \in Nat
         /\ Extent(blocks, LeftOf(blocks, layer, i)) + Width(blocks[i]) + kHorizontalSpacing
              <= Extent(blocks, LeftOf(blocks, layer, j))
  <1>1. PICK a, b, r : /\ a = LeftOf(blocks, layer, i) /\ b = LeftOf(blocks, layer, j)
                       /\ r = Row(layer, layer[i])
    OBVIOUS
  <1>2. \A k \in 1 .. n : blocks[k].addr \in Int
    BY DEF Placeable
  <1>3. a \subseteq b /\ i \in b /\ i \notin a
    <2>1. i \in b /\ i \notin a
      BY <1>1, <1>2 DEF LeftOf, Row
    <2>2. ASSUME NEW k \in a PROVE k \in b
      <3>1. k \in 1 .. n /\ layer[k] = layer[i] /\ blocks[k].addr < blocks[i].addr
        BY <1>1, <2>2 DEF LeftOf, Row
      <3>2. blocks[k].addr < blocks[j].addr
        BY <1>2, <3>1
      <3> QED
        BY <1>1, <3>1, <3>2 DEF LeftOf, Row
    <2> QED
      BY <2>1, <2>2
  <1>4. a \subseteq r /\ i \in r
    BY <1>1 DEF LeftOf, Row
  <1>5. i \in 1 .. Len(blocks)
    OBVIOUS
  <1>6. /\ Extent(blocks, a) \in Nat /\ Extent(blocks, b) \in Nat
        /\ Extent(blocks, a) + Width(blocks[i]) + kHorizontalSpacing <= Extent(blocks, b)
    BY <1>3, <1>5, ExtentGrows
  <1>7. Extent(blocks, r) \in Nat
    BY <1>3, <1>4, <1>5, ExtentGrows
  <1> QED
    BY <1>1, <1>6, <1>7

\* Where layout puts the blocks.
LEMMA PlacedAre ==
  ASSUME NEW blocks, Placeable(blocks), NEW n \in Nat \ {0}, n = Len(blocks),
         NEW layer, layer = Layers(blocks), NEW items, items = layout(blocks)
  PROVE  /\ DOMAIN items = 1 .. n
         /\ \A i \in 1 .. n :
              /\ items[i].bb = blocks[i] /\ items[i].layer = layer[i]
              /\ items[i].y = LayerY(blocks, layer)[layer[i]]
              /\ items[i].x = 2 * Extent(blocks, LeftOf(blocks, layer, i))
                              - (Extent(blocks, Row(layer, layer[i])) - kHorizontalSpacing)
  <1>1. DOMAIN blocks = 1 .. n
    BY DEF Placeable
  <1> DEFINE item(i) ==
               [bb |-> blocks[i], layer |-> layer[i],
                column |-> Cardinality([k \in DOMAIN blocks |-> LeftOf(blocks, layer, k)][i]),
                y |-> LayerY(blocks, layer)[layer[i]],
                x |-> 2 * Extent(blocks, [k \in DOMAIN blocks |-> LeftOf(blocks, layer, k)][i])
                      - (Extent(blocks, Row(layer, layer[i])) - kHorizontalSpacing)]
  <1>2. items = [i \in DOMAIN blocks |-> item(i)]
    BY Zenon DEF layout
  <1>3. \A i \in 1 .. n : [k \in DOMAIN blocks |-> LeftOf(blocks, layer, k)][i] = LeftOf(blocks, layer, i)
    BY <1>1
  <1>4. \A i \in 1 .. n : items[i] = item(i)
    <2> HIDE DEF item
    <2> QED
      BY <1>1, <1>2
  <1>5. DOMAIN items = 1 .. n
    <2> HIDE DEF item
    <2> QED
      BY <1>1, <1>2
  <1>6. ASSUME NEW i \in 1 .. n
        PROVE  /\ items[i].bb = blocks[i] /\ items[i].layer = layer[i]
               /\ items[i].y = LayerY(blocks, layer)[layer[i]]
               /\ items[i].x = 2 * Extent(blocks, LeftOf(blocks, layer, i))
                               - (Extent(blocks, Row(layer, layer[i])) - kHorizontalSpacing)
    <2>1. PICK it : it = item(i)
      OBVIOUS
    <2>2. items[i] = it
      <3> HIDE DEF item
      <3> QED
        BY <1>4, <2>1
    <2>3. /\ it.bb = blocks[i] /\ it.layer = layer[i]
          /\ it.y = LayerY(blocks, layer)[layer[i]]
          /\ it.x = 2 * Extent(blocks, [k \in DOMAIN blocks |-> LeftOf(blocks, layer, k)][i])
                    - (Extent(blocks, Row(layer, layer[i])) - kHorizontalSpacing)
      BY <2>1
    <2> HIDE DEF item
    <2> QED
      BY <1>3, <2>2, <2>3
  <1> HIDE DEF item
  <1> QED
    BY <1>5, <1>6

\* The scene drawn of blocks that can be placed is sound.
LEMMA DrawnSound ==
  ASSUME NEW blocks, Placeable(blocks), Len(blocks) # 0
  PROVE  SceneSound(draw(blocks, layout(blocks)))
  <1>1. PICK n \in Nat \ {0} : n = Len(blocks)
    BY DEF Placeable
  <1>2. PICK bfs : bfs = Bfs(blocks) /\ Shortest(blocks, bfs, n)
    BY <1>1, BfsShortest
  <1>3. PICK layer : /\ layer = Layers(blocks) /\ layer \in [1 .. n -> Nat]
                     /\ \A i \in 1 .. n : bfs[i] # -1 => layer[i] = bfs[i]
                     /\ \A i, j \in 1 .. n : bfs[i] # -1 /\ bfs[j] = -1 => layer[i] < layer[j]
    BY <1>1, <1>2, LayersAre
  <1>4. PICK y : y = LayerY(blocks, layer)
    OBVIOUS
  <1>5. PICK items : items = layout(blocks)
    OBVIOUS
  <1>6. /\ DOMAIN items = 1 .. n
        /\ \A i \in 1 .. n :
             /\ items[i].bb = blocks[i] /\ items[i].layer = layer[i] /\ items[i].y = y[layer[i]]
             /\ items[i].x = 2 * Extent(blocks, LeftOf(blocks, layer, i))
                             - (Extent(blocks, Row(layer, layer[i])) - kHorizontalSpacing)
    BY <1>1, <1>3, <1>4, <1>5, PlacedAre
  <1>7. [i \in DOMAIN items |-> items[i].bb] = blocks
    <2>1. blocks = [i \in 1 .. n |-> blocks[i]]
      BY <1>1 DEF Placeable
    <2> QED
      BY <1>6, <2>1
  <1> DEFINE Apart(i, j) ==
               \/ items[i].layer < items[j].layer
                  /\ items[i].y + Height(blocks[i]) + kVerticalSpacing <= items[j].y
               \/ items[i].layer = items[j].layer /\ items[i].y = items[j].y
                  /\ items[i].x + 2 * (Width(blocks[i]) + kHorizontalSpacing) <= items[j].x
  <1>8. ASSUME NEW i \in 1 .. n, NEW j \in 1 .. n, layer[i] < layer[j] PROVE Apart(i, j)
    <2>1. y[layer[i]] + Height(blocks[i]) + kVerticalSpacing <= y[layer[j]]
      BY <1>1, <1>3, <1>4, <1>8, RowsApart
    <2> QED
      BY <1>6, <1>8, <2>1
  <1>9. ASSUME NEW i \in 1 .. n, NEW j \in 1 .. n, layer[i] = layer[j], blocks[i].addr < blocks[j].addr
        PROVE  Apart(i, j)
    <2>1. PICK a \in Nat, b \in Nat, r \in Nat :
            /\ a = Extent(blocks, LeftOf(blocks, layer, i)) /\ b = Extent(blocks, LeftOf(blocks, layer, j))
            /\ r = Extent(blocks, Row(layer, layer[i]))
            /\ a + Width(blocks[i]) + kHorizontalSpacing <= b
      BY <1>1, <1>3, <1>9, ColumnsApart
    <2>2. PICK w \in Nat, h \in Nat : w = Width(blocks[i]) /\ h = kHorizontalSpacing
      BY <1>1, LayoutAssumption DEF Placeable
    <2>3. a + w + h <= b
      BY <2>1, <2>2
    <2>4. items[i].x = 2 * a - (r - h) /\ items[j].x = 2 * b - (r - h)
      BY <1>6, <1>9, <2>1, <2>2
    <2>5. 2 * a - (r - h) + 2 * (w + h) <= 2 * b - (r - h)
      BY <2>3
    <2>6. items[i].x + 2 * (w + h) <= items[j].x
      BY <2>4, <2>5
    <2>7. items[i].layer = items[j].layer /\ items[i].y = items[j].y
      BY <1>6, <1>9
    <2> QED
      BY <2>2, <2>6, <2>7
  <1>10. ASSUME NEW i \in 1 .. n, NEW j \in 1 .. n, i # j PROVE Apart(i, j) \/ Apart(j, i)
    <2> HIDE DEF Apart
    <2>1. layer[i] \in Nat /\ layer[j] \in Nat
      BY <1>3
    <2>2. blocks[i].addr \in Int /\ blocks[j].addr \in Int /\ blocks[i].addr # blocks[j].addr
      BY <1>1, <1>10 DEF Placeable
    <2>3. \/ layer[i] < layer[j] \/ layer[j] < layer[i]
          \/ layer[i] = layer[j] /\ (blocks[i].addr < blocks[j].addr \/ blocks[j].addr < blocks[i].addr)
      BY <2>1, <2>2
    <2> QED
      BY <1>8, <1>9, <2>3
  <1>11. /\ bfs \in [1 .. n -> Int]
         /\ \A i \in 1 .. n : /\ bfs[i] \in Int /\ bfs[i] >= -1 /\ bfs[i] < n
                              /\ bfs[i] # -1 => Settled(blocks, bfs, i, n)
    BY <1>2 DEF Shortest
  <1>12. Reached(blocks, n) = {i \in 1 .. n : bfs[i] # -1}
    <2>1. Reached(blocks, n) = Within(bfs, n, n)
      BY <1>1, <1>2, ReachedWithin
    <2>2. \A i \in 1 .. n : bfs[i] <= n
      BY <1>11
    <2> QED
      BY <2>1, <2>2 DEF Within
  <1>13. ASSUME NEW i \in 1 .. n, bfs[i] # -1
         PROVE  /\ i \in Reached(blocks, items[i].layer)
                /\ items[i].layer > 0 => i \notin Reached(blocks, items[i].layer - 1)
                /\ \A j \in 1 .. n \ Reached(blocks, n) : items[i].layer < items[j].layer
                /\ \A e \in Edges(blocks) : e.from = i => items[e.to].layer <= items[i].layer + 1
    <2>1. PICK m \in Nat : m = items[i].layer /\ m = layer[i] /\ m = bfs[i]
      BY <1>3, <1>6, <1>13
    <2>2. i \in Reached(blocks, m)
      <3>1. Reached(blocks, m) = Within(bfs, m, n)
        BY <1>1, <1>2, ReachedWithin
      <3>2. bfs[i] <= m
        BY <2>1
      <3> QED
        BY <1>13, <3>1, <3>2 DEF Within
    <2>3. ASSUME m > 0 PROVE i \notin Reached(blocks, m - 1)
      <3>1. PICK k \in Nat : k = m - 1
        BY <2>3
      <3>2. Reached(blocks, k) = Within(bfs, k, n)
        BY <1>1, <1>2, ReachedWithin
      <3>3. ~(bfs[i] <= k)
        BY <2>1, <3>1
      <3> QED
        BY <3>1, <3>2, <3>3 DEF Within
    <2>4. ASSUME NEW j \in 1 .. n \ Reached(blocks, n) PROVE items[i].layer < items[j].layer
      BY <1>3, <1>6, <1>12, <1>13, <2>4
    <2>5. ASSUME NEW e \in Edges(blocks), e.from = i PROVE items[e.to].layer <= items[i].layer + 1
      <3>1. PICK t \in 1 .. n : t = e.to /\ Succ(blocks, i, t)
        BY <1>1, <2>5, EdgesAre
      <3>2. bfs[t] # -1 /\ bfs[t] <= bfs[i] + 1
        BY <1>11, <1>13, <3>1 DEF Settled
      <3>3. items[t].layer = bfs[t]
        BY <1>3, <1>6, <3>2
      <3> QED
        BY <2>1, <3>1, <3>2, <3>3
    <2> QED
      BY <2>1, <2>2, <2>3, <2>4, <2>5
  <1> HIDE DEF Apart
  <1>14. PICK scene : scene = draw(blocks, layout(blocks)) /\ scene.items = items /\ scene.edges = Edges(blocks)
    <2>1. PICK edges : edges = Edges(blocks)
      OBVIOUS
    <2>2. PICK scene : scene = [items |-> items, edges |-> edges]
      OBVIOUS
    <2>3. scene.items = items /\ scene.edges = edges
      BY <2>2
    <2>4. scene = draw(blocks, layout(blocks))
      BY <1>5, <2>1, <2>2, Zenon DEF draw
    <2> QED
      BY <2>1, <2>3, <2>4
  <1>15. SceneSound(scene)
    <2>1. \A i, j \in DOMAIN items : i # j => Apart(i, j) \/ Apart(j, i)
      BY <1>6, <1>10
    <2>2. \A i \in Reached(blocks, n) :
            /\ i \in Reached(blocks, items[i].layer)
            /\ items[i].layer > 0 => i \notin Reached(blocks, items[i].layer - 1)
            /\ \A j \in DOMAIN items \ Reached(blocks, n) : items[i].layer < items[j].layer
            /\ \A e \in scene.edges : e.from = i => items[e.to].layer <= items[i].layer + 1
      BY <1>6, <1>12, <1>13, <1>14
    <2> QED
      BY <1>1, <1>7, <1>14, <2>1, <2>2 DEF SceneSound, Apart
  <1> QED
    BY <1>14, <1>15

-----------------------------------------------------------------------------
(* The addresses the views hand on                                           *)

Lists == [breakpoints : SUBSET Nat, backtrace : SUBSET Nat, functions : SUBSET Nat,
          sections : SUBSET Nat, threads : SUBSET Nat, modules : SUBSET Nat, xrefs : SUBSET Nat]

SceneOK(g) ==
  /\ \A i \in DOMAIN g.scene.items : g.scene.items[i].bb.addr \in Nat
  /\ SceneSound(g.scene)

\* A scene without blocks has nothing to be wrong.
LEMMA EmptyScene == NoScene.items = << >> /\ DOMAIN NoScene.items = {} /\ SceneSound(NoScene)
  <1>1. NoScene.items = << >> /\ DOMAIN << >> = {}
    BY DEF NoScene
  <1>2. SceneSound(NoScene)
    BY <1>1 DEF SceneSound
  <1> QED
    BY <1>1, <1>2

\* The blocks of a function can be placed: their addresses are their own, and the
\* text of a block has a size.
LEMMA BuiltPlaceable ==
  ASSUME NEW s, SessionOK(s), NEW fn
  PROVE  Placeable(buildBlocks(s, fn))
  <1>1. PICK of, m : SessionFrom(s, of, m)
    BY DEF SessionOK
  <1>2. of \in Sessions /\ s.blocks = of.blocks
    <2>1. Same(s, of)
      BY <1>1, SessionFields
    <2> QED
      BY <1>1, <2>1 DEF SessionFrom, Same
  <1>3. PICK bbs : bbs = irida_function_blocks(s, fn)
    OBVIOUS
  <1>4. /\ bbs \in Seq(Block)
        /\ \A i, j \in DOMAIN bbs : bbs[i].addr = bbs[j].addr => i = j
        /\ \A i \in DOMAIN bbs : bbs[i].addr \in DOMAIN TextWidth
    <2>1. CASE s.analyzed /\ fn \in DOMAIN s.blocks
      <3>1. bbs = of.blocks[fn] /\ fn \in DOMAIN of.blocks
        BY <1>2, <1>3, <2>1 DEF irida_function_blocks
      <3> QED
        BY <1>2, <3>1, SessionsAssumption
    <2>2. CASE ~(s.analyzed /\ fn \in DOMAIN s.blocks)
      <3>1. bbs = << >>
        BY <1>3, <2>2 DEF irida_function_blocks
      <3>2. << >> \in Seq(Block) /\ DOMAIN << >> = {}
        OBVIOUS
      <3> QED
        BY <3>1, <3>2
    <2> QED
      BY <2>1, <2>2
  <1>5. PICK n \in Nat : n = Len(bbs) /\ DOMAIN bbs = 1 .. n /\ \A i \in 1 .. n : bbs[i] \in Block
    BY <1>4, ElementOfSeq
  <1> DEFINE In(b) == {r \in DOMAIN irida_disasm(s, b.addr, kRows) :
                         \A q \in 1 .. r : irida_disasm(s, b.addr, kRows)[q] < b.addr + b.size}
             block(b) == [addr |-> b.addr, size |-> b.size, jump |-> b.jump, fail |-> b.fail,
                          lines |-> Max({1, Cardinality(In(b))})]
  <1>6. PICK blocks : blocks = buildBlocks(s, fn) /\ blocks = [i \in 1 .. n |-> block(bbs[i])]
    BY <1>3, <1>5, Zenon DEF buildBlocks
  <1>7. ASSUME NEW b \in Block PROVE Max({1, Cardinality(In(b))}) \in Nat
    <2>1. irida_disasm(s, b.addr, kRows) \in Seq(Nat)
      BY DisasmListed
    <2>2. PICK k \in Nat : DOMAIN irida_disasm(s, b.addr, kRows) = 1 .. k
      BY <2>1
    <2>3. In(b) \subseteq 1 .. k
      BY <2>2
    <2> HIDE DEF In
    <2>4. IsFiniteSet(1 .. k)
      BY 1 \in Int, k \in Int, FS_Interval
    <2>5. Cardinality(In(b)) \in Nat
      BY <2>3, <2>4, FS_Subset, FS_CardinalityType
    <2>6. PICK c \in Nat : c = Cardinality(In(b))
      BY <2>5
    <2>7. Max({1, c}) = IF 1 <= c THEN c ELSE 1
      BY 1 \in Int, c \in Int, MaxOfTwo
    <2> QED
      BY <2>6, <2>7
  <1> HIDE DEF In
  <1>8. ASSUME NEW i \in 1 .. n
        PROVE  blocks[i].addr = bbs[i].addr /\ blocks[i].addr \in Nat /\ blocks[i].lines \in Nat
    <2>1. PICK b \in Block : b = bbs[i]
      BY <1>5
    <2>2. PICK x : x = block(b)
      OBVIOUS
    <2>3. blocks[i] = x
      <3> HIDE DEF block
      <3> QED
        BY <1>6, <2>1, <2>2
    <2>4. x.addr = b.addr /\ x.lines = Max({1, Cardinality(In(b))})
      BY <2>2
    <2>5. b.addr \in Nat
      BY DEF Block
    <2> HIDE DEF block
    <2> QED
      BY <1>7, <2>1, <2>3, <2>4, <2>5
  <1> HIDE DEF block
  <1>9. \E S : blocks \in Seq(S)
    <2>1. blocks = [i \in 1 .. n |-> blocks[i]]
      BY <1>6
    <2>2. PICK S : S = {blocks[i] : i \in 1 .. n}
      OBVIOUS
    <2>3. \A i \in 1 .. n : blocks[i] \in S
      BY <2>2
    <2>4. blocks \in [1 .. n -> S]
      BY <2>1, <2>3
    <2>5. blocks \in Seq(S)
      BY <2>4
    <2> QED
      BY <2>5
  <1>10. Len(blocks) = n
    BY <1>6, n \in Nat
  <1>11. ASSUME NEW i \in 1 .. n
         PROVE  Width(blocks[i]) \in Nat /\ Height(blocks[i]) \in Nat
    <2>1. PICK w \in Nat : w = TextWidth[blocks[i].addr]
      BY <1>4, <1>5, <1>8, LayoutAssumption
    <2>2. PICK l \in Nat : l = blocks[i].lines
      BY <1>8
    <2>3. PICK h \in Nat, px \in Nat, py \in Nat :
            h = LineHeight /\ px = kBlockPaddingX /\ py = kBlockPaddingY
      BY LayoutAssumption
    <2>4. h * l \in Nat
      OBVIOUS
    <2>5. w + 2 * px \in Nat /\ h * l + 2 * py \in Nat
      <3>1. PICK t \in Nat : t = h * l
        BY <2>4
      <3> QED
        BY <3>1
    <2> QED
      BY <2>1, <2>2, <2>3, <2>5 DEF Width, Height
  <1>12. \A i, j \in 1 .. n : blocks[i].addr = blocks[j].addr => i = j
    BY <1>4, <1>5, <1>8
  <1>13. \A i \in 1 .. n : blocks[i].addr \in Int
    BY <1>8
  <1> QED
    BY <1>6, <1>9, <1>10, <1>11, <1>12, <1>13 DEF Placeable

\* What the panels list and the graph draws of a session are numbers.
LEMMA ListedNumbers ==
  ASSUME NEW s, SessionOK(s)
  PROVE  /\ BreakpointsPanel(s) \subseteq Nat /\ BacktracePanel(s) \subseteq Nat
         /\ FunctionsPanel(s) \subseteq Nat /\ SectionsPanel(s) \subseteq Nat
         /\ ThreadsPanel(s) \subseteq Nat /\ ModulesPanel(s) \subseteq Nat
         /\ \A to : XrefsPanel(s, to) \subseteq Nat
         /\ \A fn : SceneOK(showFunction(s, fn))
         /\ s.sections \in Seq(Section) /\ s.sizes \subseteq Size /\ s.points \subseteq Point
  <1>1. PICK of, m : SessionFrom(s, of, m)
    BY DEF SessionOK
  <1>2. of \in Sessions /\ Same(s, of) /\ s.mock = m /\ SoundMock(m)
    <2>1. s.mock = m /\ Same(s, of)
      BY <1>1, SessionFields
    <2> QED
      BY <1>1, <2>1 DEF SessionFrom
  <1>3. /\ s.caller \in Nat /\ s.threads \in Seq(Nat) /\ s.modules \in Seq(Nat)
        /\ s.functions \in Seq(Function) /\ s.xrefs \in Seq(Xref)
        /\ \A fn \in DOMAIN s.blocks : s.blocks[fn] \in Seq(Block)
        /\ s.sections \in Seq(Section) /\ s.sizes \subseteq Size /\ s.points \subseteq Point
    <2>1. /\ of.caller \in Nat /\ of.threads \in Seq(Nat) /\ of.modules \in Seq(Nat)
          /\ of.functions \in Seq(Function) /\ of.xrefs \in Seq(Xref)
          /\ \A fn \in DOMAIN of.blocks : of.blocks[fn] \in Seq(Block)
          /\ of.sections \in Seq(Section) /\ of.sizes \subseteq Size /\ of.points \subseteq Point
      BY <1>2, SessionsAssumption
    <2> QED
      BY <1>2, <2>1 DEF Same
  <1>4. ASSUME NEW S, NEW q \in Seq(S)
        PROVE  ToSet(q) \subseteq S
    BY ElementOfSeq DEF ToSet
  <1>5. BreakpointsPanel(s) \subseteq Nat
    <2>1. irida_breakpoints(s) \in Seq(Breakpoint)
      <3>1. m.bps \in Seq(Breakpoint)
        BY <1>2 DEF SoundMock, SoundBps
      <3>2. << >> \in Seq(Breakpoint)
        OBVIOUS
      <3> QED
        BY <1>2, <3>1, <3>2 DEF irida_breakpoints
    <2>2. ToSet(irida_breakpoints(s)) \subseteq Breakpoint
      BY <1>4, <2>1
    <2> QED
      BY <2>2 DEF BreakpointsPanel, Breakpoint
  <1>6. BacktracePanel(s) \subseteq Nat
    <2>1. irida_backtrace(s) \in Seq(Nat)
      <3>1. CASE s.kind = "Mock"
        <4>1. Len(kStream) - 1 \in 1 .. Len(kStream) /\ m.pc \in Nat
          BY <1>2, StreamNumbers DEF SoundMock
        <4>2. kStream[Len(kStream) - 1] \in Nat
          BY <4>1, StreamNumbers
        <4>3. irida_backtrace(s) = <<m.pc, kStream[Len(kStream) - 1], s.caller>>
          BY <1>2, <3>1 DEF irida_backtrace, mock_backtrace
        <4> QED
          BY <1>3, <4>1, <4>2, <4>3
      <3>2. CASE s.kind # "Mock"
        <4>1. irida_backtrace(s) = << >>
          BY <3>2 DEF irida_backtrace
        <4> QED
          BY <4>1
      <3> QED
        BY <3>1, <3>2
    <2> QED
      BY <1>4, <2>1 DEF BacktracePanel
  <1>7. irida_functions(s) \in Seq(Function) /\ << >> \in Seq(Function) /\ << >> \in Seq(Block)
    BY <1>3 DEF irida_functions
  <1>8. FunctionsPanel(s) \subseteq Nat
    <2>1. ToSet(irida_functions(s)) \subseteq Function
      BY <1>4, <1>7
    <2> QED
      BY <2>1 DEF FunctionsPanel, Function
  <1>9. SectionsPanel(s) \subseteq Nat
    <2>1. ToSet(s.sections) \subseteq Section
      BY <1>3, <1>4
    <2> QED
      BY <2>1 DEF SectionsPanel, Section
  <1>10. ThreadsPanel(s) \subseteq Nat /\ ModulesPanel(s) \subseteq Nat
    BY <1>3, <1>4 DEF ThreadsPanel, ModulesPanel
  <1>11. ASSUME NEW to PROVE XrefsPanel(s, to) \subseteq Nat
    <2>1. ToSet(s.xrefs) \subseteq Xref
      BY <1>3, <1>4
    <2>2. irida_xrefs_to(s, to) \subseteq Xref
      BY <2>1 DEF irida_xrefs_to
    <2> QED
      BY <2>2 DEF XrefsPanel, Xref
  <1>12. ASSUME NEW fn PROVE SceneOK(showFunction(s, fn))
    <2>1. PICK bbs : bbs = irida_function_blocks(s, fn)
      OBVIOUS
    <2>2. bbs \in Seq(Block)
      BY <1>3, <1>7, <2>1 DEF irida_function_blocks
    <2>3. PICK blocks : blocks = buildBlocks(s, fn)
      OBVIOUS
    <2>4. DOMAIN blocks = DOMAIN bbs /\ \A i \in DOMAIN bbs : blocks[i].addr = bbs[i].addr
      BY <2>1, <2>3 DEF buildBlocks
    <2>5. DOMAIN bbs = 1 .. Len(bbs) /\ \A i \in 1 .. Len(bbs) : bbs[i] \in Block
      BY <2>2, ElementOfSeq
    <2>6. \A i \in DOMAIN blocks : blocks[i].addr \in Nat
      BY <2>4, <2>5 DEF Block
    <2>7. PICK placed : placed = layout(blocks)
      OBVIOUS
    <2>8. DOMAIN placed = DOMAIN blocks /\ \A i \in DOMAIN blocks : placed[i].bb = blocks[i]
      BY <2>7 DEF layout
    <2>9. PICK g : g = showFunction(s, fn)
      OBVIOUS
    <2>10. CASE blocks = << >>
      <3>1. g.scene = NoScene
        BY <2>3, <2>9, <2>10 DEF showFunction
      <3> QED
        BY <2>9, <3>1, EmptyScene DEF SceneOK
    <2>11. CASE blocks # << >>
      <3>1. g.scene = draw(blocks, placed)
        BY <2>3, <2>7, <2>9, <2>11 DEF showFunction
      <3>2. g.scene.items = placed
        BY <3>1 DEF draw
      <3>3. Placeable(blocks)
        BY <2>3, BuiltPlaceable
      <3>4. Len(blocks) # 0
        BY <2>11, <3>3 DEF Placeable
      <3>5. SceneSound(g.scene)
        BY <2>7, <3>1, <3>3, <3>4, DrawnSound
      <3> QED
        BY <2>6, <2>8, <2>9, <3>2, <3>5 DEF SceneOK
    <2> QED
      BY <2>10, <2>11
  <1> QED
    BY <1>3, <1>5, <1>6, <1>8, <1>9, <1>10, <1>11, <1>12

-----------------------------------------------------------------------------
(* The widgets                                                               *)

WidgetInv ==
  /\ GridInv(grid, session.sections) /\ strip \in Strip /\ size \in Size
  /\ lists \in Lists /\ SceneOK(graph)
  /\ seen \in Nat /\ (seen # 0 => Shown(grid, seen))

\* The views start out with a typed grid and strip.
LEMMA WidgetInit ==
  ASSUME Init
  PROVE  WidgetInv
  <1>o. PICK of \in Sessions : \E sz \in of.sizes :
          /\ session = of /\ size = sz /\ seen = 0
          /\ lists = [breakpoints |-> {}, backtrace |-> {}, functions |-> {}, sections |-> {},
                      threads |-> {}, modules |-> {}, xrefs |-> {}]
          /\ graph = [fn |-> 0, scene |-> NoScene]
          /\ grid = [start |-> 0, end |-> 0, value |-> 0, w |-> HiddenSize.w, h |-> HiddenSize.h]
          /\ strip = [start |-> 0, end |-> 0, w |-> sz.strip, h |-> sz.h, pinned |-> FALSE, dragging |-> FALSE]
    BY DEF Init
  <1>1. PICK sz \in of.sizes :
          /\ session = of /\ size = sz /\ seen = 0
          /\ lists = [breakpoints |-> {}, backtrace |-> {}, functions |-> {}, sections |-> {},
                      threads |-> {}, modules |-> {}, xrefs |-> {}]
          /\ graph = [fn |-> 0, scene |-> NoScene]
          /\ grid = [start |-> 0, end |-> 0, value |-> 0, w |-> HiddenSize.w, h |-> HiddenSize.h]
          /\ strip = [start |-> 0, end |-> 0, w |-> sz.strip, h |-> sz.h, pinned |-> FALSE, dragging |-> FALSE]
    BY <1>o
  <1>2. of.sizes \subseteq Size
    BY SessionsAssumption
  <1>3. sz \in Size /\ size \in Size
    BY <1>1, <1>2
  <1>4. grid \in Grid /\ grid.end = 0 /\ grid.value = 0
    BY <1>1, HiddenAssumption DEF Grid
  <1>5. GridInv(grid, session.sections)
    BY <1>4, ScrollNumbers DEF GridInv
  <1>6. strip \in Strip
    BY <1>1, <1>3 DEF Strip, Size
  <1>7. lists \in Lists
    BY <1>1 DEF Lists
  <1>8. SceneOK(graph)
    <2>1. graph.scene = NoScene
      BY <1>1
    <2> QED
      BY <2>1, EmptyScene DEF SceneOK
  <1> QED
    BY <1>1, <1>3, <1>5, <1>6, <1>7, <1>8 DEF WidgetInv

\* What a reload and a navigation do to the graph.
LEMMA GraphKeeps ==
  ASSUME NEW s, SessionOK(s), NEW g, SceneOK(g)
  PROVE  SceneOK(graphRefresh(s, g)) /\ \A a : SceneOK(onNavigation(s, g, a))
  <1>1. \A fn : SceneOK(showFunction(s, fn))
    BY ListedNumbers
  <1>2. SceneOK(graphRefresh(s, g))
    BY <1>1 DEF graphRefresh
  <1>3. ASSUME NEW a PROVE SceneOK(onNavigation(s, g, a))
    BY <1>1 DEF onNavigation
  <1> QED
    BY <1>2, <1>3

\* Any navigation leaves the address on the screen, if it is in the image.
LEMMA NavigationKeeps ==
  ASSUME SessionOK(session), WidgetInv, NEW a \in Nat, navigateTo(a)
  PROVE  /\ GridInv(grid', session'.sections) /\ size' \in Size /\ lists' \in Lists
         /\ SceneOK(graph') /\ seen' \in Nat /\ (seen' # 0 => Shown(grid', seen'))
  <1>1. /\ session' = session /\ size' = size /\ grid' = overviewSetBase(grid, a)
        /\ graph' = onNavigation(session, graph, a)
        /\ seen' = (IF InGrid(grid, a) THEN a ELSE seen)
        /\ lists' = [lists EXCEPT !.xrefs = XrefsPanel(session, a)]
    BY DEF navigateTo
  <1>2. PICK u : u = overviewSetBase(grid, a)
    OBVIOUS
  <1>3. /\ GridInv(u, session.sections)
        /\ InGrid(grid, a) => Shown(u, a)
        /\ ~InGrid(grid, a) => u = grid
    BY <1>2, SetBaseShows DEF WidgetInv
  <1>4. XrefsPanel(session, a) \subseteq Nat
    BY ListedNumbers
  <1>5. lists' \in Lists
    BY <1>1, <1>4 DEF WidgetInv, Lists
  <1>6. SceneOK(graph')
    BY <1>1, GraphKeeps DEF WidgetInv
  <1>7. seen' \in Nat /\ (seen' # 0 => Shown(u, seen'))
    BY <1>1, <1>3 DEF WidgetInv
  <1> QED
    BY <1>1, <1>2, <1>3, <1>5, <1>6, <1>7 DEF WidgetInv

\* A reload.
LEMMA ReloadKeeps ==
  ASSUME SessionOK(session), WidgetInv, Reload
  PROVE  WidgetInv'
  <1>1. /\ SessionOK(session') /\ session'.sections = session.sections
        /\ lists' = listsRefresh(session') /\ graph' = graphRefresh(session', graph)
        /\ grid' = overviewRefresh(grid, session.sections)
        /\ strip' = setRange(strip, Span(session.sections))
        /\ size' = size /\ seen' = seen
    BY DEF Reload, StateChanged, Same
  <1>2. session.sections \in Seq(Section)
    BY ListedNumbers
  <1>3. GridInv(grid', session.sections) /\ (grid.end # 0 => grid' = grid)
    <2>1. PICK u : u = overviewRefresh(grid, session.sections)
      OBVIOUS
    <2>2. GridInv(u, session.sections) /\ (grid.end # 0 => u = grid)
      BY <1>2, <2>1, RefreshKeeps DEF WidgetInv
    <2> QED
      BY <1>1, <2>1, <2>2
  <1>4. strip' \in Strip
    <2>1. PICK st \in Nat, en \in Nat : st = Span(session.sections).start /\ en = Span(session.sections).end
      BY <1>2, SpanNumbers
    <2>2. strip' = [strip EXCEPT !.start = st, !.end = en]
      BY <1>1, <2>1 DEF setRange
    <2> QED
      BY <2>2 DEF WidgetInv, Strip
  <1>5. lists' \in Lists
    <2>1. PICK s : s = session'
      OBVIOUS
    <2>2. /\ BreakpointsPanel(s) \subseteq Nat /\ BacktracePanel(s) \subseteq Nat
          /\ FunctionsPanel(s) \subseteq Nat /\ SectionsPanel(s) \subseteq Nat
          /\ ThreadsPanel(s) \subseteq Nat /\ ModulesPanel(s) \subseteq Nat
          /\ XrefsPanel(s, target_) \subseteq Nat
      BY <1>1, <2>1, ListedNumbers
    <2>3. listsRefresh(s) \in Lists
      BY <2>2 DEF listsRefresh, Lists
    <2> QED
      BY <1>1, <2>1, <2>3 DEF listsRefresh
  <1>6. SceneOK(graph')
    BY <1>1, GraphKeeps DEF WidgetInv
  <1>7. seen' \in Nat /\ (seen' # 0 => Shown(grid', seen'))
    <2>1. seen # 0 => grid.end # 0
      BY DEF WidgetInv, Shown, InGrid
    <2> QED
      BY <1>1, <1>3, <2>1 DEF WidgetInv
  <1> QED
    BY <1>1, <1>3, <1>4, <1>5, <1>6, <1>7 DEF WidgetInv

\* The strip keeps its shape under its own events.
LEMMA StripKeeps ==
  ASSUME NEW s \in Strip, NEW sz \in Size
  PROVE  /\ [s EXCEPT !.pinned = TRUE, !.dragging = TRUE] \in Strip
         /\ [s EXCEPT !.pinned = TRUE] \in Strip /\ [s EXCEPT !.dragging = FALSE] \in Strip
         /\ [s EXCEPT !.w = sz.strip, !.h = sz.h] \in Strip
  BY DEF Strip, Size

\* A click on the strip, wherever it is.
LEMMA PickedNumber ==
  ASSUME NEW s \in Strip, NEW pos \in Point
  PROVE  stripAddressAt(s, pos) \in Nat
  <1>1. CASE s.end <= s.start
    BY <1>1 DEF stripAddressAt
  <1>2. CASE ~(s.end <= s.start)
    <2>1. s.end > s.start /\ s.start \in Nat /\ s.end \in Nat
      BY <1>2 DEF Strip
    <2>2. stripAddressAt(s, pos) \in s.start .. s.end - 1
      BY <2>1, StripClick
    <2> QED
      BY <2>1, <2>2
  <1> QED
    BY <1>1, <1>2

\* Every event keeps grid and strip typed, in range, and showing the address asked for.
LEMMA WidgetStep ==
  ASSUME SessionOK(session), Listed(session, table), WidgetInv, [Next]_vars
  PROVE  WidgetInv'
  <1>1. CASE Reload
    BY <1>1, ReloadKeeps
  <1>2. ASSUME NEW a \in Nat, navigateTo(a), strip' \in Strip
        PROVE  WidgetInv'
    BY <1>2, NavigationKeeps DEF WidgetInv
  <1>3. CASE UNCHANGED vars
    BY <1>3 DEF vars, WidgetInv, GridInv, Shown, SceneOK
  <1>4. ASSUME NEW addr \in UNION {lists[panel] : panel \in DOMAIN lists}, onDoubleClicked(addr)
        PROVE  WidgetInv'
    <2>1. addr \in Nat
      BY DEF WidgetInv, Lists
    <2>2. navigateTo(addr) /\ strip' = strip
      BY <1>4 DEF onDoubleClicked
    <2> QED
      BY <1>2, <2>1, <2>2 DEF WidgetInv
  <1>5. ASSUME NEW i \in DOMAIN graph.scene.items, onBlockActivated(i)
        PROVE  WidgetInv'
    <2>1. PICK addr : addr = graph.scene.items[i].bb.addr
      OBVIOUS
    <2>2. addr \in Nat
      BY <2>1 DEF WidgetInv, SceneOK
    <2>3. navigateTo(addr) /\ strip' = strip
      BY <1>5, <2>1 DEF onBlockActivated
    <2> QED
      BY <1>2, <2>2, <2>3 DEF WidgetInv
  <1>6. ASSUME NEW addr \in Clickable, overviewPressed(addr)
        PROVE  WidgetInv'
    <2>1. addr \in Nat
      <3>1. PICK x \in 0 .. grid.w - 1, y \in 0 .. grid.h - 1 : addr = addressAt(grid, [x |-> x, y |-> y])
        BY DEF Clickable
      <3>2. x \in Nat /\ y \in Nat /\ grid \in Grid
        BY DEF WidgetInv, GridInv, Grid
      <3> QED
        BY <3>1, <3>2, GridAddress
    <2>2. navigateTo(addr) /\ strip' = strip
      BY <1>6 DEF overviewPressed
    <2> QED
      BY <1>2, <2>1, <2>2 DEF WidgetInv
  <1>7. ASSUME NEW value \in 0 .. scrollMax(grid), overviewScrolled(value)
        PROVE  WidgetInv'
    <2>1. PICK u : u = scrolled(grid, value)
      OBVIOUS
    <2>2. value \in Int
      BY ScrollNumbers DEF WidgetInv, GridInv
    <2>3. GridInv(u, session.sections)
      BY <2>1, <2>2, ScrollKeeps DEF WidgetInv
    <2>4. /\ grid' = u /\ seen' = 0 /\ session' = session /\ lists' = lists /\ graph' = graph
          /\ strip' = strip /\ size' = size
      BY <1>7, <2>1 DEF overviewScrolled
    <2> QED
      BY <2>3, <2>4 DEF WidgetInv, SceneOK
  <1>8. ASSUME NEW pos \in session.points, picked(pos), strip' \in Strip
        PROVE  WidgetInv'
    <2>1. pos \in Point
      BY ListedNumbers
    <2>2. CASE stripAddressAt(strip, pos) # 0
      <3>1. PICK a : a = stripAddressAt(strip, pos)
        OBVIOUS
      <3>2. a \in Nat
        BY <2>1, <3>1, PickedNumber DEF WidgetInv
      <3>3. navigateTo(a)
        BY <1>8, <2>2, <3>1 DEF picked
      <3> QED
        BY <1>2, <1>8, <3>2, <3>3
    <2>3. CASE stripAddressAt(strip, pos) = 0
      <3>1. /\ session' = session /\ lists' = lists /\ graph' = graph /\ grid' = grid
            /\ size' = size /\ seen' = seen
        BY <1>8, <2>3 DEF picked
      <3> QED
        BY <1>8, <3>1 DEF WidgetInv, GridInv, Shown, SceneOK
    <2> QED
      BY <2>2, <2>3
  <1>9. ASSUME NEW pos \in session.points, stripPressed(pos) \/ stripMoved(pos)
        PROVE  WidgetInv'
    <2>1. picked(pos)
      BY <1>9 DEF stripPressed, stripMoved
    <2>2. \/ strip' = [strip EXCEPT !.pinned = TRUE, !.dragging = TRUE]
          \/ strip' = [strip EXCEPT !.pinned = TRUE]
      BY <1>9 DEF stripPressed, stripMoved
    <2>3. strip' \in Strip
      BY <2>2, StripKeeps DEF WidgetInv
    <2> QED
      BY <1>8, <2>1, <2>3
  <1>10. CASE stripReleased
    <2>1. strip' \in Strip
      BY <1>10, StripKeeps DEF WidgetInv, stripReleased
    <2>2. /\ session' = session /\ lists' = lists /\ graph' = graph /\ grid' = grid
          /\ size' = size /\ seen' = seen
      BY <1>10 DEF stripReleased
    <2> QED
      BY <2>1, <2>2 DEF WidgetInv, GridInv, Shown, SceneOK
  <1>11. ASSUME NEW v \in session.pages, selectView(v)
         PROVE  WidgetInv'
    <2>1. /\ graph' = (IF v = "Graph" THEN graphRefresh(session, graph) ELSE graph)
          /\ session' = session /\ lists' = lists /\ strip' = strip /\ size' = size
      BY <1>11 DEF selectView
    <2>2. SceneOK(graph')
      BY <2>1, GraphKeeps DEF WidgetInv
    <2>3. GridInv(grid', session.sections) /\ seen' \in Nat /\ (seen' # 0 => Shown(grid', seen'))
      <3>1. CASE v = "Bytes"
        <4>1. session.sections \in Seq(Section)
          BY ListedNumbers
        <4>2. PICK x : x = overviewResize(grid, size)
          OBVIOUS
        <4>3. GridInv(x, session.sections) /\ ((grid.w = size.w /\ grid.h = size.h) => x = grid)
          BY <4>2, ResizeKeeps DEF WidgetInv
        <4>4. PICK u : u = overviewRefresh(x, session.sections)
          OBVIOUS
        <4>5. GridInv(u, session.sections) /\ (x.end # 0 => u = x)
          BY <4>1, <4>3, <4>4, RefreshKeeps
        <4>6. /\ grid' = u
              /\ seen' = IF grid.w # size.w \/ grid.h # size.h THEN 0 ELSE seen
          BY <1>11, <3>1, <4>2, <4>4 DEF selectView
        <4>7. seen # 0 => grid.end # 0 /\ Shown(grid, seen)
          BY DEF WidgetInv, Shown, InGrid
        <4> QED
          BY <4>3, <4>5, <4>6, <4>7 DEF WidgetInv
      <3>2. CASE v # "Bytes"
        <4>1. grid' = grid /\ seen' = seen
          BY <1>11, <3>2 DEF selectView
        <4> QED
          BY <4>1 DEF WidgetInv
      <3> QED
        BY <3>1, <3>2
    <2> QED
      BY <2>1, <2>2, <2>3 DEF WidgetInv
  <1>12. ASSUME NEW sz \in session.sizes, resizeEvent(sz)
         PROVE  WidgetInv'
    <2>1. sz \in Size
      BY ListedNumbers
    <2>2. PICK u : u = overviewResize(grid, sz)
      OBVIOUS
    <2>3. GridInv(u, session.sections)
      BY <2>1, <2>2, ResizeKeeps DEF WidgetInv
    <2>4. /\ size' = sz /\ strip' = [strip EXCEPT !.w = sz.strip, !.h = sz.h]
          /\ session' = session /\ lists' = lists /\ graph' = graph
          /\ (grid' = u /\ seen' = 0) \/ (grid' = grid /\ seen' = seen)
      BY <1>12, <2>2 DEF resizeEvent
    <2>5. strip' \in Strip
      BY <2>1, <2>4, StripKeeps DEF WidgetInv
    <2>6. GridInv(grid', session.sections) /\ seen' \in Nat /\ (seen' # 0 => Shown(grid', seen'))
      BY <2>3, <2>4 DEF WidgetInv
    <2> QED
      BY <2>1, <2>4, <2>5, <2>6 DEF WidgetInv, SceneOK
  <1> QED
    BY <1>1, <1>3, <1>4, <1>5, <1>6, <1>7, <1>9, <1>10, <1>11, <1>12, StepKinds DEF Others

\* Both invariants hold in every reachable state.
LEMMA WidgetInvariant == Spec => [](TableInv /\ WidgetInv)
  <1>1. Init => TableInv /\ WidgetInv
    BY TableInit, WidgetInit
  <1>2. TableInv /\ WidgetInv /\ [Next]_vars => (TableInv /\ WidgetInv)'
    <2>1. TableInv /\ WidgetInv /\ [Next]_vars => WidgetInv'
      BY WidgetStep DEF TableInv
    <2> QED
      BY <2>1, TableStep
  <1> QED
    BY <1>1, <1>2, PTL DEF Spec

\* The grid shows the address it was last moved to, whatever reloads and page
\* switches came since: refresh clamps the scroll bar and does not reset it.
THEOREM ViewsNavigationVisible == Spec => []NavigationVisible
  <1>1. WidgetInv => NavigationVisible
    BY ShownPainted DEF WidgetInv, GridInv, NavigationVisible
  <1> QED
    BY <1>1, WidgetInvariant, PTL

\* In every state of the grid a click anywhere on a painted cell means its byte.
THEOREM ViewsClickedIsPainted == Spec => []ClickedIsPainted
  <1>1. WidgetInv => ClickedIsPainted
    BY GridClick DEF WidgetInv, GridInv, ClickedIsPainted
  <1> QED
    BY <1>1, WidgetInvariant, PTL

\* The row of pixels a byte of the image falls into begins in the image.
LEMMA RowWithin ==
  ASSUME NEW s \in Strip, s.end > s.start, NEW addr \in s.start .. s.end - 1,
         NEW row, row = s.start + ((addr - s.start) \div bytesPerRow(s)) * bytesPerRow(s)
  PROVE  row \in s.start .. s.end - 1
  <1>t. s.start \in Nat /\ s.end \in Nat
    BY DEF Strip
  <1>1. PICK B : B = bytesPerRow(s)
    OBVIOUS
  <1>2. B \in Nat \ {0}
    <2>1. PICK k : k = colBytes(s)
      OBVIOUS
    <2> QED
      BY <1>1, <2>1, StripNumbers
  <1>3. PICK o \in Nat : o = addr - s.start
    BY <1>t
  <1>4. (o \div B) * B <= o /\ (o \div B) * B \in Nat
    BY <1>2, <1>3, DivMod, SMTT(60)
  <1>5. PICK P \in Nat : P = (o \div B) * B
    BY <1>4
  <1>6. row = s.start + P
    BY <1>1, <1>3, <1>5
  <1> QED
    BY <1>3, <1>4, <1>5, <1>6, <1>t

\* A read returns a number of bytes.
LEMMA ReadNumber ==
  ASSUME NEW s, s.sections \in Seq(Section), NEW addr \in Nat, NEW n \in Nat
  PROVE  irida_read_memory(s, addr, n) \in Nat
  <1>1. PICK holding : holding = {i \in DOMAIN s.sections :
                                    /\ s.sections[i].vaddr <= addr
                                    /\ addr < s.sections[i].vaddr + s.sections[i].vsize}
    OBVIOUS
  <1>2. CASE s.kind = "Mock" \/ holding = {}
    BY <1>1, <1>2 DEF irida_read_memory
  <1>3. CASE s.kind # "Mock" /\ holding # {}
    <2>1. holding \subseteq 1 .. Len(s.sections)
      BY <1>1
    <2>2. Min(holding) \in holding
      <3>1. Len(s.sections) \in Nat
        OBVIOUS
      <3>2. holding \in SUBSET Nat
        BY <2>1, <3>1
      <3> QED
        BY <1>3, <3>2, MinOfSet
    <2>3. s.sections[Min(holding)] \in Section
      BY <2>1, <2>2, ElementOfSeq
    <2>4. PICK sec : sec = s.sections[Min(holding)]
      OBVIOUS
    <2>5. sec.data - (addr - sec.vaddr) \in Int
      BY <2>3, <2>4 DEF Section
    <2>6. PICK m : m = Min({n, sec.data - (addr - sec.vaddr)})
      OBVIOUS
    <2>7. m \in Int
      BY <2>5, <2>6, MinOfTwo
    <2>8. irida_read_memory(s, addr, n) = Max({0, m})
      BY <1>1, <1>3, <2>4, <2>6 DEF irida_read_memory
    <2> QED
      BY <2>7, <2>8, MaxOfTwo
  <1> QED
    BY <1>2, <1>3

\* In every state of the strip a byte has one painted cell if the read of its row of
\* pixels reaches it, and none otherwise; a click means the byte the cell at the
\* point begins with, or the last byte where the row has no cell.
THEOREM ViewsStripExact == Spec => []StripExact
  <1>1. TableInv /\ WidgetInv => StripExact
    <2> SUFFICES ASSUME TableInv, WidgetInv, strip.end > strip.start PROVE StripExact
      BY DEF StripExact
    <2>1. /\ strip \in Strip /\ strip.w \in Nat /\ strip.h \in Nat \ {0}
          /\ strip.start \in Nat /\ strip.end \in Nat
      BY DEF WidgetInv, Strip
    <2>2. session.sections \in Seq(Section)
      BY ListedNumbers DEF TableInv
    <2>3. PICK reach : reach = [a \in strip.start .. strip.end - 1 |->
                                  irida_read_memory(session, a, strip.end - a)]
      OBVIOUS
    <2>4. ReadsOf(strip, reach)
      <3>1. \A a \in strip.start .. strip.end - 1 : irida_read_memory(session, a, strip.end - a) \in Nat
        <4>1. \A a \in strip.start .. strip.end - 1 : a \in Nat /\ strip.end - a \in Nat
          BY <2>1
        <4> QED
          BY <2>2, <4>1, ReadNumber
      <3> QED
        BY <2>3, <3>1 DEF ReadsOf
    <2>5. ASSUME NEW addr \in strip.start .. strip.end - 1
          PROVE  LET row == strip.start + ((addr - strip.start) \div bytesPerRow(strip)) * bytesPerRow(strip)
                 IN  Cardinality(Over(PaintedRuns, addr)) =
                       IF addr < row + irida_read_memory(session, row, strip.end - row) THEN 1 ELSE 0
      <3>1. PICK row : row = strip.start + ((addr - strip.start) \div bytesPerRow(strip)) * bytesPerRow(strip)
        OBVIOUS
      <3>2. row \in strip.start .. strip.end - 1
        BY <2>1, <3>1, RowWithin
      <3>3. Cardinality(Over(Cells(strip, reach), addr)) = IF addr < row + reach[row] THEN 1 ELSE 0
        BY <2>1, <2>4, <3>1, StripPainted
      <3>4. PaintedRuns = Cells(strip, reach)
        BY <2>3 DEF PaintedRuns
      <3>5. reach[row] = irida_read_memory(session, row, strip.end - row)
        BY <2>3, <3>2
      <3> QED
        BY <3>1, <3>3, <3>4, <3>5
    <2>6. ASSUME NEW x \in 0 .. strip.w - 1, NEW y \in 0 .. strip.h - 1
          PROVE  LET addr == stripAddressAt(strip, [x |-> x, y |-> y])
                 IN  \/ \E cell \in Runs(strip) : cell.y = y /\ cell.first = addr
                     \/ /\ addr = strip.end - 1
                        /\ \E c \in 0 .. cols_ - 1 : \A cell \in Runs(strip) : ~(cell.y = y /\ cell.c = c)
      <3>1. PICK pos : pos = [x |-> x, y |-> y]
        OBVIOUS
      <3>2. pos \in Point /\ pos.y = y /\ y = Clamp(y, 0, strip.h - 1)
        BY <2>1, <3>1 DEF Point, Clamp
      <3>3. PICK addr : addr = stripAddressAt(strip, pos)
        OBVIOUS
      <3>4. \/ \E cell \in Runs(strip) : cell.y = y /\ cell.first = addr
            \/ /\ addr = strip.end - 1
               /\ \E c \in 0 .. cols_ - 1 : \A cell \in Runs(strip) : ~(cell.y = y /\ cell.c = c)
        BY <2>1, <3>2, <3>3, StripClick
      <3> QED
        BY <3>1, <3>3, <3>4
    <2> QED
      BY <2>5, <2>6 DEF StripExact
  <1> QED
    BY <1>1, WidgetInvariant, PTL

\* In every scene the graph shows the blocks are apart, and a block is as many rows
\* down as its shortest path from the first is long: the breadth-first search visits
\* every block it finds, the layers are disjoint rows, and each row is in order of
\* its addresses.
THEOREM ViewsLayoutSound == Spec => []LayoutSound
  <1>1. WidgetInv => LayoutSound
    BY DEF WidgetInv, SceneOK, LayoutSound
  <1> QED
    BY <1>1, WidgetInvariant, PTL

=============================================================================
