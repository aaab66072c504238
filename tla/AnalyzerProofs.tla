--------------------------- MODULE AnalyzerProofs ---------------------------
(***************************************************************************)
(* Theorems about the analyzer, for every image, seeds and instruction     *)
(* set: when finalize starts each leader has a block of its own, each      *)
(* function of the result is exactly the code reachable from its entry,    *)
(* cut into blocks with true edges, and the result is the call graph below *)
(* the seeds with the references of its code.                              *)
(*                                                                         *)
(* Recursive functions are reasoned about by the least-number principle    *)
(* (LeastNatural, Counting): Closure becomes the least closed set          *)
(* (IsReach), Run a straight run (RunFacts), XrefsOf a join (JoinFacts).   *)
(* ResultInv is the inductive invariant of the whole analysis.             *)
(***************************************************************************)
EXTENDS Analyzer, SequenceTheorems, FiniteSetTheorems, NaturalsInduction,
        WellFoundedInduction, TLAPS

-----------------------------------------------------------------------------
(* Counting and recursion                                                    *)

\* The least-number principle, from the library's well-founded minimum.
LEMMA LeastNatural ==
  ASSUME NEW S \in SUBSET Nat, S # {}
  PROVE  \E m \in S : \A k \in S : m <= k
  <1>1. PICK R : IsWellFoundedOn(R, Nat) /\ \A x, y \in Nat : y < x => <<y, x>> \in R
    <2>1. \A x, y \in Nat : y < x => <<y, x>> \in OpToRel(<, Nat)
      BY DEF OpToRel
    <2> QED
      BY <2>1, NatLessThanWellFounded
  <1>2. PICK m \in S : \A k \in S : ~(<<k, m>> \in R)
    BY <1>1, WFMin
  <1>3. \A k \in S : ~(k < m)
    BY <1>1, <1>2
  <1> QED
    BY <1>3

\* Induction, for a set: one that holds zero and each successor is all of Nat.
LEMMA Counting ==
  ASSUME NEW T \in SUBSET Nat, 0 \in T, \A n \in T : n + 1 \in T
  PROVE  T = Nat
  <1> SUFFICES ASSUME Nat \ T # {} PROVE FALSE
    OBVIOUS
  <1>1. PICK m \in Nat \ T : \A k \in Nat \ T : m <= k
    BY LeastNatural
  <1>2. m # 0 /\ m - 1 \in Nat /\ ~(m <= m - 1)
    BY <1>1
  <1>3. m - 1 \in T
    BY <1>1, <1>2
  <1>4. (m - 1) + 1 \in T /\ (m - 1) + 1 = m
    BY <1>3
  <1> QED
    BY <1>1, <1>4

\* The states of a loop: at its start and after each of n turns.
IsRun(f, S, start, turn, n) ==
  /\ f \in [0 .. n -> S] /\ f[0] = start
  /\ \A k \in 1 .. n : f[k] = turn[<<k, f[k - 1]>>]

\* A loop of n turns has a state after each of them.
LEMMA LoopStates ==
  ASSUME NEW S, NEW start \in S, NEW turn \in [Nat \X S -> S]
  PROVE  \A n \in Nat : \E f : IsRun(f, S, start, turn, n)
  <1> DEFINE Follows(n, f) == f[0] = start /\ \A k \in 1 .. n : f[k] = turn[<<k, f[k - 1]>>]
             T == {n \in Nat : \E f \in [0 .. n -> S] : Follows(n, f)}
  <1>1. 0 \in T
    <2>1. [k \in 0 .. 0 |-> start] \in [0 .. 0 -> S] /\ Follows(0, [k \in 0 .. 0 |-> start])
      OBVIOUS
    <2> QED
      BY <2>1
  <1>2. ASSUME NEW n \in T PROVE n + 1 \in T
    <2>1. PICK f \in [0 .. n -> S] : Follows(n, f)
      OBVIOUS
    <2>2. PICK x : x = turn[<<n + 1, f[n]>>] /\ x \in S
      <3>1. n \in 0 .. n /\ n + 1 \in Nat /\ f[n] \in S
        OBVIOUS
      <3>2. <<n + 1, f[n]>> \in Nat \X S
        BY <3>1
      <3> QED
        BY <3>2
    <2>3. PICK g : g = [k \in 0 .. n + 1 |-> IF k = n + 1 THEN x ELSE f[k]]
      OBVIOUS
    <2>4. g \in [0 .. n + 1 -> S]
      BY <2>2, <2>3
    <2>5. Follows(n + 1, g)
      <3>1. g[0] = start
        BY <2>1, <2>3
      <3>2. ASSUME NEW k \in 1 .. n + 1 PROVE g[k] = turn[<<k, g[k - 1]>>]
        <4>1. k - 1 \in 0 .. n + 1 /\ k - 1 # n + 1 /\ g[k - 1] = f[k - 1]
          BY <2>3
        <4>2. CASE k = n + 1
          BY <2>2, <2>3, <4>1, <4>2
        <4>3. CASE k # n + 1
          BY <2>1, <2>3, <4>1, <4>3
        <4> QED
          BY <4>2, <4>3
      <3> QED
        BY <3>1, <3>2
    <2> QED
      BY <2>4, <2>5
  <1> HIDE DEF T
  <1>3. T = Nat
    BY <1>1, <1>2, Counting DEF T
  <1> QED
    BY <1>3 DEF T, IsRun

\* Two runs of a loop agree as far as the shorter one goes.
LEMMA RunsAgree ==
  ASSUME NEW S, NEW start, NEW turn, NEW n \in Nat, NEW m \in Nat, n <= m,
         NEW f, NEW g, IsRun(f, S, start, turn, n), IsRun(g, S, start, turn, m)
  PROVE  f[n] = g[n]
  <1> DEFINE T == {k \in Nat : k <= n => f[k] = g[k]}
  <1>1. 0 \in T
    BY DEF IsRun
  <1>2. ASSUME NEW k \in T PROVE k + 1 \in T
    <2> SUFFICES ASSUME k + 1 <= n PROVE f[k + 1] = g[k + 1]
      OBVIOUS
    <2>1. k + 1 \in 1 .. n /\ k + 1 \in 1 .. m /\ k + 1 - 1 = k /\ k <= n
      OBVIOUS
    <2>2. f[k] = g[k]
      BY <2>1
    <2>3. f[k + 1] = turn[<<k + 1, f[k + 1 - 1]>>] /\ g[k + 1] = turn[<<k + 1, g[k + 1 - 1]>>]
      BY <2>1 DEF IsRun
    <2> QED
      BY <2>1, <2>2, <2>3
  <1> HIDE DEF T
  <1>3. T = Nat
    BY <1>1, <1>2, Counting DEF T
  <1> QED
    BY <1>3 DEF T

\* The states of a loop that does not end.
IsEndless(f, S, start, turn) ==
  f \in [Nat -> S] /\ f[0] = start /\ \A n \in Nat : f[n + 1] = turn[<<n + 1, f[n]>>]

\* A loop that never ends has a state after every turn.
LEMMA EndlessLoop ==
  ASSUME NEW S, NEW start \in S, NEW turn \in [Nat \X S -> S]
  PROVE  \E f : IsEndless(f, S, start, turn)
  <1> DEFINE R(n) == CHOOSE f : IsRun(f, S, start, turn, n)
  <1>1. ASSUME NEW n \in Nat PROVE IsRun(R(n), S, start, turn, n)
    BY LoopStates, Zenon
  <1> HIDE DEF R
  <1>2. PICK h : h = [n \in Nat |-> R(n)[n]]
    OBVIOUS
  <1>3. h \in [Nat -> S]
    <2>1. ASSUME NEW n \in Nat PROVE R(n)[n] \in S
      <3>1. n \in 0 .. n
        OBVIOUS
      <3> QED
        BY <1>1, <3>1 DEF IsRun
    <2> QED
      BY <1>2, <2>1
  <1>4. h[0] = start
    <2>1. h[0] = R(0)[0]
      BY <1>2
    <2> QED
      BY <1>1, <2>1 DEF IsRun
  <1>5. ASSUME NEW n \in Nat PROVE h[n + 1] = turn[<<n + 1, h[n]>>]
    <2>1. n + 1 \in Nat /\ n + 1 \in 1 .. n + 1 /\ n + 1 - 1 = n /\ n <= n + 1
      OBVIOUS
    <2>2. R(n + 1)[n + 1] = turn[<<n + 1, R(n + 1)[n]>>]
      BY <1>1, <2>1 DEF IsRun
    <2>3. R(n)[n] = R(n + 1)[n]
      BY <1>1, <2>1, RunsAgree
    <2> QED
      BY <1>2, <2>1, <2>2, <2>3
  <1> QED
    BY <1>3, <1>4, <1>5 DEF IsEndless

-----------------------------------------------------------------------------
(* The queue of blocks: a leader is queued in the same iteration that        *)
(* registers it, a queued address stays queued or has been traced, and       *)
(* finalize starts when the queue is empty.                                  *)

\* The block queue holds every start that was seen and not traced yet.
QueueComplete ==
  phase = "trace" =>
    /\ leaders \subseteq seen
    /\ todo \in Seq(seen)
    /\ seen \subseteq DOMAIN blocks \cup Range(todo)

\* The inductive invariant.
AnalyzerInv == QueueComplete /\ LeadersTraced

-----------------------------------------------------------------------------
\* A sequence's first element and its tail hold all its elements.
LEMMA RangeTail ==
  ASSUME NEW S, NEW q \in Seq(S), q # << >>
  PROVE  /\ Tail(q) \in Seq(S)
         /\ Range(q) \subseteq {Head(q)} \cup Range(Tail(q))
  <1>1. Tail(q) \in Seq(S)
    OBVIOUS
  <1>2. ASSUME NEW i \in DOMAIN q, i # 1
        PROVE  q[i] \in Range(Tail(q))
    <2>1. i - 1 \in DOMAIN Tail(q) /\ Tail(q)[i - 1] = q[i]
      BY <1>2
    <2> QED
      BY <2>1 DEF Range
  <1>3. q[1] = Head(q)
    OBVIOUS
  <1> QED
    BY <1>1, <1>2, <1>3 DEF Range

\* A concatenation holds the elements of both parts.
LEMMA RangeConcat ==
  ASSUME NEW S, NEW q \in Seq(S), NEW r \in Seq(S)
  PROVE  /\ q \o r \in Seq(S)
         /\ Range(q) \subseteq Range(q \o r)
         /\ Range(r) \subseteq Range(q \o r)
  <1>1. ASSUME NEW i \in DOMAIN q PROVE q[i] \in Range(q \o r)
    <2>1. i \in DOMAIN (q \o r) /\ (q \o r)[i] = q[i]
      BY <1>1
    <2> QED
      BY <2>1 DEF Range
  <1>2. ASSUME NEW i \in DOMAIN r PROVE r[i] \in Range(q \o r)
    <2>1. Len(q) + i \in DOMAIN (q \o r) /\ (q \o r)[Len(q) + i] = r[i]
      BY <1>2
    <2> QED
      BY <2>1 DEF Range
  <1>3. q \o r \in Seq(S)
    OBVIOUS
  <1>4. Range(q) \subseteq Range(q \o r)
    <2> SUFFICES ASSUME NEW x \in Range(q) PROVE x \in Range(q \o r)
      OBVIOUS
    <2>1. PICK i \in DOMAIN q : x = q[i]
      BY DEF Range
    <2> QED
      BY <1>1, <2>1
  <1>5. Range(r) \subseteq Range(q \o r)
    <2> SUFFICES ASSUME NEW x \in Range(r) PROVE x \in Range(q \o r)
      OBVIOUS
    <2>1. PICK i \in DOMAIN r : x = r[i]
      BY DEF Range
    <2> QED
      BY <1>2, <2>1
  <1> QED
    BY <1>3, <1>4, <1>5

\* A queue with at most one element.
LEMMA RangeOne == \A x : Range(<<x>>) = {x} /\ <<x>> \in Seq({x})
  BY DEF Range

\* After enqueue both successors are in the set of seen starts, and every start
\* the iteration did not take off the queue is still on it.
LEMMA EnqueueComplete ==
  ASSUME NEW b, todo \in Seq(seen), todo # << >>, Enqueue(b)
  PROVE  /\ {b.jump, b.fail} \ {0} \subseteq seen'
         /\ seen \subseteq seen'
         /\ todo' \in Seq(seen')
         /\ seen' \subseteq seen \cup Range(todo')
         /\ Range(todo) \subseteq {Head(todo)} \cup Range(todo')
  <1> DEFINE jump == IF b.jump \in seen \cup {0} THEN << >> ELSE <<b.jump>>
             fail == IF b.fail \in seen \cup {0, b.jump} THEN << >> ELSE <<b.fail>>
  <1>1. seen' = seen \cup ({b.jump, b.fail} \ {0}) /\ todo' = Tail(todo) \o jump \o fail
    BY DEF Enqueue
  <1>2. /\ jump \in Seq(seen') /\ fail \in Seq(seen')
        /\ b.jump \in seen \cup {0} \cup Range(jump)
        /\ b.fail \in seen \cup {0, b.jump} \cup Range(fail)
    <2>1. jump \in Seq(seen') /\ b.jump \in seen \cup {0} \cup Range(jump)
      <3>1. CASE b.jump \in seen \cup {0}
        BY <3>1
      <3>2. CASE b.jump \notin seen \cup {0}
        <4>1. jump = <<b.jump>> /\ b.jump \in seen'
          BY <1>1, <3>2
        <4> QED
          BY <4>1, RangeOne
      <3> QED
        BY <3>1, <3>2
    <2>2. fail \in Seq(seen') /\ b.fail \in seen \cup {0, b.jump} \cup Range(fail)
      <3>1. CASE b.fail \in seen \cup {0, b.jump}
        BY <3>1
      <3>2. CASE b.fail \notin seen \cup {0, b.jump}
        <4>1. fail = <<b.fail>> /\ b.fail \in seen'
          BY <1>1, <3>2
        <4> QED
          BY <4>1, RangeOne
      <3> QED
        BY <3>1, <3>2
    <2> QED
      BY <2>1, <2>2
  <1>3. Tail(todo) \in Seq(seen') /\ Range(todo) \subseteq {Head(todo)} \cup Range(Tail(todo))
    <2>1. todo \in Seq(seen')
      BY <1>1
    <2> QED
      BY <2>1, RangeTail
  <1> HIDE DEF jump, fail
  <1>4. /\ Tail(todo) \o jump \in Seq(seen')
        /\ Range(Tail(todo)) \subseteq Range(Tail(todo) \o jump)
        /\ Range(jump) \subseteq Range(Tail(todo) \o jump)
    BY <1>2, <1>3, RangeConcat
  <1>5. /\ todo' \in Seq(seen')
        /\ Range(Tail(todo) \o jump) \subseteq Range(todo')
        /\ Range(fail) \subseteq Range(todo')
    BY <1>1, <1>2, <1>4, RangeConcat
  <1> QED
    BY <1>1, <1>2, <1>3, <1>4, <1>5

-----------------------------------------------------------------------------
\* One iteration of build's loop.
LEMMA TraceInv == AnalyzerInv /\ TraceBlock => AnalyzerInv'
  <1> SUFFICES ASSUME AnalyzerInv, TraceBlock PROVE AnalyzerInv'
    OBVIOUS
  <1> DEFINE start == Head(todo)
             b == BlockOf(start, Run(start))
  <1>1. /\ phase = "trace" /\ phase' = "trace" /\ todo # << >>
        /\ leaders \subseteq seen /\ todo \in Seq(seen)
        /\ seen \subseteq DOMAIN blocks \cup Range(todo)
    BY DEF AnalyzerInv, QueueComplete, TraceBlock
  <1>2. CASE start \in DOMAIN blocks
    <2>1. todo' = Tail(todo) /\ UNCHANGED <<blocks, leaders, seen>>
      BY <1>2 DEF TraceBlock
    <2>2. Tail(todo) \in Seq(seen) /\ Range(todo) \subseteq {start} \cup Range(Tail(todo))
      BY <1>1, RangeTail
    <2> QED
      BY <1>1, <1>2, <2>1, <2>2 DEF AnalyzerInv, QueueComplete, LeadersTraced
  <1>3. CASE start \notin DOMAIN blocks
    <2>1. /\ blocks' = [a \in DOMAIN blocks \cup {start} |-> IF a = start THEN b ELSE blocks[a]]
          /\ leaders' = leaders \cup NewLeaders(b)
          /\ Enqueue(b)
      BY <1>3 DEF TraceBlock
    <2>2. DOMAIN blocks' = DOMAIN blocks \cup {start}
      BY <2>1
    <2>3. NewLeaders(b) \subseteq {b.jump, b.fail} \ {0}
      BY DEF NewLeaders
    <2> HIDE DEF b
    <2>4. /\ {b.jump, b.fail} \ {0} \subseteq seen'
          /\ seen \subseteq seen'
          /\ todo' \in Seq(seen')
          /\ seen' \subseteq seen \cup Range(todo')
          /\ Range(todo) \subseteq {start} \cup Range(todo')
      BY <1>1, <2>1, EnqueueComplete
    <2>5. leaders' \subseteq seen'
      BY <1>1, <2>1, <2>3, <2>4
    <2>6. seen' \subseteq DOMAIN blocks' \cup Range(todo')
      BY <1>1, <2>2, <2>4
    <2> QED
      BY <1>1, <2>4, <2>5, <2>6 DEF AnalyzerInv, QueueComplete, LeadersTraced
  <1> QED
    BY <1>2, <1>3

\* A cut only adds a block.
LEMMA SplitInv == AnalyzerInv /\ Split => AnalyzerInv'
  <1> SUFFICES ASSUME AnalyzerInv, Split PROVE AnalyzerInv'
    OBVIOUS
  <1>1. phase' = "split" /\ phase = "split" /\ leaders' = leaders
    BY DEF Split
  <1>2. PICK a, leader : blocks' = SplitAt(blocks, a, leader)
    BY DEF Split
  <1>3. DOMAIN blocks \subseteq DOMAIN blocks'
    BY <1>2 DEF SplitAt
  <1> QED
    BY <1>1, <1>3 DEF AnalyzerInv, QueueComplete, LeadersTraced

\* Every step keeps the inductive invariant.
LEMMA NextInv == AnalyzerInv /\ [Next]_vars => AnalyzerInv'
  <1> SUFFICES ASSUME AnalyzerInv, [Next]_vars PROVE AnalyzerInv'
    OBVIOUS
  <1> USE DEF AnalyzerInv, QueueComplete, LeadersTraced
  <1>1. CASE TraceBlock
    BY <1>1, TraceInv
  <1>2. CASE Split
    BY <1>2, SplitInv
  <1>3. CASE StartFinalize
    <2>1. Range(todo) = {}
      BY <1>3 DEF StartFinalize, Range
    <2> QED
      BY <1>3, <2>1 DEF StartFinalize, builder
  <1>4. CASE PickEntry
    <2>1. CASE Head(work) = 0 \/ Head(work) \in analyzed
      BY <1>4, <2>1 DEF PickEntry, builder
    <2>2. CASE ~(Head(work) = 0 \/ Head(work) \in analyzed)
      <3>1. /\ phase' = "trace" /\ leaders' = {Head(work)}
            /\ seen' = {Head(work)} /\ todo' = <<Head(work)>>
        BY <1>4, <2>2 DEF PickEntry
      <3> QED
        BY <3>1, RangeOne
    <2> QED
      BY <2>1, <2>2
  <1>5. CASE Publish
    BY <1>5 DEF Publish
  <1>6. CASE Finish
    BY <1>6 DEF Finish
  <1>7. CASE UNCHANGED vars
    BY <1>7 DEF vars, builder
  <1> QED
    BY <1>1, <1>2, <1>3, <1>4, <1>5, <1>6, <1>7 DEF Next

\* At the start of finalize, and throughout its loop, every leader begins a
\* block of the function (finalize, split_block: the tail it builds is never
\* needed).
THEOREM LeadersBeginBlocks == Spec => []LeadersTraced
  <1>1. Init => AnalyzerInv
    BY DEF Init, AnalyzerInv, QueueComplete, LeadersTraced
  <1>2. AnalyzerInv => LeadersTraced
    BY DEF AnalyzerInv
  <1> QED
    BY <1>1, <1>2, NextInv, PTL DEF Spec

-----------------------------------------------------------------------------
(* Reachability                                                              *)

\* The rounds of Closure: what is reached after each of them.
IsGrowth(g, from, next) ==
  /\ g \in [Nat -> SUBSET Nat] /\ g[0] = from
  /\ \A n \in Nat : g[n + 1] = g[n] \cup UNION {next[a] : a \in g[n]}

\* A round keeps what was reached.
LEMMA GrowthAscends ==
  ASSUME NEW from, NEW next, NEW g, IsGrowth(g, from, next), NEW n \in Nat
  PROVE  \A k \in Nat : g[n] \subseteq g[n + k]
  <1> DEFINE T == {k \in Nat : g[n] \subseteq g[n + k]}
  <1>1. 0 \in T
    OBVIOUS
  <1>2. ASSUME NEW k \in T PROVE k + 1 \in T
    <2>1. n + k \in Nat /\ n + (k + 1) = n + k + 1
      OBVIOUS
    <2>2. g[n + k] \subseteq g[n + k + 1]
      BY <2>1 DEF IsGrowth
    <2> QED
      BY <2>1, <2>2
  <1> HIDE DEF T
  <1>3. T = Nat
    BY <1>1, <1>2, Counting DEF T
  <1> QED
    BY <1>3 DEF T

\* Once a round reaches nothing new, none after it does.
LEMMA GrowthEnds ==
  ASSUME NEW from, NEW next, NEW g, IsGrowth(g, from, next), NEW n \in Nat, g[n + 1] = g[n]
  PROVE  \A k \in Nat : g[n + k] = g[n]
  <1> DEFINE T == {k \in Nat : g[n + k] = g[n]}
  <1>1. 0 \in T
    OBVIOUS
  <1>2. ASSUME NEW k \in T PROVE k + 1 \in T
    <2>1. n + k \in Nat /\ n + (k + 1) = n + k + 1
      OBVIOUS
    <2>2. g[n + k + 1] = g[n + k] \cup UNION {next[a] : a \in g[n + k]}
      BY <2>1 DEF IsGrowth
    <2>3. g[n + 1] = g[n] \cup UNION {next[a] : a \in g[n]}
      BY DEF IsGrowth
    <2>4. g[n + k] = g[n]
      OBVIOUS
    <2> QED
      BY <2>1, <2>2, <2>3, <2>4
  <1> HIDE DEF T
  <1>3. T = Nat
    BY <1>1, <1>2, Counting DEF T
  <1> QED
    BY <1>3 DEF T

\* Whatever holds the start and is closed under next holds what was reached.
LEMMA GrowthLeast ==
  ASSUME NEW from, NEW next, NEW g, IsGrowth(g, from, next),
         NEW C, from \subseteq C, \A a \in C : next[a] \subseteq C
  PROVE  \A n \in Nat : g[n] \subseteq C
  <1> DEFINE T == {n \in Nat : g[n] \subseteq C}
  <1>1. 0 \in T
    BY DEF IsGrowth
  <1>2. ASSUME NEW n \in T PROVE n + 1 \in T
    <2>1. g[n + 1] = g[n] \cup UNION {next[a] : a \in g[n]}
      BY DEF IsGrowth
    <2>2. UNION {next[a] : a \in g[n]} \subseteq C
      OBVIOUS
    <2> QED
      BY <2>1, <2>2
  <1> HIDE DEF T
  <1>3. T = Nat
    BY <1>1, <1>2, Counting DEF T
  <1> QED
    BY <1>3 DEF T

\* When only max addresses have successors, max + 1 rounds reach all there is:
\* each round that reaches something new needs one of them that the round before
\* did not have.
LEMMA GrowthCloses ==
  ASSUME NEW from, NEW next, NEW g, IsGrowth(g, from, next),
         NEW max \in Nat, \A a \in Nat : next[a] # {} => a \in 1 .. max
  PROVE  \A a \in g[max + 1] : next[a] \subseteq g[max + 1]
  <1>1. ASSUME NEW n \in Nat, g[n + 1] # g[n]
        PROVE  \E a \in 1 .. max : a \in g[n] /\ (n # 0 => a \notin g[n - 1])
    <2>1. g[n + 1] = g[n] \cup UNION {next[a] : a \in g[n]}
      BY DEF IsGrowth
    <2>2. PICK a \in g[n] : ~(next[a] \subseteq g[n])
      BY <1>1, <2>1
    <2>3. a \in Nat /\ a \in 1 .. max
      BY <2>2 DEF IsGrowth
    <2>4. ASSUME n # 0, a \in g[n - 1] PROVE FALSE
      <3>1. n - 1 \in Nat /\ n - 1 + 1 = n
        BY <2>4
      <3>2. g[n] = g[n - 1] \cup UNION {next[x] : x \in g[n - 1]}
        BY <3>1 DEF IsGrowth
      <3> QED
        BY <2>2, <2>4, <3>2
    <2> QED
      BY <2>3, <2>4
  <1>2. \E n \in 0 .. max : g[n + 1] = g[n]
    <2> SUFFICES ASSUME \A n \in 0 .. max : g[n + 1] # g[n] PROVE FALSE
      OBVIOUS
    <2> DEFINE New(n) == {a \in 1 .. max : a \in g[n] /\ (n # 0 => a \notin g[n - 1])}
    <2>1. PICK w : w = [n \in 0 .. max |-> CHOOSE a : a \in New(n)]
      OBVIOUS
    <2>2. ASSUME NEW n \in 0 .. max PROVE w[n] \in New(n)
      <3>1. \E a : a \in New(n)
        BY <1>1
      <3> HIDE DEF New
      <3> QED
        BY <2>1, <3>1
    <2>3. w \in [0 .. max -> 1 .. max]
      BY <2>1, <2>2
    <2>4. ASSUME NEW n \in 0 .. max, NEW m \in 0 .. max, n < m PROVE w[n] # w[m]
      <3>1. w[n] \in g[n] /\ w[m] \notin g[m - 1]
        BY <2>2, <2>4
      <3>2. m - 1 - n \in Nat /\ n + (m - 1 - n) = m - 1 /\ n \in Nat
        BY <2>4
      <3>3. g[n] \subseteq g[m - 1]
        BY <3>2, GrowthAscends
      <3> QED
        BY <3>1, <3>3
    <2>5. /\ IsFiniteSet(0 .. max) /\ IsFiniteSet(1 .. max)
          /\ Cardinality(1 .. max) < Cardinality(0 .. max)
      <3>1. 0 \in Int /\ 1 \in Int /\ max \in Int /\ ~(0 > max)
        OBVIOUS
      <3>2. IsFiniteSet(0 .. max) /\ Cardinality(0 .. max) = max + 1
        BY <3>1, FS_Interval
      <3>3. IsFiniteSet(1 .. max) /\ Cardinality(1 .. max) = max
        BY <3>1, FS_Interval
      <3> QED
        BY <3>2, <3>3
    <2>6. PICK n \in 0 .. max, m \in 0 .. max : n # m /\ w[n] = w[m]
      BY <2>3, <2>5, FS_PigeonHole
    <2> QED
      BY <2>4, <2>6
  <1>3. PICK n \in 0 .. max : g[n + 1] = g[n]
    BY <1>2
  <1>4. /\ n \in Nat /\ max + 1 - n \in Nat /\ max + 2 - n \in Nat
        /\ n + (max + 1 - n) = max + 1 /\ n + (max + 2 - n) = max + 1 + 1 /\ max + 1 \in Nat
    OBVIOUS
  <1>5. g[max + 1] = g[n] /\ g[max + 1 + 1] = g[n]
    <2>1. \A k \in Nat : g[n + k] = g[n]
      BY <1>3, <1>4, GrowthEnds
    <2>2. g[n + (max + 1 - n)] = g[n] /\ g[n + (max + 2 - n)] = g[n]
      BY <2>1, <1>4
    <2> QED
      BY <2>2, <1>4
  <1>6. g[max + 1 + 1] = g[max + 1] \cup UNION {next[a] : a \in g[max + 1]}
    BY <1>4 DEF IsGrowth
  <1> QED
    BY <1>5, <1>6

\* Closure's definition of its rounds, for any successors.
GrownBy(f, from, next) ==
  f = [n \in Nat |-> IF n = 0 THEN from
                     ELSE f[n - 1] \cup UNION {next[a] : a \in f[n - 1]}]

\* Rounds that meet Closure's equation are the growth from the start.
LEMMA GrownIsGrowth ==
  ASSUME NEW from \in SUBSET Nat, NEW next \in [Nat -> SUBSET Nat],
         NEW grow, GrownBy(grow, from, next)
  PROVE  IsGrowth(grow, from, next)
  <1>1. grow[0] = from /\ \A n \in Nat : grow[n + 1] = grow[n] \cup UNION {next[a] : a \in grow[n]}
    <2>1. grow[0] = from
      BY DEF GrownBy
    <2>2. ASSUME NEW n \in Nat PROVE grow[n + 1] = grow[n] \cup UNION {next[a] : a \in grow[n]}
      <3>1. n + 1 \in Nat /\ n + 1 # 0 /\ n + 1 - 1 = n
        OBVIOUS
      <3>2. grow[n + 1] = grow[n + 1 - 1] \cup UNION {next[a] : a \in grow[n + 1 - 1]}
        BY <3>1 DEF GrownBy
      <3> QED
        BY <3>1, <3>2
    <2> QED
      BY <2>1, <2>2
  <1>2. \A n \in Nat : grow[n] \in SUBSET Nat
    <2> DEFINE T == {n \in Nat : grow[n] \in SUBSET Nat}
    <2>1. 0 \in T
      BY <1>1
    <2>2. ASSUME NEW n \in T PROVE n + 1 \in T
      <3>1. n \in Nat /\ grow[n] \subseteq Nat
        OBVIOUS
      <3>2. grow[n + 1] = grow[n] \cup UNION {next[a] : a \in grow[n]}
        BY <1>1
      <3>3. UNION {next[a] : a \in grow[n]} \subseteq Nat
        BY <3>1
      <3> QED
        BY <3>1, <3>2, <3>3
    <2> HIDE DEF T
    <2>3. T = Nat
      BY <2>1, <2>2, Counting DEF T
    <2> QED
      BY <2>3 DEF T
  <1>3. grow \in [Nat -> SUBSET Nat]
    <2>1. grow = [n \in Nat |-> grow[n]]
      BY DEF GrownBy
    <2> QED
      BY <1>2, <2>1
  <1> QED
    BY <1>1, <1>3 DEF IsGrowth

\* There are such rounds.
LEMMA GrownExists ==
  ASSUME NEW from \in SUBSET Nat, NEW next \in [Nat -> SUBSET Nat]
  PROVE  \E f : GrownBy(f, from, next)
  <1>1. PICK R : R = SUBSET Nat
    OBVIOUS
  <1>2. PICK turn : turn = [p \in Nat \X R |-> p[2] \cup UNION {next[a] : a \in p[2]}]
    OBVIOUS
  <1>3. ASSUME NEW n \in Nat, NEW r \in R
        PROVE  turn[<<n, r>>] = r \cup UNION {next[a] : a \in r} /\ turn[<<n, r>>] \in R
    <2>1. <<n, r>> \in Nat \X R /\ <<n, r>>[2] = r
      OBVIOUS
    <2>2. turn[<<n, r>>] = r \cup UNION {next[a] : a \in r}
      BY <1>2, <2>1
    <2>3. r \subseteq Nat /\ UNION {next[a] : a \in r} \subseteq Nat
      BY <1>1
    <2> QED
      BY <1>1, <2>2, <2>3
  <1>4. turn \in [Nat \X R -> R]
    <2>1. ASSUME NEW p \in Nat \X R PROVE turn[p] \in R
      <3>1. PICK n \in Nat, r \in R : p = <<n, r>>
        OBVIOUS
      <3> QED
        BY <1>3, <3>1
    <2> QED
      BY <1>2, <2>1
  <1>5. from \in R
    BY <1>1
  <1>6. PICK f : IsEndless(f, R, from, turn)
    BY <1>4, <1>5, EndlessLoop
  <1>7. ASSUME NEW n \in Nat, n # 0 PROVE f[n] = f[n - 1] \cup UNION {next[a] : a \in f[n - 1]}
    <2>1. n - 1 \in Nat /\ n - 1 + 1 = n
      BY <1>7
    <2>2. f[n - 1] \in R /\ f[n] = turn[<<n, f[n - 1]>>]
      BY <1>6, <2>1 DEF IsEndless
    <2> QED
      BY <1>3, <2>2
  <1>8. f = [n \in Nat |-> IF n = 0 THEN from ELSE f[n - 1] \cup UNION {next[a] : a \in f[n - 1]}]
    <2> DEFINE F == [n \in Nat |-> IF n = 0 THEN from
                                   ELSE f[n - 1] \cup UNION {next[a] : a \in f[n - 1]}]
    <2>1. \A n \in Nat : f[n] = F[n]
      BY <1>6, <1>7 DEF IsEndless
    <2>2. f = [n \in Nat |-> f[n]] /\ F = [n \in Nat |-> F[n]]
      BY <1>6 DEF IsEndless
    <2> HIDE DEF F
    <2>3. f = F
      BY <2>1, <2>2
    <2> QED
      BY <2>3 DEF F
  <1> QED
    BY <1>8 DEF GrownBy

\* C is the least set that holds from and that next does not leave.
IsReach(C, from, next) ==
  /\ C \subseteq Nat /\ from \subseteq C /\ \A a \in C : next[a] \subseteq C
  /\ \A D : from \subseteq D /\ D \subseteq Nat /\ (\A a \in D : next[a] \subseteq D) => C \subseteq D

\* There is only one.
LEMMA OneReach ==
  ASSUME NEW C, NEW D, NEW from, NEW next, IsReach(C, from, next), IsReach(D, from, next)
  PROVE  C = D
  <1>1. C \subseteq D
    BY DEF IsReach
  <1>2. D \subseteq C
    BY DEF IsReach
  <1> QED
    BY <1>1, <1>2

\* When only max addresses have successors, max + 1 rounds reach it.
LEMMA GrownReaches ==
  ASSUME NEW from \in SUBSET Nat, NEW next \in [Nat -> SUBSET Nat], NEW max \in Nat,
         \A a \in Nat : next[a] # {} => a \in 1 .. max,
         NEW g, GrownBy(g, from, next)
  PROVE  IsReach(g[max + 1], from, next)
  <1>1. IsGrowth(g, from, next)
    BY GrownIsGrowth
  <1>2. max + 1 \in Nat /\ 0 + (max + 1) = max + 1
    OBVIOUS
  <1>3. g[max + 1] \subseteq Nat /\ from \subseteq g[max + 1]
    <2>1. \A k \in Nat : g[0] \subseteq g[0 + k]
      BY <1>1, GrowthAscends
    <2>2. g[0] \subseteq g[max + 1]
      BY <1>2, <2>1
    <2> QED
      BY <1>1, <1>2, <2>2 DEF IsGrowth
  <1>4. \A a \in g[max + 1] : next[a] \subseteq g[max + 1]
    BY <1>1, GrowthCloses
  <1>5. ASSUME NEW D, from \subseteq D, D \subseteq Nat, \A a \in D : next[a] \subseteq D
        PROVE  g[max + 1] \subseteq D
    BY <1>1, <1>2, <1>5, GrowthLeast
  <1> QED
    BY <1>3, <1>4, <1>5 DEF IsReach

-----------------------------------------------------------------------------
(* The code: what an instruction leads to, and what is reached from a start. *)

\* The image is one of the model's.
CodeOK == code \in [Addr -> Insns]

\* What an instruction that decodes looks like.
LEMMA InsnFacts ==
  ASSUME CodeOK, NEW a, Decodes(a)
  PROVE  /\ a \in Nat /\ a \in 1 .. LastAddr
         /\ code[a].target \in Nat /\ code[a].len \in Nat \ {0}
         /\ After(a) \in Nat /\ a < After(a)
         /\ code[a].flow \in {"Sequential", "Jump", "CondJump", "Call", "Return"}
         /\ code[a].flow \in {"Sequential", "Return"} => code[a].target = 0
  <1>1. a \in Addr /\ code[a].flow # "Invalid" /\ code[a] \in Insns
    BY DEF Decodes, CodeOK
  <1>2. a \in Nat /\ a \in 1 .. LastAddr
    BY <1>1, AnalyzerAssumption DEF Addr
  <1>3. /\ code[a].flow \in Flows /\ code[a].len \in Nat \ {0} /\ code[a].target \in Nat
        /\ code[a].flow \in {"Sequential", "Return", "Invalid"} => code[a].target = 0
    BY <1>1, AnalyzerAssumption
  <1>4. After(a) \in Nat /\ a < After(a)
    <2>1. After(a) = a + code[a].len
      BY DEF After
    <2> QED
      BY <1>2, <1>3, <2>1
  <1> QED
    BY <1>1, <1>2, <1>3, <1>4 DEF Flows

\* Where it leads.
LEMMA SuccsFacts ==
  ASSUME CodeOK, NEW a
  PROVE  /\ ~Decodes(a) => Succs(a) = {}
         /\ Succs(a) \subseteq Nat
         /\ Decodes(a) /\ ~EndsBlock(a) => Succs(a) = {After(a)}
         /\ Decodes(a) /\ code[a].flow = "Jump" => Succs(a) = {code[a].target} \ {0}
         /\ Decodes(a) /\ code[a].flow = "CondJump" => Succs(a) = {code[a].target, After(a)} \ {0}
         /\ Decodes(a) /\ code[a].flow = "Return" => Succs(a) = {}
  <1>1. CASE ~Decodes(a)
    BY <1>1 DEF Succs
  <1>2. CASE Decodes(a)
    <2>1. /\ code[a].target \in Nat /\ After(a) \in Nat
          /\ code[a].flow \in {"Sequential", "Jump", "CondJump", "Call", "Return"}
      BY <1>2, InsnFacts
    <2>2. CASE code[a].flow \in {"Sequential", "Call"}
      BY <1>2, <2>1, <2>2 DEF Succs, EndsBlock
    <2>3. CASE code[a].flow = "Jump"
      BY <1>2, <2>1, <2>3 DEF Succs, EndsBlock
    <2>4. CASE code[a].flow = "CondJump"
      BY <1>2, <2>1, <2>4 DEF Succs, EndsBlock
    <2>5. CASE code[a].flow = "Return"
      BY <1>2, <2>1, <2>5 DEF Succs, EndsBlock
    <2> QED
      BY <2>1, <2>2, <2>3, <2>4, <2>5
  <1> QED
    BY <1>1, <1>2

\* Where each address leads.
NextOf == [a \in Nat |-> Succs(a)]

\* What Closure computes from the successors of instructions.
LEMMA ClosureIsReach == CodeOK => \A e \in Nat : IsReach(Closure({e}, Succs), {e}, NextOf)
  <1> SUFFICES ASSUME CodeOK, NEW e \in Nat PROVE IsReach(Closure({e}, Succs), {e}, NextOf)
    OBVIOUS
  <1> DEFINE Rounds(f) == f = [n \in Nat |-> IF n = 0 THEN {e}
                                ELSE f[n - 1] \cup UNION {Succs(a) : a \in f[n - 1]}]
             grow == CHOOSE f : Rounds(f)
  <1>1. Closure({e}, Succs) = grow[LastAddr + 1]
    BY Zenon DEF Closure
  <1>2. PICK next : next = NextOf
    OBVIOUS
  <1>3. next \in [Nat -> SUBSET Nat] /\ \A a \in Nat : next[a] = Succs(a)
    BY <1>2, SuccsFacts DEF NextOf
  <1>4. PICK from : from = {e} /\ from \in SUBSET Nat
    OBVIOUS
  <1>5. PICK max : max = LastAddr /\ max \in Nat
    BY AnalyzerAssumption
  <1>6. ASSUME NEW r, r \subseteq Nat
        PROVE  UNION {Succs(a) : a \in r} = UNION {next[a] : a \in r}
    BY <1>3, <1>6
  <1>7. \E f : Rounds(f)
    <2>1. PICK f : GrownBy(f, from, next)
      BY <1>3, <1>4, GrownExists
    <2>2. IsGrowth(f, from, next)
      BY <1>3, <1>4, <2>1, GrownIsGrowth
    <2>3. ASSUME NEW n \in Nat, n # 0
          PROVE  UNION {Succs(a) : a \in f[n - 1]} = UNION {next[a] : a \in f[n - 1]}
      <3>1. n - 1 \in Nat
        BY <2>3
      <3>2. f[n - 1] \subseteq Nat
        BY <2>2, <3>1 DEF IsGrowth
      <3> QED
        BY <1>6, <3>2
    <2>4. Rounds(f)
      BY <1>4, <2>1, <2>3 DEF GrownBy
    <2> QED
      BY <2>4
  <1>8. Rounds(grow)
    <2> HIDE DEF Rounds
    <2> QED
      BY <1>7
  <1>9. PICK g : g = grow
    OBVIOUS
  <1>10. Rounds(g)
    <2> HIDE DEF Rounds, grow
    <2> QED
      BY <1>8, <1>9
  <1> HIDE DEF grow
  <1>11. GrownBy(g, from, next)
    <2>1. \A n \in Nat : g[n] \subseteq Nat
      <3> DEFINE T == {n \in Nat : g[n] \subseteq Nat}
      <3>1. 0 \in T
        BY <1>10
      <3>2. ASSUME NEW n \in T PROVE n + 1 \in T
        <4>1. n + 1 \in Nat /\ n + 1 # 0 /\ n + 1 - 1 = n /\ g[n] \subseteq Nat
          OBVIOUS
        <4>2. g[n + 1] = g[n] \cup UNION {Succs(a) : a \in g[n]}
          BY <1>10, <4>1
        <4>3. UNION {Succs(a) : a \in g[n]} \subseteq Nat
          BY SuccsFacts
        <4> QED
          BY <4>1, <4>2, <4>3
      <3> HIDE DEF T
      <3>3. T = Nat
        BY <3>1, <3>2, Counting DEF T
      <3> QED
        BY <3>3 DEF T
    <2>2. ASSUME NEW n \in Nat, n # 0
          PROVE  UNION {Succs(a) : a \in g[n - 1]} = UNION {next[a] : a \in g[n - 1]}
      <3>1. n - 1 \in Nat
        BY <2>2
      <3> QED
        BY <1>6, <2>1, <3>1
    <2> QED
      BY <1>4, <1>10, <2>2 DEF GrownBy
  <1> HIDE DEF Rounds
  <1>12. \A a \in Nat : next[a] # {} => a \in 1 .. max
    <2> SUFFICES ASSUME NEW a \in Nat, next[a] # {} PROVE a \in 1 .. max
      OBVIOUS
    <2>1. Decodes(a)
      BY <1>3, SuccsFacts
    <2> QED
      BY <1>5, <2>1 DEF Decodes, Addr
  <1>13. IsReach(g[max + 1], from, next)
    BY <1>3, <1>4, <1>5, <1>11, <1>12, GrownReaches
  <1> QED
    BY <1>1, <1>2, <1>4, <1>5, <1>9, <1>13

\* A set that control flow does not leave.
Closed(C) == \A a \in C : Succs(a) \subseteq C

\* The closure of an entry is the least such set that holds it.
LEMMA ClosureOfCode ==
  ASSUME CodeOK, NEW e \in Nat
  PROVE  /\ Closure({e}, Succs) \subseteq Nat
         /\ e \in Closure({e}, Succs)
         /\ Closed(Closure({e}, Succs))
         /\ \A C : e \in C /\ Closed(C) => Closure({e}, Succs) \subseteq C
  <1>1. PICK R, next : R = Closure({e}, Succs) /\ next = NextOf
    OBVIOUS
  <1>2. IsReach(R, {e}, next)
    BY <1>1, ClosureIsReach
  <1>3. \A a \in Nat : next[a] = Succs(a)
    BY <1>1 DEF NextOf
  <1>4. R \subseteq Nat /\ e \in R /\ Closed(R)
    BY <1>2, <1>3 DEF IsReach, Closed
  <1>5. ASSUME NEW C, e \in C, Closed(C) PROVE R \subseteq C
    <2>1. PICK D : D = C \cap Nat
      OBVIOUS
    <2>2. {e} \subseteq D /\ D \subseteq Nat
      BY <1>5, <2>1
    <2>3. ASSUME NEW a \in D PROVE next[a] \subseteq D
      BY <1>3, <1>5, <2>1, SuccsFacts DEF Closed
    <2>4. R \subseteq D
      BY <1>2, <2>2, <2>3 DEF IsReach
    <2> QED
      BY <2>1, <2>4
  <1> QED
    BY <1>1, <1>4, <1>5

-----------------------------------------------------------------------------
(* The straight-line run of trace_block.                                     *)

\* Instructions that follow each other in memory; none before the last branches.
Straight(is) ==
  /\ is \in Seq(Nat)
  /\ \A i \in 1 .. Len(is) : Decodes(is[i])
  /\ \A i \in 1 .. Len(is) - 1 : ~EndsBlock(is[i]) /\ is[i + 1] = After(is[i])
  /\ \A i, j \in 1 .. Len(is) : i < j => is[i] < is[j]

\* Where a run that began at start goes no further.
StopsAt(start, pc) == (pc # start /\ pc \in leaders) \/ ~Decodes(pc)

\* What a run is that goes on from pc.
RunOK(is, start, pc) ==
  /\ Straight(is)
  /\ is = << >> => StopsAt(start, pc)
  /\ is # << >> => is[1] = pc /\ (EndsBlock(Last(is)) \/ StopsAt(start, After(Last(is))))

\* A run's first instruction is its lowest.
LEMMA RunAbove ==
  ASSUME NEW is, Straight(is), NEW i \in 1 .. Len(is)
  PROVE  is # << >> /\ is[1] <= is[i] /\ is[1] \in Nat /\ is[i] \in Nat
  <1>1. Len(is) \in Nat /\ 1 \in 1 .. Len(is) /\ is # << >>
    BY DEF Straight
  <1>2. is[1] \in Nat /\ is[i] \in Nat
    BY <1>1 DEF Straight
  <1>3. CASE i = 1
    BY <1>1, <1>2, <1>3
  <1>4. CASE i # 1
    <2>1. 1 < i
      BY <1>4
    <2>2. is[1] < is[i]
      BY <1>1, <2>1 DEF Straight
    <2> QED
      BY <1>1, <1>2, <2>2
  <1> QED
    BY <1>3, <1>4

\* A run of one instruction.
LEMMA RunOfOne ==
  ASSUME CodeOK, NEW start, NEW pc, Decodes(pc), EndsBlock(pc)
  PROVE  RunOK(<<pc>>, start, pc)
  <1>1. pc \in Nat
    BY InsnFacts
  <1>2. PICK is : is = <<pc>>
    OBVIOUS
  <1>3. is \in Seq(Nat) /\ Len(is) = 1 /\ is[1] = pc /\ is # << >>
    BY <1>1, <1>2
  <1>4. Straight(is)
    BY <1>3 DEF Straight
  <1>5. Last(is) = pc
    BY <1>3 DEF Last
  <1> QED
    BY <1>2, <1>3, <1>4, <1>5 DEF RunOK

\* An instruction that goes on extends the run behind it.
LEMMA RunOfMore ==
  ASSUME CodeOK, NEW start, NEW pc, Decodes(pc), ~EndsBlock(pc), NEW r, RunOK(r, start, After(pc))
  PROVE  RunOK(<<pc>> \o r, start, pc)
  <1>1. pc \in Nat /\ After(pc) \in Nat /\ pc < After(pc)
    BY InsnFacts
  <1>2. r \in Seq(Nat) /\ Len(r) \in Nat
    BY DEF RunOK, Straight
  <1>3. PICK is : is = <<pc>> \o r
    OBVIOUS
  <1>4. /\ is \in Seq(Nat) /\ Len(is) = Len(r) + 1 /\ is[1] = pc /\ is # << >>
        /\ \A i \in 1 .. Len(is) : i # 1 => i - 1 \in 1 .. Len(r) /\ is[i] = r[i - 1]
    BY <1>1, <1>2, <1>3
  <1>5. \A i \in 1 .. Len(is) : Decodes(is[i])
    <2> SUFFICES ASSUME NEW i \in 1 .. Len(is) PROVE Decodes(is[i])
      OBVIOUS
    <2>1. CASE i = 1
      BY <1>4, <2>1
    <2>2. CASE i # 1
      BY <1>4, <2>2 DEF RunOK, Straight
    <2> QED
      BY <2>1, <2>2
  <1>6. \A i \in 1 .. Len(is) - 1 : ~EndsBlock(is[i]) /\ is[i + 1] = After(is[i])
    <2> SUFFICES ASSUME NEW i \in 1 .. Len(is) - 1
                 PROVE  ~EndsBlock(is[i]) /\ is[i + 1] = After(is[i])
      OBVIOUS
    <2>1. /\ i \in 1 .. Len(is) /\ i + 1 \in 1 .. Len(is) /\ i + 1 # 1 /\ i + 1 - 1 = i
          /\ i \in 1 .. Len(r)
      BY <1>2, <1>4
    <2>2. is[i + 1] = r[i]
      BY <1>4, <2>1
    <2>3. CASE i = 1
      <3>1. r # << >> /\ r[1] = After(pc)
        BY <1>2, <2>1 DEF RunOK
      <3> QED
        BY <1>4, <2>2, <2>3, <3>1
    <2>4. CASE i # 1
      <3>1. i - 1 \in 1 .. Len(r) - 1 /\ i - 1 + 1 = i /\ is[i] = r[i - 1]
        BY <1>2, <1>4, <2>1, <2>4
      <3>2. ~EndsBlock(r[i - 1]) /\ r[i - 1 + 1] = After(r[i - 1])
        BY <3>1 DEF RunOK, Straight
      <3> QED
        BY <2>2, <3>1, <3>2
    <2> QED
      BY <2>3, <2>4
  <1>7. \A i, j \in 1 .. Len(is) : i < j => is[i] < is[j]
    <2> SUFFICES ASSUME NEW i \in 1 .. Len(is), NEW j \in 1 .. Len(is), i < j
                 PROVE  is[i] < is[j]
      OBVIOUS
    <2>1. j # 1 /\ j - 1 \in 1 .. Len(r) /\ is[j] = r[j - 1]
      BY <1>2, <1>4
    <2>2. CASE i = 1
      <3>1. r # << >> /\ r[1] <= r[j - 1] /\ r[j - 1] \in Nat
        BY <2>1, RunAbove DEF RunOK
      <3>2. r[1] = After(pc)
        BY <3>1 DEF RunOK
      <3> QED
        BY <1>1, <1>4, <2>1, <2>2, <3>1, <3>2
    <2>3. CASE i # 1
      <3>1. i - 1 \in 1 .. Len(r) /\ is[i] = r[i - 1] /\ i - 1 < j - 1
        BY <1>2, <1>4, <2>1, <2>3
      <3> QED
        BY <2>1, <3>1 DEF RunOK, Straight
    <2> QED
      BY <2>2, <2>3
  <1>8. EndsBlock(Last(is)) \/ StopsAt(start, After(Last(is)))
    <2>1. CASE r = << >>
      <3>1. Last(is) = pc
        BY <1>2, <1>4, <2>1 DEF Last
      <3> QED
        BY <2>1, <3>1 DEF RunOK
    <2>2. CASE r # << >>
      <3>1. Len(is) # 1 /\ Len(is) \in 1 .. Len(is) /\ Len(is) - 1 = Len(r)
        BY <1>2, <1>4, <2>2
      <3>2. Last(is) = Last(r)
        BY <1>4, <3>1 DEF Last
      <3> QED
        BY <2>2, <3>2 DEF RunOK
    <2> QED
      BY <2>1, <2>2
  <1>9. Straight(is)
    BY <1>4, <1>5, <1>6, <1>7 DEF Straight
  <1> QED
    BY <1>3, <1>4, <1>8, <1>9 DEF RunOK

\* The run of trace_block, from its start.
LEMMA RunFacts ==
  ASSUME CodeOK, NEW start \in Nat
  PROVE  RunOK(Run(start), start, start)
  <1> DEFINE Turn(f, pc) == IF (pc # start /\ pc \in leaders) \/ ~Decodes(pc) THEN << >>
                            ELSE IF EndsBlock(pc) THEN <<pc>>
                            ELSE <<pc>> \o f[After(pc)]
             IsLoop(f) == f = [pc \in Nat |-> Turn(f, pc)]
             run == CHOOSE f : IsLoop(f)
  <1>1. Run(start) = run[start]
    BY Zenon DEF Run
  <1>2. PICK max : max = LastAddr /\ max \in Nat
    BY AnalyzerAssumption
  <1>3. ASSUME NEW pc, Decodes(pc) PROVE pc \in Nat /\ pc <= max /\ After(pc) \in Nat /\ pc < After(pc)
    <2>1. pc \in 1 .. LastAddr
      BY <1>3, InsnFacts
    <2> QED
      BY <1>2, <1>3, <2>1, InsnFacts
  <1>4. \E f : IsLoop(f)
    <2> DEFINE T == {n \in Nat : \E f \in [Nat -> Seq(Nat)] :
                                   \A pc \in Nat : max < pc + n => f[pc] = Turn(f, pc)}
    <2>1. 0 \in T
      <3>1. PICK f : f = [pc \in Nat |-> << >>]
        OBVIOUS
      <3>2. f \in [Nat -> Seq(Nat)]
        BY <3>1
      <3>3. ASSUME NEW pc \in Nat, max < pc + 0 PROVE f[pc] = Turn(f, pc)
        <4>1. ~Decodes(pc)
          BY <1>2, <1>3, <3>3
        <4> QED
          BY <3>1, <4>1
      <3> QED
        BY <3>2, <3>3
    <2>2. ASSUME NEW n \in T PROVE n + 1 \in T
      <3>1. PICK f \in [Nat -> Seq(Nat)] : \A pc \in Nat : max < pc + n => f[pc] = Turn(f, pc)
        OBVIOUS
      <3>2. ASSUME NEW pc \in Nat PROVE Turn(f, pc) \in Seq(Nat)
        <4>1. CASE StopsAt(start, pc)
          BY <4>1 DEF StopsAt
        <4>2. CASE ~StopsAt(start, pc)
          <5>1. f[After(pc)] \in Seq(Nat)
            BY <1>3, <4>2 DEF StopsAt
          <5>2. <<pc>> \in Seq(Nat) /\ <<pc>> \o f[After(pc)] \in Seq(Nat)
            BY <5>1
          <5> QED
            BY <5>2
        <4> QED
          BY <4>1, <4>2
      <3>3. PICK h : h = [pc \in Nat |-> IF max < pc + n THEN f[pc] ELSE Turn(f, pc)]
        OBVIOUS
      <3>4. h \in [Nat -> Seq(Nat)]
        <4> HIDE DEF Turn
        <4> QED
          BY <3>1, <3>2, <3>3
      <3>5. ASSUME NEW pc \in Nat, max < pc + (n + 1) PROVE h[pc] = Turn(h, pc)
        <4>1. h[pc] = Turn(f, pc)
          <5> HIDE DEF Turn
          <5> QED
            BY <3>1, <3>3
        <4>2. ASSUME Decodes(pc) PROVE h[After(pc)] = f[After(pc)]
          <5>1. After(pc) \in Nat /\ max < After(pc) + n
            BY <1>2, <1>3, <3>5, <4>2
          <5> HIDE DEF Turn
          <5> QED
            BY <3>3, <5>1
        <4>3. CASE ~Decodes(pc)
          BY <4>1, <4>3
        <4>4. CASE Decodes(pc)
          BY <4>1, <4>2, <4>4
        <4> QED
          BY <4>3, <4>4
      <3> HIDE DEF Turn
      <3>6. n + 1 \in Nat /\ \A pc \in Nat : max < pc + (n + 1) => h[pc] = Turn(h, pc)
        BY <3>5
      <3> QED
        BY <3>4, <3>6
    <2> HIDE DEF T
    <2>3. T = Nat
      BY <2>1, <2>2, Counting DEF T
    <2>4. max + 1 \in T
      BY <1>2, <2>3
    <2>5. PICK f \in [Nat -> Seq(Nat)] : \A pc \in Nat : max < pc + (max + 1) => f[pc] = Turn(f, pc)
      BY <2>4 DEF T
    <2>6. \A pc \in Nat : max < pc + (max + 1)
      BY <1>2
    <2>7. f = [pc \in Nat |-> Turn(f, pc)]
      <3> HIDE DEF Turn
      <3>1. \A pc \in Nat : f[pc] = Turn(f, pc)
        BY <2>5, <2>6
      <3>2. f = [pc \in Nat |-> f[pc]]
        OBVIOUS
      <3> QED
        BY <3>1, <3>2
    <2> QED
      BY <2>7
  <1>5. IsLoop(run)
    <2> HIDE DEF IsLoop
    <2> QED
      BY <1>4
  <1>6. PICK g : g = run
    OBVIOUS
  <1>7. IsLoop(g)
    <2> HIDE DEF IsLoop, run
    <2> QED
      BY <1>5, <1>6
  <1> HIDE DEF run
  <1>8. \A pc \in Nat : g[pc] = Turn(g, pc)
    <2> HIDE DEF Turn
    <2> QED
      BY <1>7
  <1>9. \A n \in Nat : \A pc \in Nat : max < pc + n => RunOK(g[pc], start, pc)
    <2> DEFINE T == {n \in Nat : \A pc \in Nat : max < pc + n => RunOK(g[pc], start, pc)}
    <2>1. ASSUME NEW pc \in Nat, StopsAt(start, pc) PROVE RunOK(g[pc], start, pc)
      <3>1. g[pc] = << >>
        BY <1>8, <2>1 DEF StopsAt
      <3> QED
        BY <2>1, <3>1 DEF RunOK, Straight
    <2>2. 0 \in T
      <3> SUFFICES ASSUME NEW pc \in Nat, max < pc + 0 PROVE RunOK(g[pc], start, pc)
        OBVIOUS
      <3>1. StopsAt(start, pc)
        BY <1>2, <1>3 DEF StopsAt
      <3> QED
        BY <2>1, <3>1
    <2>3. ASSUME NEW n \in T PROVE n + 1 \in T
      <3> SUFFICES ASSUME NEW pc \in Nat, max < pc + (n + 1) PROVE RunOK(g[pc], start, pc)
        OBVIOUS
      <3>1. CASE StopsAt(start, pc)
        BY <2>1, <3>1
      <3>2. CASE ~StopsAt(start, pc) /\ EndsBlock(pc)
        <4>1. Decodes(pc) /\ g[pc] = <<pc>>
          BY <1>8, <3>2 DEF StopsAt
        <4> QED
          BY <3>2, <4>1, RunOfOne
      <3>3. CASE ~StopsAt(start, pc) /\ ~EndsBlock(pc)
        <4>1. Decodes(pc) /\ g[pc] = <<pc>> \o g[After(pc)]
          BY <1>8, <3>3 DEF StopsAt
        <4>2. After(pc) \in Nat /\ max < After(pc) + n
          BY <1>2, <1>3, <4>1
        <4>3. RunOK(g[After(pc)], start, After(pc))
          BY <4>2
        <4> QED
          BY <3>3, <4>1, <4>3, RunOfMore
      <3> QED
        BY <3>1, <3>2, <3>3
    <2> HIDE DEF T
    <2>4. T = Nat
      BY <2>2, <2>3, Counting DEF T
    <2> QED
      BY <2>4 DEF T
  <1>10. RunOK(g[start], start, start)
    <2>1. max + 1 \in Nat /\ max < start + (max + 1)
      BY <1>2
    <2> QED
      BY <1>9, <2>1
  <1> QED
    BY <1>1, <1>6, <1>10

-----------------------------------------------------------------------------
(* The blocks of a builder.                                                  *)

\* A block with the leaders ls: a straight run from its address, whose edges are
\* leaders its last instruction leads to, and all of those that decode.
BlockOK(b, ls) ==
  /\ b.addr \in Nat /\ b.size \in Nat
  /\ Straight(b.instrs)
  /\ b.instrs = << >> => b.size = 0 /\ b.jump = 0 /\ b.fail = 0 /\ ~Decodes(b.addr)
  /\ b.instrs # << >> =>
       /\ b.instrs[1] = b.addr
       /\ b.addr + b.size = After(Last(b.instrs))
       /\ {b.jump, b.fail} \ {0} \subseteq Succs(Last(b.instrs)) \cap ls
       /\ \A a \in Succs(Last(b.instrs)) \ {b.jump, b.fail} : ~Decodes(a)

\* The last instruction of a run.
LEMMA RunLast ==
  ASSUME CodeOK, NEW is, Straight(is), is # << >>
  PROVE  /\ Len(is) \in 1 .. Len(is) /\ 1 \in 1 .. Len(is)
         /\ Last(is) = is[Len(is)] /\ Decodes(Last(is))
         /\ is[1] \in Nat /\ Last(is) \in Nat /\ After(Last(is)) \in Nat
         /\ is[1] <= Last(is) /\ Last(is) < After(Last(is))
         /\ \A i \in 1 .. Len(is) : is[i] \in Nat /\ is[i] <= Last(is)
  <1>1. is \in Seq(Nat) /\ Len(is) \in 1 .. Len(is) /\ 1 \in 1 .. Len(is)
    BY DEF Straight
  <1>2. Last(is) = is[Len(is)]
    BY DEF Last
  <1>3. Decodes(Last(is)) /\ \A i \in 1 .. Len(is) : is[i] \in Nat
    BY <1>1, <1>2 DEF Straight
  <1>4. is[1] <= Last(is)
    BY <1>1, <1>2, RunAbove
  <1>5. ASSUME NEW i \in 1 .. Len(is) PROVE is[i] <= Last(is)
    <2>1. CASE i = Len(is)
      BY <1>2, <1>3, <2>1
    <2>2. CASE i # Len(is)
      <3>1. i < Len(is)
        BY <1>1, <2>2
      <3>2. is[i] < Last(is)
        BY <1>1, <1>2, <3>1 DEF Straight
      <3> QED
        BY <1>1, <1>2, <1>3, <3>2
    <2> QED
      BY <2>1, <2>2
  <1> QED
    BY <1>1, <1>2, <1>3, <1>4, <1>5, InsnFacts

\* The block trace_block returns.
LEMMA TracedBlock ==
  ASSUME CodeOK, NEW start \in Nat, NEW is, RunOK(is, start, start),
         NEW b, b = BlockOf(start, is)
  PROVE  /\ b.addr = start /\ b.instrs = is
         /\ BlockOK(b, leaders \cup NewLeaders(b))
  <1>1. CASE is = << >>
    <2>1. b = [addr |-> start, size |-> 0, jump |-> 0, fail |-> 0, instrs |-> is]
      BY <1>1 DEF BlockOf
    <2>2. b.addr = start /\ b.size = 0 /\ b.jump = 0 /\ b.fail = 0 /\ b.instrs = is
      BY <2>1
    <2>3. ~Decodes(start) /\ Straight(is)
      BY <1>1 DEF RunOK, StopsAt
    <2> QED
      BY <1>1, <2>2, <2>3 DEF BlockOK
  <1>2. CASE is # << >>
    <2> DEFINE falls == \/ code[Last(is)].flow = "CondJump"
                        \/ ~EndsBlock(Last(is)) /\ After(Last(is)) \in leaders
    <2>1. PICK end : end = Last(is)
      OBVIOUS
    <2>2. /\ b.addr = start /\ b.size = After(end) - start
          /\ b.jump = IF EndsBlock(end) THEN code[end].target ELSE 0
          /\ b.fail = IF falls THEN After(end) ELSE 0
          /\ b.instrs = is
      <3>1. b = [addr |-> start, size |-> After(end) - start,
                 jump |-> IF EndsBlock(end) THEN code[end].target ELSE 0,
                 fail |-> IF falls THEN After(end) ELSE 0,
                 instrs |-> is]
        BY <1>2, <2>1 DEF BlockOf
      <3> HIDE DEF falls
      <3> QED
        BY <3>1
    <2>3. Straight(is) /\ is[1] = start /\ (EndsBlock(end) \/ StopsAt(start, After(end)))
      BY <1>2, <2>1 DEF RunOK
    <2>4. /\ Decodes(end) /\ end \in Nat /\ After(end) \in Nat /\ start <= end /\ end < After(end)
      BY <1>2, <2>1, <2>3, RunLast
    <2>5. b.size \in Nat /\ start + b.size = After(end)
      BY <2>2, <2>4
    <2>6. NewLeaders(b) = IF EndsBlock(end) THEN {b.jump, b.fail} \ {0} ELSE {}
      BY <1>2, <2>1, <2>2 DEF NewLeaders
    <2>7. /\ {b.jump, b.fail} \ {0} \subseteq Succs(end) \cap (leaders \cup NewLeaders(b))
          /\ \A a \in Succs(end) \ {b.jump, b.fail} : ~Decodes(a)
      <3>1. CASE ~EndsBlock(end)
        <4>1. Succs(end) = {After(end)}
          BY <2>4, <3>1, SuccsFacts
        <4>2. b.jump = 0 /\ code[end].flow # "CondJump"
          BY <2>2, <3>1 DEF EndsBlock
        <4>3. CASE After(end) \in leaders
          <5>1. b.fail = After(end)
            BY <2>1, <2>2, <3>1, <4>3
          <5> QED
            BY <4>1, <4>2, <4>3, <5>1
        <4>4. CASE After(end) \notin leaders
          <5>1. b.fail = 0
            BY <2>1, <2>2, <4>2, <4>4
          <5>2. ~Decodes(After(end))
            BY <2>3, <3>1, <4>4 DEF StopsAt
          <5> QED
            BY <4>1, <4>2, <5>1, <5>2
        <4> QED
          BY <4>3, <4>4
      <3>2. CASE EndsBlock(end) /\ code[end].flow = "CondJump"
        <4>1. Succs(end) = {code[end].target, After(end)} \ {0}
          BY <2>4, <3>2, SuccsFacts
        <4>2. b.jump = code[end].target /\ b.fail = After(end)
          BY <2>1, <2>2, <3>2
        <4> QED
          BY <2>6, <3>2, <4>1, <4>2
      <3>3. CASE EndsBlock(end) /\ code[end].flow # "CondJump"
        <4>1. b.jump = code[end].target /\ b.fail = 0
          BY <2>1, <2>2, <3>3
        <4>2. Succs(end) = {code[end].target} \ {0}
          <5>1. CASE code[end].flow = "Jump"
            BY <2>4, <5>1, SuccsFacts
          <5>2. CASE code[end].flow = "Return"
            <6>1. code[end].target = 0 /\ Succs(end) = {}
              BY <2>4, <5>2, SuccsFacts, InsnFacts
            <6> QED
              BY <6>1
          <5> QED
            BY <3>3, <5>1, <5>2 DEF EndsBlock
        <4> QED
          BY <2>6, <3>3, <4>1, <4>2
      <3> QED
        BY <3>1, <3>2, <3>3
    <2> HIDE DEF falls
    <2> QED
      BY <1>2, <2>1, <2>2, <2>3, <2>5, <2>7 DEF BlockOK
  <1> QED
    BY <1>1, <1>2

\* The instructions of a run stay in a closed set that holds the first.
LEMMA RunWithin ==
  ASSUME CodeOK, NEW is, Straight(is), NEW C, Closed(C), is # << >>, is[1] \in C
  PROVE  Range(is) \subseteq C
  <1>1. is \in Seq(Nat) /\ Len(is) \in Nat /\ DOMAIN is = 1 .. Len(is)
    BY DEF Straight
  <1> DEFINE T == {n \in Nat : n + 1 \in 1 .. Len(is) => is[n + 1] \in C}
  <1>2. 0 \in T
    OBVIOUS
  <1>3. ASSUME NEW n \in T PROVE n + 1 \in T
    <2> SUFFICES ASSUME n + 1 + 1 \in 1 .. Len(is) PROVE is[n + 1 + 1] \in C
      OBVIOUS
    <2>1. n + 1 \in 1 .. Len(is) - 1 /\ n + 1 \in 1 .. Len(is)
      BY <1>1
    <2>2. is[n + 1] \in C
      BY <2>1
    <2>3. ~EndsBlock(is[n + 1]) /\ is[n + 1 + 1] = After(is[n + 1]) /\ Decodes(is[n + 1])
      BY <2>1 DEF Straight
    <2>4. Succs(is[n + 1]) = {After(is[n + 1])}
      BY <2>3, SuccsFacts
    <2> QED
      BY <2>2, <2>3, <2>4 DEF Closed
  <1> HIDE DEF T
  <1>4. T = Nat
    BY <1>2, <1>3, Counting DEF T
  <1>5. ASSUME NEW i \in 1 .. Len(is) PROVE is[i] \in C
    <2>1. i - 1 \in Nat /\ i - 1 + 1 = i
      OBVIOUS
    <2>2. i - 1 \in T
      BY <1>4, <2>1
    <2> QED
      BY <2>1, <2>2 DEF T
  <1> QED
    BY <1>1, <1>5 DEF Range

\* The head of a block that is cut at its instruction number at.
HeadOf(b, leader, at) ==
  [addr |-> b.addr, size |-> leader - b.addr, jump |-> 0, fail |-> leader,
   instrs |-> SubSeq(b.instrs, 1, at - 1)]

\* The head is a proper block too, and falls through into the leader.
LEMMA CutBlock ==
  ASSUME CodeOK, NEW b, NEW ls, BlockOK(b, ls), NEW leader \in ls, leader # 0,
         b.addr < leader, NEW at \in DOMAIN b.instrs, b.instrs[at] = leader
  PROVE  /\ HeadOf(b, leader, at).addr = b.addr /\ BlockOK(HeadOf(b, leader, at), ls)
         /\ Range(HeadOf(b, leader, at).instrs) \subseteq Range(b.instrs)
  <1>0. PICK head : head = HeadOf(b, leader, at)
    OBVIOUS
  <1>1. PICK is : is = b.instrs
    OBVIOUS
  <1>2. Straight(is) /\ is \in Seq(Nat) /\ DOMAIN is = 1 .. Len(is) /\ Len(is) \in Nat
    BY <1>1 DEF BlockOK, Straight
  <1>3. at \in 1 .. Len(is) /\ is[at] = leader
    BY <1>1, <1>2
  <1>4. at # 1 /\ is # << >> /\ is[1] = b.addr
    <2>1. is # << >>
      BY <1>2, <1>3
    <2>2. is[1] = b.addr /\ b.addr \in Nat
      BY <1>1, <2>1 DEF BlockOK
    <2> QED
      BY <1>3, <2>1, <2>2
  <1>5. PICK n : n = at - 1 /\ n \in 1 .. Len(is) - 1 /\ n \in 1 .. Len(is) /\ n + 1 = at
    BY <1>2, <1>3, <1>4
  <1>6. PICK hs : hs = SubSeq(is, 1, n)
    OBVIOUS
  <1>7. hs \in Seq(Nat) /\ Len(hs) = n /\ hs # << >> /\ \A i \in 1 .. n : hs[i] = is[i]
    BY <1>2, <1>5, <1>6
  <1>8. Straight(hs)
    <2>1. \A i \in 1 .. n : i \in 1 .. Len(is)
      BY <1>2, <1>5
    <2>2. \A i \in 1 .. n - 1 : i \in 1 .. Len(is) - 1 /\ i \in 1 .. n /\ i + 1 \in 1 .. n
      BY <1>2, <1>5
    <2>3. \A i \in 1 .. Len(hs) : Decodes(hs[i])
      BY <1>2, <1>7, <2>1 DEF Straight
    <2>4. \A i \in 1 .. Len(hs) - 1 : ~EndsBlock(hs[i]) /\ hs[i + 1] = After(hs[i])
      BY <1>2, <1>7, <2>2 DEF Straight
    <2>5. \A i, j \in 1 .. Len(hs) : i < j => hs[i] < hs[j]
      BY <1>2, <1>7, <2>1 DEF Straight
    <2> QED
      BY <1>7, <2>3, <2>4, <2>5 DEF Straight
  <1>9. Last(hs) = is[n] /\ After(is[n]) = leader /\ ~EndsBlock(is[n]) /\ Decodes(is[n])
    <2>1. ~EndsBlock(is[n]) /\ is[n + 1] = After(is[n]) /\ Decodes(is[n])
      BY <1>2, <1>5 DEF Straight
    <2>2. Last(hs) = hs[n] /\ hs[n] = is[n]
      BY <1>5, <1>7 DEF Last
    <2> QED
      BY <1>3, <1>5, <2>1, <2>2
  <1>10. Succs(Last(hs)) = {leader} /\ leader \in Nat
    BY <1>9, SuccsFacts
  <1>11. /\ head.addr = b.addr /\ head.size = leader - b.addr /\ head.jump = 0
         /\ head.fail = leader /\ head.instrs = hs
    BY <1>0, <1>1, <1>5, <1>6 DEF HeadOf
  <1>12. hs[1] = b.addr /\ b.addr \in Nat
    BY <1>4, <1>5, <1>7 DEF BlockOK
  <1>13. head.size \in Nat /\ head.addr + head.size = leader
    BY <1>10, <1>11, <1>12
  <1>14. BlockOK(head, ls)
    BY <1>7, <1>8, <1>9, <1>10, <1>11, <1>12, <1>13 DEF BlockOK
  <1>15. Range(hs) \subseteq Range(is)
    <2>1. ASSUME NEW i \in 1 .. n PROVE hs[i] \in Range(is)
      <3>1. i \in 1 .. Len(is) /\ hs[i] = is[i]
        BY <1>2, <1>5, <1>7
      <3> QED
        BY <1>2, <3>1 DEF Range
    <2>2. DOMAIN hs = 1 .. n
      BY <1>7
    <2> QED
      BY <2>1, <2>2 DEF Range
  <1> QED
    BY <1>0, <1>1, <1>11, <1>14, <1>15

\* A block of the entry's code leads to the entry's code.
LEMMA EdgesWithin ==
  ASSUME CodeOK, NEW e \in Nat, NEW b, NEW ls, BlockOK(b, ls),
         b.addr \in Closure({e}, Succs)
  PROVE  /\ {b.jump, b.fail} \ {0} \subseteq Closure({e}, Succs) \cap ls
         /\ Range(b.instrs) \subseteq Body(e)
  <1>1. PICK C : C = Closure({e}, Succs) /\ Closed(C)
    BY ClosureOfCode
  <1>2. CASE b.instrs = << >>
    <2>1. b.jump = 0 /\ b.fail = 0 /\ Range(b.instrs) = {}
      BY <1>2 DEF BlockOK, Range
    <2> QED
      BY <2>1
  <1>3. CASE b.instrs # << >>
    <2>1. Straight(b.instrs) /\ b.instrs[1] = b.addr
      BY <1>3 DEF BlockOK
    <2>2. Range(b.instrs) \subseteq C
      BY <1>1, <1>3, <2>1, RunWithin
    <2>3. \A a \in Range(b.instrs) : Decodes(a)
      BY <2>1 DEF Straight, Range
    <2>4. Last(b.instrs) \in Range(b.instrs)
      BY <1>3, <2>1, RunLast DEF Range, Straight
    <2>5. {b.jump, b.fail} \ {0} \subseteq Succs(Last(b.instrs)) \cap ls
      BY <1>3 DEF BlockOK
    <2> QED
      BY <1>1, <2>2, <2>3, <2>4, <2>5 DEF Closed, Body
  <1> QED
    BY <1>2, <1>3

\* With the code unchanged, so is all that is read from it.
SameCode == code' = code

\* What depends on the code alone stays while the code does.
LEMMA CodeStays ==
  ASSUME SameCode
  PROVE  /\ CodeOK' <=> CodeOK
         /\ \A a : (Decodes(a))' <=> Decodes(a)
         /\ \A a : (EndsBlock(a))' <=> EndsBlock(a)
         /\ \A a : (After(a))' = After(a)
         /\ \A a : (Succs(a))' = Succs(a)
  BY DEF SameCode, CodeOK, Decodes, EndsBlock, After, Succs


\* What holds of a state holds of the next one too.
LEMMA ClosureIsReachNext == (CodeOK => \A e \in Nat : IsReach(Closure({e}, Succs), {e}, NextOf))'
  BY ClosureIsReach, PTL

\* The same code reaches the same addresses.
LEMMA ClosureStays ==
  ASSUME SameCode, CodeOK, NEW e \in Nat
  PROVE  (Closure({e}, Succs))' = Closure({e}, Succs)
  <1>1. IsReach(Closure({e}, Succs), {e}, NextOf)
    BY ClosureIsReach
  <1>2. IsReach((Closure({e}, Succs))', {e}, NextOf')
    BY CodeStays, ClosureIsReachNext
  <1>3. NextOf' = NextOf
    BY CodeStays DEF NextOf
  <1>4. PICK C, D, next : C = Closure({e}, Succs) /\ D = (Closure({e}, Succs))' /\ next = NextOf
    OBVIOUS
  <1> QED
    BY <1>1, <1>2, <1>3, <1>4, OneReach

\* The blocks bs of the function at e, with the leaders ls.
Proper(bs, ls, e) ==
  \A a \in DOMAIN bs : /\ bs[a].addr = a /\ BlockOK(bs[a], ls)
                       /\ Range(bs[a].instrs) \subseteq Body(e)

\* So do the blocks' properties.
LEMMA ProperStays ==
  ASSUME SameCode, CodeOK, NEW bs, NEW ls, NEW e \in Nat
  PROVE  Proper(bs, ls, e)' <=> Proper(bs, ls, e)
  <1>1. \A is : Straight(is)' <=> Straight(is)
    BY CodeStays DEF Straight
  <1>2. \A b : BlockOK(b, ls)' <=> BlockOK(b, ls)
    BY <1>1, CodeStays DEF BlockOK
  <1>3. Body(e)' = Body(e)
    BY CodeStays, ClosureStays DEF Body
  <1> QED
    BY <1>2, <1>3 DEF Proper

\* The builder, while it traces and while it cuts: only what the entry reaches is
\* queued, each start in the queue leads a block, and each block that was traced
\* is a proper one.
BuilderOK ==
  phase \in {"trace", "split"} =>
    /\ entry \in Nat \ {0} /\ entry \in seen
    /\ seen \subseteq leaders /\ 0 \notin leaders
    /\ seen \subseteq Closure({entry}, Succs)
    /\ DOMAIN blocks \subseteq seen /\ IsFiniteSet(DOMAIN blocks)
    /\ Proper(blocks, leaders, entry)

\* An iteration of build's loop keeps that.
LEMMA TraceBuilder ==
  ASSUME CodeOK, AnalyzerInv, BuilderOK, TraceBlock
  PROVE  BuilderOK'
  <1>1. PICK e, start, r : e = entry /\ start = Head(todo) /\ r = Closure({entry}, Succs)
    OBVIOUS
  <1>2. /\ phase = "trace" /\ phase' = "trace" /\ todo # << >> /\ entry' = e /\ SameCode
        /\ todo \in Seq(seen) /\ leaders \subseteq seen
    BY <1>1 DEF TraceBlock, AnalyzerInv, QueueComplete, SameCode
  <1>3. /\ e \in Nat \ {0} /\ e \in seen /\ seen \subseteq leaders /\ 0 \notin leaders
        /\ seen \subseteq r /\ DOMAIN blocks \subseteq seen /\ IsFiniteSet(DOMAIN blocks)
        /\ Proper(blocks, leaders, e)
    BY <1>1, <1>2 DEF BuilderOK
  <1>4. start \in seen
    BY <1>1, <1>2
  <1>5. r \subseteq Nat /\ e \in r /\ r = Closure({e}, Succs) /\ r = (Closure({e}, Succs))'
    BY <1>1, <1>2, <1>3, ClosureOfCode, ClosureStays
  <1>6. CASE start \in DOMAIN blocks
    <2>1. UNCHANGED <<blocks, leaders, seen>>
      BY <1>1, <1>6 DEF TraceBlock
    <2>2. PICK bs, ls : bs = blocks /\ ls = leaders
      OBVIOUS
    <2>3. Proper(bs, ls, e)'
      BY <1>2, <1>3, <2>2, ProperStays
    <2> QED
      BY <1>2, <1>3, <1>5, <2>1, <2>2, <2>3 DEF BuilderOK
  <1>7. CASE start \notin DOMAIN blocks
    <2>1. PICK is : is = Run(start)
      OBVIOUS
    <2>2. PICK b : b = BlockOf(start, is)
      OBVIOUS
    <2>3. PICK bs, ls : bs = blocks' /\ ls = leaders'
      OBVIOUS
    <2>4. /\ bs = [a \in DOMAIN blocks \cup {start} |-> IF a = start THEN b ELSE blocks[a]]
          /\ ls = leaders \cup NewLeaders(b)
          /\ Enqueue(b)
      BY <1>1, <1>7, <2>1, <2>2, <2>3 DEF TraceBlock
    <2>5. b.addr = start /\ BlockOK(b, ls)
      <3>1. start \in Nat
        BY <1>3, <1>4, <1>5
      <3>2. RunOK(is, start, start)
        BY <2>1, <3>1, RunFacts
      <3> QED
        BY <2>2, <2>4, <3>1, <3>2, TracedBlock
    <2>6. {b.jump, b.fail} \ {0} \subseteq r \cap ls /\ Range(b.instrs) \subseteq Body(e)
      BY <1>3, <1>4, <1>5, <2>5, EdgesWithin
    <2>7. seen' = seen \cup ({b.jump, b.fail} \ {0})
      BY <2>4 DEF Enqueue
    <2>8. NewLeaders(b) \subseteq {b.jump, b.fail} \ {0}
      BY DEF NewLeaders
    <2>9. DOMAIN bs \subseteq seen' /\ seen' \subseteq r /\ seen' \subseteq ls /\ 0 \notin ls
      BY <1>3, <1>4, <2>4, <2>6, <2>7, <2>8
    <2>10. Proper(bs, ls, e)
      <3> SUFFICES ASSUME NEW a \in DOMAIN bs
                   PROVE  /\ bs[a].addr = a /\ BlockOK(bs[a], ls)
                          /\ Range(bs[a].instrs) \subseteq Body(e)
        BY DEF Proper
      <3>1. CASE a = start
        BY <2>4, <2>5, <2>6, <3>1
      <3>2. CASE a # start
        <4>1. a \in DOMAIN blocks /\ bs[a] = blocks[a]
          BY <2>4, <3>2
        <4>2. /\ blocks[a].addr = a /\ BlockOK(blocks[a], leaders)
              /\ Range(blocks[a].instrs) \subseteq Body(e)
          BY <1>3, <4>1 DEF Proper
        <4>3. leaders \subseteq ls
          BY <2>4
        <4>4. BlockOK(blocks[a], ls)
          BY <4>2, <4>3 DEF BlockOK
        <4> QED
          BY <4>1, <4>2, <4>4
      <3> QED
        BY <3>1, <3>2
    <2>11. Proper(bs, ls, e)'
      BY <1>2, <1>3, <2>10, ProperStays
    <2>12. IsFiniteSet(DOMAIN bs)
      <3>1. PICK D : D = DOMAIN blocks
        OBVIOUS
      <3>2. DOMAIN bs = D \cup {start}
        BY <2>4, <3>1
      <3> QED
        BY <1>3, <3>1, <3>2, FS_AddElement
    <2> QED
      BY <1>2, <1>3, <1>5, <2>3, <2>7, <2>9, <2>11, <2>12 DEF BuilderOK
  <1> QED
    BY <1>6, <1>7

\* So does a cut: its leader begins a block, so the tail is not stored.
LEMMA SplitBuilder ==
  ASSUME CodeOK, AnalyzerInv, BuilderOK, Split
  PROVE  BuilderOK'
  <1>1. PICK e, ls, bs : e = entry /\ ls = leaders /\ bs = blocks'
    OBVIOUS
  <1>2. PICK a, leader : a = Min(Splittable) /\ leader = Min(CutsOf(blocks[a]))
    OBVIOUS
  <1>3. /\ phase = "split" /\ phase' = "split" /\ entry' = e /\ leaders' = ls /\ seen' = seen
        /\ SameCode /\ bs = SplitAt(blocks, a, leader) /\ Splittable # {} /\ ls \subseteq DOMAIN blocks
    BY <1>1, <1>2 DEF Split, SameCode, AnalyzerInv, LeadersTraced
  <1>4. /\ e \in Nat \ {0} /\ e \in seen /\ seen \subseteq ls /\ 0 \notin ls
        /\ seen \subseteq Closure({e}, Succs) /\ DOMAIN blocks \subseteq seen
        /\ Proper(blocks, ls, e) /\ IsFiniteSet(DOMAIN blocks)
    BY <1>1, <1>3 DEF BuilderOK
  <1>5. DOMAIN blocks \subseteq Nat /\ ls \subseteq Nat
    BY <1>3, <1>4, ClosureOfCode
  <1>6. a \in Splittable
    <2>1. Splittable \subseteq Nat
      BY <1>5 DEF Splittable
    <2>2. \E m \in Splittable : \A k \in Splittable : m <= k
      BY <1>3, <2>1, LeastNatural
    <2> QED
      BY <1>2, <2>2 DEF Min
  <1>7. leader \in CutsOf(blocks[a])
    <2>1. CutsOf(blocks[a]) \subseteq Nat /\ CutsOf(blocks[a]) # {}
      BY <1>1, <1>5, <1>6 DEF CutsOf, Splittable
    <2>2. \E m \in CutsOf(blocks[a]) : \A k \in CutsOf(blocks[a]) : m <= k
      BY <2>1, LeastNatural
    <2> QED
      BY <1>2, <2>2 DEF Min
  <1>8. PICK b : b = blocks[a]
    OBVIOUS
  <1>9. a \in DOMAIN blocks /\ leader \in ls /\ b.addr < leader /\ leader \in Range(b.instrs)
    BY <1>1, <1>6, <1>7, <1>8 DEF Splittable, CutsOf
  <1>10. b.addr = a /\ BlockOK(b, ls) /\ Range(b.instrs) \subseteq Body(e)
    BY <1>4, <1>8, <1>9 DEF Proper
  <1>11. PICK at : at = CHOOSE i \in DOMAIN b.instrs : b.instrs[i] = leader
    OBVIOUS
  <1>12. at \in DOMAIN b.instrs /\ b.instrs[at] = leader
    <2>1. \E i \in DOMAIN b.instrs : b.instrs[i] = leader
      BY <1>9 DEF Range
    <2> QED
      BY <1>11, <2>1
  <1>13. PICK head : head = HeadOf(b, leader, at)
    OBVIOUS
  <1>14. DOMAIN bs = DOMAIN blocks
         /\ \A x \in DOMAIN blocks : bs[x] = IF x = a THEN head ELSE blocks[x]
    <2>1. leader \in DOMAIN blocks
      BY <1>3, <1>9
    <2> QED
      BY <1>3, <1>8, <1>11, <1>13, <2>1 DEF SplitAt, HeadOf
  <1>15. head.addr = a /\ BlockOK(head, ls) /\ Range(head.instrs) \subseteq Body(e)
    BY <1>4, <1>9, <1>10, <1>12, <1>13, CutBlock
  <1>16. Proper(bs, ls, e)
    BY <1>4, <1>14, <1>15 DEF Proper
  <1>17. Proper(bs, ls, e)'
    BY <1>3, <1>4, <1>16, ProperStays
  <1>18. Closure({e}, Succs) = (Closure({e}, Succs))'
    BY <1>3, <1>4, ClosureStays
  <1> QED
    BY <1>1, <1>3, <1>4, <1>14, <1>17, <1>18 DEF BuilderOK

-----------------------------------------------------------------------------
(* What the blocks are when nothing is left to trace: the code of the entry, *)
(* with its edges.                                                           *)

Found(bs) == UNION {Range(bs[a].instrs) : a \in DOMAIN bs}

\* Blocks that start at every leader hold all the code reached from the entry.
LEMMA FoundIsBody ==
  ASSUME CodeOK, NEW bs, NEW ls, NEW e \in Nat, e \in ls, ls \subseteq DOMAIN bs,
         Proper(bs, ls, e)
  PROVE  Found(bs) = Body(e)
  <1>1. Found(bs) \subseteq Body(e)
    BY DEF Proper, Found
  <1>2. PICK C : C = Found(bs) \cup {a \in Nat : ~Decodes(a)}
    OBVIOUS
  <1>3. ASSUME NEW l \in ls PROVE l \in C
    <2>1. bs[l].addr = l /\ BlockOK(bs[l], ls)
      BY DEF Proper
    <2>2. CASE bs[l].instrs = << >>
      BY <1>2, <2>1, <2>2 DEF BlockOK
    <2>3. CASE bs[l].instrs # << >>
      <3>1. bs[l].instrs[1] = l /\ Straight(bs[l].instrs)
        BY <2>1, <2>3 DEF BlockOK
      <3>2. 1 \in DOMAIN bs[l].instrs
        BY <2>3, <3>1 DEF Straight
      <3>3. l \in Range(bs[l].instrs)
        BY <3>1, <3>2 DEF Range
      <3> QED
        BY <1>2, <3>3 DEF Found
    <2> QED
      BY <2>2, <2>3
  <1>4. Closed(C)
    <2> SUFFICES ASSUME NEW a \in C, NEW s \in Succs(a) PROVE s \in C
      BY DEF Closed
    <2>1. Decodes(a) /\ s \in Nat
      BY SuccsFacts
    <2>2. PICK x \in DOMAIN bs : a \in Range(bs[x].instrs)
      BY <1>2, <2>1 DEF Found
    <2>3. PICK is : is = bs[x].instrs
      OBVIOUS
    <2>4. BlockOK(bs[x], ls) /\ Straight(is)
      BY <2>3 DEF Proper, BlockOK
    <2>5. PICK i \in 1 .. Len(is) : a = is[i]
      BY <2>2, <2>3, <2>4 DEF Range, Straight
    <2>6. is # << >> /\ Len(is) \in 1 .. Len(is)
      BY <2>4, <2>5, RunAbove DEF Straight
    <2>7. CASE i # Len(is)
      <3>1. i \in 1 .. Len(is) - 1 /\ i + 1 \in 1 .. Len(is)
        BY <2>6, <2>7
      <3>2. Succs(a) = {is[i + 1]}
        BY <2>1, <2>4, <2>5, <3>1, SuccsFacts DEF Straight
      <3>3. s \in Range(bs[x].instrs)
        BY <2>3, <2>4, <3>1, <3>2 DEF Range, Straight
      <3> QED
        BY <1>2, <3>3 DEF Found
    <2>8. CASE i = Len(is)
      <3>1. a = Last(is)
        BY <2>5, <2>8 DEF Last
      <3>2. {bs[x].jump, bs[x].fail} \ {0} \subseteq ls
            /\ (s \notin {bs[x].jump, bs[x].fail} => ~Decodes(s))
        BY <2>3, <2>4, <2>6, <3>1 DEF BlockOK
      <3>3. ~Decodes(0)
        BY AnalyzerAssumption DEF Decodes, Addr
      <3> QED
        BY <1>2, <1>3, <2>1, <3>2, <3>3
    <2> QED
      BY <2>7, <2>8
  <1>5. Closure({e}, Succs) \subseteq C
    BY <1>3, <1>4, ClosureOfCode
  <1> QED
    BY <1>1, <1>2, <1>5 DEF Body

\* An index that is not the last one.
LEMMA InnerIndex ==
  ASSUME NEW n \in Nat, NEW i \in 1 .. n, i # n
  PROVE  i \in 1 .. n - 1 /\ i + 1 \in 1 .. n
  OBVIOUS

\* A run occupies the addresses from its first instruction to behind its last.
LEMMA RunBytes ==
  ASSUME CodeOK, NEW is, Straight(is), is # << >>
  PROVE  UNION {Bytes(a) : a \in Range(is)} = is[1] .. (After(Last(is)) - 1)
  <1>1. /\ Len(is) \in Nat /\ Len(is) \in 1 .. Len(is) /\ 1 \in 1 .. Len(is)
        /\ DOMAIN is = 1 .. Len(is) /\ Last(is) = is[Len(is)]
        /\ is[1] \in Nat /\ After(Last(is)) \in Nat
    BY RunLast DEF Straight
  <1>2. ASSUME NEW i \in 1 .. Len(is)
        PROVE  /\ is[i] \in Nat /\ After(is[i]) \in Nat /\ is[i] < After(is[i])
               /\ is[1] <= is[i] /\ After(is[i]) <= After(Last(is))
    <2>1. Decodes(is[i])
      BY DEF Straight
    <2>2. is[i] \in Nat /\ After(is[i]) \in Nat /\ is[i] < After(is[i]) /\ is[1] <= is[i]
      BY <2>1, InsnFacts, RunAbove
    <2>3. After(is[i]) <= After(Last(is))
      <3>1. CASE i = Len(is)
        BY <1>1, <2>2, <3>1
      <3>2. CASE i # Len(is)
        <4>1. i \in 1 .. Len(is) - 1 /\ i + 1 \in 1 .. Len(is)
          BY <1>1, <3>2, InnerIndex
        <4>2. is[i + 1] = After(is[i])
          BY <4>1 DEF Straight
        <4>3. is[i + 1] <= Last(is) /\ Last(is) < After(Last(is)) /\ Last(is) \in Nat
          BY <4>1, RunLast
        <4> QED
          BY <1>1, <2>2, <4>2, <4>3
      <3> QED
        BY <3>1, <3>2
    <2> QED
      BY <2>2, <2>3
  <1>3. ASSUME NEW i \in 1 .. Len(is), NEW y \in Bytes(is[i])
        PROVE  y \in is[1] .. (After(Last(is)) - 1)
    BY <1>1, <1>2 DEF Bytes
  <1>4. ASSUME NEW y \in is[1] .. (After(Last(is)) - 1)
        PROVE  \E i \in 1 .. Len(is) : y \in Bytes(is[i])
    <2>1. PICK S : S = {i \in 1 .. Len(is) : y < After(is[i])}
      OBVIOUS
    <2>2. Len(is) \in S /\ y \in Nat
      BY <1>1, <2>1
    <2>3. S \subseteq Nat /\ S # {}
      BY <2>1, <2>2
    <2>4. PICK i \in S : \A k \in S : i <= k
      BY <2>3, LeastNatural
    <2>5. i \in 1 .. Len(is) /\ y < After(is[i])
      BY <2>1
    <2>6. is[i] <= y
      <3>1. CASE i = 1
        BY <1>1, <3>1
      <3>2. CASE i # 1
        <4>1. i - 1 \in 1 .. Len(is) - 1 /\ i - 1 \in 1 .. Len(is) /\ i - 1 + 1 = i /\ ~(i <= i - 1)
          BY <1>1, <2>5, <3>2
        <4>2. ~(y < After(is[i - 1]))
          BY <2>1, <2>4, <4>1
        <4>3. is[i - 1 + 1] = After(is[i - 1])
          BY <4>1 DEF Straight
        <4> QED
          BY <1>2, <2>2, <4>1, <4>2, <4>3
      <3> QED
        BY <3>1, <3>2
    <2>7. y \in Bytes(is[i])
      BY <1>2, <2>2, <2>5, <2>6 DEF Bytes
    <2> QED
      BY <2>5, <2>7
  <1> QED
    BY <1>1, <1>3, <1>4 DEF Range

\* Where the code of e does not overlap, an instruction is in one block only: walk
\* back from it in both; the instructions before it end at the same byte, so they
\* are the same, until one block begins, and no block begins inside another.
LEMMA BlocksApart ==
  ASSUME CodeOK, NEW bs, NEW ls, NEW e, Proper(bs, ls, e), Disjoint(Body(e)),
         \A x, y \in DOMAIN bs : x \notin Range(bs[y].instrs) \ {y},
         NEW x \in DOMAIN bs, NEW y \in DOMAIN bs, x # y
  PROVE  Range(bs[x].instrs) \cap Range(bs[y].instrs) = {}
  <1>1. PICK is, js : is = bs[x].instrs /\ js = bs[y].instrs
    OBVIOUS
  <1>2. /\ Straight(is) /\ Straight(js)
        /\ is # << >> => is[1] = x
        /\ js # << >> => js[1] = y
        /\ Range(is) \subseteq Body(e) /\ Range(js) \subseteq Body(e)
    BY <1>1 DEF Proper, BlockOK
  <1>3. DOMAIN is = 1 .. Len(is) /\ DOMAIN js = 1 .. Len(js) /\ Len(is) \in Nat /\ Len(js) \in Nat
    BY <1>2 DEF Straight
  <1> SUFFICES ASSUME Range(is) \cap Range(js) # {} PROVE FALSE
    BY <1>1
  <1>4. PICK S : S = {i \in 1 .. Len(is) : \E j \in 1 .. Len(js) : is[i] = js[j]}
    OBVIOUS
  <1>5. S \subseteq Nat /\ S # {}
    <2>1. PICK a : a \in Range(is) /\ a \in Range(js)
      OBVIOUS
    <2>2. PICK i \in 1 .. Len(is) : a = is[i]
      BY <1>3, <2>1 DEF Range
    <2>3. PICK j \in 1 .. Len(js) : a = js[j]
      BY <1>3, <2>1 DEF Range
    <2>4. is[i] = js[j]
      BY <2>2, <2>3
    <2>5. i \in S
      BY <1>4, <2>4
    <2>6. S \subseteq Nat
      BY <1>4
    <2> QED
      BY <2>5, <2>6
  <1>6. PICK i \in S : \A k \in S : i <= k
    BY <1>5, LeastNatural
  <1>7. i \in 1 .. Len(is)
    BY <1>4, <1>6
  <1>8. PICK j \in 1 .. Len(js) : is[i] = js[j]
    BY <1>4, <1>6
  <1>9. is # << >> /\ js # << >> /\ is[1] = x /\ js[1] = y
    BY <1>2, <1>7, <1>8, RunAbove
  <1>10. is[i] \in Range(is) /\ js[j] \in Range(js)
    BY <1>3, <1>7, <1>8 DEF Range
  <1>11. CASE i = 1
    <2>1. x \in Range(bs[y].instrs) \ {y}
      BY <1>1, <1>8, <1>9, <1>10, <1>11
    <2> QED
      BY <2>1
  <1>12. CASE j = 1
    <2>1. y \in Range(bs[x].instrs) \ {x}
      BY <1>1, <1>8, <1>9, <1>10, <1>12
    <2> QED
      BY <2>1
  <1>13. CASE i # 1 /\ j # 1
    <2>1. /\ i - 1 \in 1 .. Len(is) - 1 /\ i - 1 \in 1 .. Len(is) /\ i - 1 + 1 = i
          /\ j - 1 \in 1 .. Len(js) - 1 /\ j - 1 \in 1 .. Len(js) /\ j - 1 + 1 = j
          /\ ~(i <= i - 1)
      BY <1>3, <1>7, <1>8, <1>13
    <2>2. PICK p, q : p = is[i - 1] /\ q = js[j - 1]
      OBVIOUS
    <2>3. is[i] = After(p) /\ js[j] = After(q) /\ Decodes(p) /\ Decodes(q)
      BY <1>2, <2>1, <2>2 DEF Straight
    <2>4. After(p) = After(q)
      BY <1>8, <2>3
    <2>5. p \in Body(e) /\ q \in Body(e)
      BY <1>2, <1>3, <2>1, <2>2 DEF Range
    <2>6. After(p) - 1 \in Bytes(p) /\ After(p) - 1 \in Bytes(q)
      <3>1. /\ p \in Nat /\ After(p) \in Nat /\ p < After(p)
            /\ q \in Nat /\ After(q) \in Nat /\ q < After(q)
        BY <2>3, InsnFacts
      <3> QED
        BY <2>4, <3>1 DEF Bytes
    <2>7. p = q
      BY <2>5, <2>6 DEF Disjoint
    <2>8. i - 1 \in S
      BY <1>4, <2>1, <2>2, <2>7
    <2> QED
      BY <1>6, <2>1, <2>8
  <1> QED
    BY <1>11, <1>12, <1>13

\* The size of a function.
TotalSize(bs) == MapThenSumSet(LAMBDA a : bs[a].size, DOMAIN bs)

\* The sizes of blocks add up to the number of bytes they occupy, when these are
\* apart.
LEMMA SumOfSizes ==
  ASSUME NEW bs, NEW S, S = DOMAIN bs, IsFiniteSet(S), NEW bytes,
         \A a \in S : IsFiniteSet(bytes[a]) /\ bs[a].size = Cardinality(bytes[a]),
         \A a, b \in S : a # b => bytes[a] \cap bytes[b] = {}
  PROVE  TotalSize(bs) = Cardinality(UNION {bytes[a] : a \in S})
  <1> DEFINE Picked(s) == CHOOSE x \in s : TRUE
             IsSum(f) == f = [s \in SUBSET S |->
                           IF s = {} THEN 0 ELSE bs[Picked(s)].size + f[s \ {Picked(s)}]]
             sum == CHOOSE f : IsSum(f)
             All(s) == UNION {bytes[a] : a \in s}
  <1>1. TotalSize(bs) = sum[S]
    BY Zenon DEF TotalSize, MapThenSumSet, MapThenFoldSet
  <1>2. ASSUME NEW s \in SUBSET S, s # {}
        PROVE  Picked(s) \in s
    BY <1>2
  <1> HIDE DEF Picked
  <1>3. ASSUME NEW s \in SUBSET S PROVE IsFiniteSet(All(s))
    <2>1. PICK T : T = {bytes[a] : a \in s}
      OBVIOUS
    <2>2. IsFiniteSet(s)
      BY FS_Subset
    <2>3. IsFiniteSet(T)
      <3>1. PICK h : h = [a \in s |-> bytes[a]]
        OBVIOUS
      <3>2. h \in Surjection(s, T)
        BY <2>1, <3>1 DEF Surjection
      <3> QED
        BY <2>2, <3>2, FS_Surjection
    <2>4. \A t \in T : IsFiniteSet(t)
      BY <2>1
    <2> QED
      BY <2>1, <2>3, <2>4, FS_UNION
  <1>4. ASSUME NEW s \in SUBSET S, NEW x \in s
        PROVE  Cardinality(All(s)) = bs[x].size + Cardinality(All(s \ {x}))
    <2>1. PICK A, B : A = bytes[x] /\ B = All(s \ {x})
      OBVIOUS
    <2>2. IsFiniteSet(A) /\ IsFiniteSet(B) /\ Cardinality(A) = bs[x].size
      BY <1>3, <2>1
    <2>3. A \cap B = {} /\ All(s) = A \cup B
      BY <2>1
    <2>4. Cardinality(A \cap B) = 0
      BY <2>3, FS_EmptySet
    <2>5. Cardinality(A) \in Nat /\ Cardinality(B) \in Nat
      BY <2>2, FS_CardinalityType
    <2>6. Cardinality(A \cup B) = Cardinality(A) + Cardinality(B) - Cardinality(A \cap B)
      BY <2>2, FS_Union
    <2> HIDE DEF All
    <2> QED
      BY <2>1, <2>2, <2>3, <2>4, <2>5, <2>6
  <1>5. Cardinality(All({})) = 0
    BY FS_EmptySet
  <1> HIDE DEF All
  <1>6. \E f : IsSum(f)
    <2>1. PICK f : f = [s \in SUBSET S |-> Cardinality(All(s))]
      OBVIOUS
    <2>2. ASSUME NEW s \in SUBSET S
          PROVE  f[s] = IF s = {} THEN 0 ELSE bs[Picked(s)].size + f[s \ {Picked(s)}]
      <3>1. CASE s = {}
        BY <1>5, <2>1, <3>1
      <3>2. CASE s # {}
        <4>1. Picked(s) \in s /\ s \ {Picked(s)} \in SUBSET S
          BY <1>2, <3>2
        <4> QED
          BY <1>4, <2>1, <3>2, <4>1
      <3> QED
        BY <3>1, <3>2
    <2>3. f = [s \in SUBSET S |-> f[s]]
      BY <2>1
    <2>4. IsSum(f)
      BY <2>2, <2>3
    <2> QED
      BY <2>4
  <1>7. IsSum(sum)
    <2> HIDE DEF IsSum
    <2> QED
      BY <1>6
  <1>8. PICK g : g = sum
    OBVIOUS
  <1>9. IsSum(g)
    <2> HIDE DEF IsSum, sum
    <2> QED
      BY <1>7, <1>8
  <1> HIDE DEF sum
  <1> DEFINE T == {n \in Nat : \A s \in SUBSET S : Cardinality(s) = n => g[s] = Cardinality(All(s))}
  <1>10. 0 \in T
    <2> SUFFICES ASSUME NEW s \in SUBSET S, Cardinality(s) = 0 PROVE g[s] = Cardinality(All(s))
      OBVIOUS
    <2>1. s = {}
      BY FS_Subset, FS_EmptySet
    <2>2. g[s] = 0
      BY <1>9, <2>1
    <2> QED
      BY <1>5, <2>1, <2>2
  <1>11. ASSUME NEW n \in T PROVE n + 1 \in T
    <2> SUFFICES ASSUME NEW s \in SUBSET S, Cardinality(s) = n + 1 PROVE g[s] = Cardinality(All(s))
      OBVIOUS
    <2>1. IsFiniteSet(s) /\ s # {}
      BY FS_Subset, FS_EmptySet
    <2>2. PICK x : x = Picked(s) /\ x \in s
      BY <1>2, <2>1
    <2>3. Cardinality(s \ {x}) = n /\ s \ {x} \in SUBSET S
      <3>1. Cardinality(s \ {x}) = Cardinality(s) - 1
        BY <2>1, <2>2, FS_RemoveElement
      <3> QED
        BY <3>1
    <2>4. g[s \ {x}] = Cardinality(All(s \ {x}))
      BY <2>3
    <2>5. g[s] = bs[x].size + g[s \ {x}]
      BY <1>9, <2>1, <2>2
    <2> QED
      BY <1>4, <2>2, <2>4, <2>5
  <1> HIDE DEF T
  <1>12. T = Nat
    BY <1>10, <1>11, Counting DEF T
  <1>13. g[S] = Cardinality(All(S))
    <2>1. Cardinality(S) \in T
      BY <1>12, FS_CardinalityType
    <2> QED
      BY <2>1 DEF T
  <1> QED
    BY <1>1, <1>8, <1>13 DEF All

\* n addresses from x on.
LEMMA SizeOfInterval ==
  ASSUME NEW x \in Nat, NEW n \in Nat
  PROVE  IsFiniteSet(x .. (x + n - 1)) /\ Cardinality(x .. (x + n - 1)) = n
  <1>1. PICK y \in Int : y = x + n - 1
    OBVIOUS
  <1>2. IsFiniteSet(x .. y) /\ Cardinality(x .. y) = IF x > y THEN 0 ELSE y - x + 1
    BY FS_Interval
  <1>3. (IF x > y THEN 0 ELSE y - x + 1) = n
    BY <1>1
  <1> QED
    BY <1>1, <1>2, <1>3

\* What the properties of the result say of one function.
EdgesOf(f) ==
  \A b \in f.blocks :
    LET edges == {b.jump, b.fail} \ {0}
    IN  /\ edges \subseteq {c.addr : c \in f.blocks}
        /\ b.instrs = << >> => edges = {}
        /\ b.instrs # << >> =>
             /\ edges \subseteq Succs(Last(b.instrs))
             /\ \A a \in Succs(Last(b.instrs)) \ edges : ~Decodes(a)

EntriesOf(f) ==
  \A b \in f.blocks :
    /\ \A c \in f.blocks : c.addr \notin Range(b.instrs) \ {b.addr}
    /\ \A i \in 1 .. Len(b.instrs) - 1 : Succs(b.instrs[i]) = {b.instrs[i + 1]}

PartitionOf(f) ==
  Disjoint(Body(f.addr)) =>
    /\ \A b, c \in f.blocks : b # c => Range(b.instrs) \cap Range(c.instrs) = {}
    /\ f.size = Cardinality(UNION {Bytes(a) : a \in Body(f.addr)})

Sound(f) ==
  /\ f.addr \in Nat \ {0}
  /\ InstrsOf(f) = Body(f.addr)
  /\ EdgesOf(f) /\ EntriesOf(f) /\ PartitionOf(f)

\* A function with a block for every leader, none of which can be cut, is sound.
LEMMA BlocksAreSound ==
  ASSUME CodeOK, NEW bs, NEW e \in Nat \ {0}, e \in DOMAIN bs, DOMAIN bs \subseteq Nat,
         0 \notin DOMAIN bs, IsFiniteSet(DOMAIN bs), Proper(bs, DOMAIN bs, e),
         \A x, l \in DOMAIN bs : ~(x < l /\ l < x + bs[x].size /\ l \in Range(bs[x].instrs)),
         NEW f, f.addr = e, f.blocks = {bs[a] : a \in DOMAIN bs},
         f.size = TotalSize(bs)
  PROVE  Sound(f)
  <1>1. PICK D : D = DOMAIN bs
    OBVIOUS
  <1>2. ASSUME NEW x \in D
        PROVE  /\ bs[x].addr = x /\ BlockOK(bs[x], D) /\ Straight(bs[x].instrs)
               /\ Range(bs[x].instrs) \subseteq Body(e) /\ x \in Nat
    BY <1>1 DEF Proper, BlockOK
  <1>3. InstrsOf(f) = Body(e)
    <2>1. Found(bs) = Body(e)
      BY FoundIsBody
    <2> QED
      BY <2>1 DEF InstrsOf, Found
  <1>4. {c.addr : c \in f.blocks} = D
    BY <1>1, <1>2
  <1>5. EdgesOf(f)
    <2> SUFFICES ASSUME NEW x \in D
                 PROVE  /\ {bs[x].jump, bs[x].fail} \ {0} \subseteq D
                        /\ bs[x].instrs = << >> => {bs[x].jump, bs[x].fail} \ {0} = {}
                        /\ bs[x].instrs # << >> =>
                             /\ {bs[x].jump, bs[x].fail} \ {0} \subseteq Succs(Last(bs[x].instrs))
                             /\ \A a \in Succs(Last(bs[x].instrs)) \ ({bs[x].jump, bs[x].fail} \ {0}) :
                                  ~Decodes(a)
      BY <1>1, <1>4 DEF EdgesOf
    <2>1. ~Decodes(0)
      BY AnalyzerAssumption DEF Decodes, Addr
    <2>2. CASE bs[x].instrs = << >>
      BY <1>2, <2>2 DEF BlockOK
    <2>3. CASE bs[x].instrs # << >>
      BY <1>2, <2>1, <2>3 DEF BlockOK
    <2> QED
      BY <2>2, <2>3
  <1>6. ASSUME NEW x \in D, NEW y \in D PROVE x \notin Range(bs[y].instrs) \ {y}
    <2> SUFFICES ASSUME x \in Range(bs[y].instrs), x # y PROVE FALSE
      OBVIOUS
    <2>1. PICK is : is = bs[y].instrs
      OBVIOUS
    <2>2. Straight(is) /\ BlockOK(bs[y], D) /\ bs[y].addr = y /\ y \in Nat /\ bs[y].size \in Nat
      BY <1>2, <2>1 DEF BlockOK
    <2>3. PICK i \in 1 .. Len(is) : x = is[i]
      BY <2>1, <2>2 DEF Range, Straight
    <2>4. is # << >> /\ is[1] <= x /\ x \in Nat
      BY <2>2, <2>3, RunAbove
    <2>5. is[1] = y /\ y + bs[y].size = After(Last(is))
      BY <2>1, <2>2, <2>4 DEF BlockOK
    <2>6. x <= Last(is) /\ Last(is) < After(Last(is)) /\ Last(is) \in Nat /\ After(Last(is)) \in Nat
      BY <2>2, <2>3, <2>4, RunLast
    <2>7. y < x
      BY <2>2, <2>4, <2>5
    <2>8. x < y + bs[y].size
      BY <2>2, <2>4, <2>5, <2>6
    <2> QED
      BY <1>1, <2>7, <2>8
  <1>7. EntriesOf(f)
    <2>1. ASSUME NEW x \in D, NEW y \in D PROVE bs[y].addr \notin Range(bs[x].instrs) \ {bs[x].addr}
      BY <1>2, <1>6
    <2>2. ASSUME NEW x \in D, NEW i \in 1 .. Len(bs[x].instrs) - 1
          PROVE  Succs(bs[x].instrs[i]) = {bs[x].instrs[i + 1]}
      <3>1. PICK is : is = bs[x].instrs /\ Straight(is)
        BY <1>2
      <3>2. Len(is) \in Nat /\ i \in 1 .. Len(is) - 1 /\ i \in 1 .. Len(is)
        BY <2>2, <3>1 DEF Straight
      <3>3. Decodes(is[i]) /\ ~EndsBlock(is[i]) /\ is[i + 1] = After(is[i])
        BY <3>1, <3>2 DEF Straight
      <3> QED
        BY <3>1, <3>3, SuccsFacts
    <2> SUFFICES ASSUME NEW b \in f.blocks
                 PROVE  /\ \A c \in f.blocks : c.addr \notin Range(b.instrs) \ {b.addr}
                        /\ \A i \in 1 .. Len(b.instrs) - 1 : Succs(b.instrs[i]) = {b.instrs[i + 1]}
      BY DEF EntriesOf
    <2>3. PICK x \in D : b = bs[x]
      BY <1>1
    <2>4. \A c \in f.blocks : \E y \in D : c = bs[y]
      BY <1>1
    <2>5. \A c \in f.blocks : c.addr \notin Range(b.instrs) \ {b.addr}
      BY <2>1, <2>3, <2>4
    <2>6. \A i \in 1 .. Len(b.instrs) - 1 : Succs(b.instrs[i]) = {b.instrs[i + 1]}
      BY <2>2, <2>3
    <2> QED
      BY <2>5, <2>6
  <1>8. PartitionOf(f)
    <2> SUFFICES ASSUME Disjoint(Body(e))
                 PROVE  /\ \A b, c \in f.blocks : b # c => Range(b.instrs) \cap Range(c.instrs) = {}
                        /\ f.size = Cardinality(UNION {Bytes(a) : a \in Body(e)})
      BY DEF PartitionOf
    <2>1. \A x, y \in D : x # y => Range(bs[x].instrs) \cap Range(bs[y].instrs) = {}
      BY <1>1, <1>6, BlocksApart
    <2>2. PICK bytes : bytes = [x \in D |-> UNION {Bytes(a) : a \in Range(bs[x].instrs)}]
      OBVIOUS
    <2>3. ASSUME NEW x \in D
          PROVE  IsFiniteSet(bytes[x]) /\ bs[x].size = Cardinality(bytes[x])
      <3>1. CASE bs[x].instrs = << >>
        <4>1. bytes[x] = {} /\ bs[x].size = 0
          BY <1>2, <2>2, <3>1 DEF BlockOK, Range
        <4> QED
          BY <4>1, FS_EmptySet
      <3>2. CASE bs[x].instrs # << >>
        <4>1. PICK is : is = bs[x].instrs
          OBVIOUS
        <4>2. Straight(is) /\ is # << >> /\ bs[x].size \in Nat /\ x \in Nat
              /\ is[1] = x /\ x + bs[x].size = After(Last(is))
          BY <1>2, <3>2, <4>1 DEF BlockOK
        <4>3. bytes[x] = x .. (x + bs[x].size - 1)
          BY <2>2, <4>1, <4>2, RunBytes
        <4>4. PICK n \in Nat : n = bs[x].size
          BY <4>2
        <4>5. IsFiniteSet(x .. (x + n - 1)) /\ Cardinality(x .. (x + n - 1)) = n
          BY <4>2, SizeOfInterval
        <4> QED
          BY <4>3, <4>4, <4>5
      <3> QED
        BY <3>1, <3>2
    <2>4. \A x, y \in D : x # y => bytes[x] \cap bytes[y] = {}
      <3> SUFFICES ASSUME NEW x \in D, NEW y \in D, x # y, NEW z \in bytes[x], z \in bytes[y]
                   PROVE  FALSE
        OBVIOUS
      <3>1. PICK a \in Range(bs[x].instrs) : z \in Bytes(a)
        BY <2>2
      <3>2. PICK b \in Range(bs[y].instrs) : z \in Bytes(b)
        BY <2>2
      <3>3. a # b
        BY <2>1
      <3>4. a \in Body(e) /\ b \in Body(e)
        BY <1>2
      <3> QED
        BY <3>1, <3>2, <3>3, <3>4 DEF Disjoint
    <2>5. f.size = Cardinality(UNION {bytes[a] : a \in D})
      BY <1>1, <2>3, <2>4, SumOfSizes
    <2>6. UNION {bytes[a] : a \in D} = UNION {Bytes(a) : a \in Body(e)}
      <3>1. \A a : a \in Body(e) <=> \E x \in D : a \in Range(bs[x].instrs)
        BY <1>1, <1>3 DEF InstrsOf
      <3> QED
        BY <2>2, <3>1
    <2>7. \A b, c \in f.blocks : b # c => Range(b.instrs) \cap Range(c.instrs) = {}
      BY <1>1, <2>1
    <2> QED
      BY <2>5, <2>6, <2>7
  <1> QED
    BY <1>3, <1>5, <1>7, <1>8 DEF Sound

\* A step that leaves the code alone leaves a sound function sound.
LEMMA SoundStays ==
  ASSUME SameCode, CodeOK, NEW f, Sound(f)
  PROVE  Sound(f)'
  <1>1. Body(f.addr)' = Body(f.addr)
    BY CodeStays, ClosureStays DEF Body, Sound
  <1>2. \A a : (Bytes(a))' = Bytes(a)
    BY CodeStays DEF Bytes
  <1>3. \A is : Disjoint(is)' <=> Disjoint(is)
    BY <1>2 DEF Disjoint
  <1>4. EdgesOf(f)' <=> EdgesOf(f)
    BY CodeStays DEF EdgesOf
  <1>5. EntriesOf(f)' <=> EntriesOf(f)
    BY CodeStays DEF EntriesOf
  <1>6. PartitionOf(f)' <=> PartitionOf(f)
    BY <1>1, <1>2, <1>3 DEF PartitionOf
  <1> QED
    BY <1>1, <1>4, <1>5, <1>6 DEF Sound, InstrsOf


-----------------------------------------------------------------------------
(* The call graph.                                                           *)

\* What a function calls; code that does not decode calls nothing.
LEMMA CallsFacts ==
  ASSUME CodeOK, NEW e \in Nat
  PROVE  CallTargets(e) \subseteq Nat \ {0} /\ (CallTargets(e) # {} => Decodes(e))
  <1>1. \A a \in Body(e) : code[a].target \in Nat
    BY InsnFacts DEF Body
  <1>2. ASSUME ~Decodes(e) PROVE Body(e) = {}
    <2>1. Closed({e})
      BY <1>2, SuccsFacts DEF Closed
    <2>2. Closure({e}, Succs) \subseteq {e}
      BY <2>1, ClosureOfCode
    <2> QED
      BY <1>2, <2>2 DEF Body
  <1> QED
    BY <1>1, <1>2 DEF CallTargets

CallsOf == [a \in Nat |-> CallTargets(a)]

\* What Closure computes from the call targets of functions.
LEMMA CallGraphIsReach ==
  CodeOK => \A S \in SUBSET Nat : IsReach(Closure(S, CallTargets), S, CallsOf)
  <1> SUFFICES ASSUME CodeOK, NEW S \in SUBSET Nat PROVE IsReach(Closure(S, CallTargets), S, CallsOf)
    OBVIOUS
  <1> DEFINE Rounds(f) == f = [n \in Nat |-> IF n = 0 THEN S
                                ELSE f[n - 1] \cup UNION {CallTargets(a) : a \in f[n - 1]}]
             grow == CHOOSE f : Rounds(f)
  <1>1. Closure(S, CallTargets) = grow[LastAddr + 1]
    BY Zenon DEF Closure
  <1>2. PICK next : next = CallsOf
    OBVIOUS
  <1>3. next \in [Nat -> SUBSET Nat] /\ \A a \in Nat : next[a] = CallTargets(a)
    BY <1>2, CallsFacts DEF CallsOf
  <1>4. PICK from : from = S /\ from \in SUBSET Nat
    OBVIOUS
  <1>5. PICK max : max = LastAddr /\ max \in Nat
    BY AnalyzerAssumption
  <1>6. ASSUME NEW r, r \subseteq Nat
        PROVE  UNION {CallTargets(a) : a \in r} = UNION {next[a] : a \in r}
    BY <1>3, <1>6
  <1>7. \E f : Rounds(f)
    <2>1. PICK f : GrownBy(f, from, next)
      BY <1>3, <1>4, GrownExists
    <2>2. IsGrowth(f, from, next)
      BY <1>3, <1>4, <2>1, GrownIsGrowth
    <2>3. ASSUME NEW n \in Nat, n # 0
          PROVE  UNION {CallTargets(a) : a \in f[n - 1]} = UNION {next[a] : a \in f[n - 1]}
      <3>1. n - 1 \in Nat
        BY <2>3
      <3>2. f[n - 1] \subseteq Nat
        BY <2>2, <3>1 DEF IsGrowth
      <3> QED
        BY <1>6, <3>2
    <2>4. Rounds(f)
      BY <1>4, <2>1, <2>3 DEF GrownBy
    <2> QED
      BY <2>4
  <1>8. Rounds(grow)
    <2> HIDE DEF Rounds
    <2> QED
      BY <1>7
  <1>9. PICK g : g = grow
    OBVIOUS
  <1>10. Rounds(g)
    <2> HIDE DEF Rounds, grow
    <2> QED
      BY <1>8, <1>9
  <1> HIDE DEF grow
  <1>11. GrownBy(g, from, next)
    <2>1. \A n \in Nat : g[n] \subseteq Nat
      <3> DEFINE T == {n \in Nat : g[n] \subseteq Nat}
      <3>1. 0 \in T
        BY <1>10
      <3>2. ASSUME NEW n \in T PROVE n + 1 \in T
        <4>1. n + 1 \in Nat /\ n + 1 # 0 /\ n + 1 - 1 = n /\ g[n] \subseteq Nat
          OBVIOUS
        <4>2. g[n + 1] = g[n] \cup UNION {CallTargets(a) : a \in g[n]}
          BY <1>10, <4>1
        <4>3. UNION {CallTargets(a) : a \in g[n]} \subseteq Nat
          BY CallsFacts
        <4> QED
          BY <4>1, <4>2, <4>3
      <3> HIDE DEF T
      <3>3. T = Nat
        BY <3>1, <3>2, Counting DEF T
      <3> QED
        BY <3>3 DEF T
    <2>2. ASSUME NEW n \in Nat, n # 0
          PROVE  UNION {CallTargets(a) : a \in g[n - 1]} = UNION {next[a] : a \in g[n - 1]}
      <3>1. n - 1 \in Nat
        BY <2>2
      <3> QED
        BY <1>6, <2>1, <3>1
    <2> QED
      BY <1>4, <1>10, <2>2 DEF GrownBy
  <1> HIDE DEF Rounds
  <1>12. \A a \in Nat : next[a] # {} => a \in 1 .. max
    <2> SUFFICES ASSUME NEW a \in Nat, next[a] # {} PROVE a \in 1 .. max
      OBVIOUS
    <2>1. CallTargets(a) # {}
      BY <1>3
    <2>2. Decodes(a)
      BY <2>1, CallsFacts
    <2> QED
      BY <1>5, <2>2 DEF Decodes, Addr
  <1>13. IsReach(g[max + 1], from, next)
    BY <1>3, <1>4, <1>5, <1>11, <1>12, GrownReaches
  <1> QED
    BY <1>1, <1>2, <1>4, <1>5, <1>9, <1>13

\* The same of the next state.
LEMMA CallGraphIsReachNext ==
  (CodeOK => \A S \in SUBSET Nat : IsReach(Closure(S, CallTargets), S, CallsOf))'
  BY CallGraphIsReach, PTL

\* What a step that leaves the code alone leaves alone too.
LEMMA CallsStay ==
  ASSUME SameCode, CodeOK, NEW e \in Nat
  PROVE  Body(e)' = Body(e) /\ CallTargets(e)' = CallTargets(e)
  <1>1. Body(e)' = Body(e)
    BY CodeStays, ClosureStays DEF Body
  <1> QED
    BY <1>1 DEF CallTargets, SameCode

\* The same code has the same call graph.
LEMMA CallGraphStays ==
  ASSUME SameCode, CodeOK, NEW S \in SUBSET Nat
  PROVE  (Closure(S, CallTargets))' = Closure(S, CallTargets)
  <1>1. IsReach(Closure(S, CallTargets), S, CallsOf)
    BY CallGraphIsReach
  <1>2. IsReach((Closure(S, CallTargets))', S, CallsOf')
    BY CodeStays, CallGraphIsReachNext
  <1>3. CallsOf' = CallsOf
    BY CallsStay DEF CallsOf
  <1>4. PICK C, D, next : /\ C = Closure(S, CallTargets) /\ D = (Closure(S, CallTargets))'
                          /\ next = CallsOf
    OBVIOUS
  <1> QED
    BY <1>1, <1>2, <1>3, <1>4, OneReach

-----------------------------------------------------------------------------
(* Sequences of results.                                                     *)

\* An order of a finite set has each of its members.
LEMMA OrderFacts ==
  ASSUME NEW S, IsFiniteSet(S), NEW q \in SetToSeqs(S)
  PROVE  /\ q \in Seq(S) /\ Range(q) = S /\ DOMAIN q = 1 .. Cardinality(S)
         /\ \A i, j \in DOMAIN q : i # j => q[i] # q[j]
  <1>1. PICK n \in Nat : n = Cardinality(S)
    BY FS_CardinalityType
  <1>2. q \in [1 .. n -> S] /\ \A i, j \in 1 .. n : i # j => q[i] # q[j]
    BY <1>1 DEF SetToSeqs
  <1>3. q \in Injection(1 .. n, S)
    BY <1>2 DEF Injection, IsInjective
  <1>4. IsFiniteSet(1 .. n) /\ Cardinality(1 .. n) = n
    <2>1. 1 \in Int /\ n \in Int
      OBVIOUS
    <2>2. IsFiniteSet(1 .. n) /\ Cardinality(1 .. n) = IF 1 > n THEN 0 ELSE n - 1 + 1
      BY <2>1, FS_Interval
    <2>3. (IF 1 > n THEN 0 ELSE n - 1 + 1) = n
      OBVIOUS
    <2> QED
      BY <2>2, <2>3
  <1>5. q \in Surjection(1 .. n, S)
    BY <1>1, <1>3, <1>4, FS_Injection
  <1>6. \A x \in S : \E i \in 1 .. n : q[i] = x
    BY <1>5 DEF Surjection
  <1>7. q \in Seq(S)
    BY <1>2
  <1>8. Range(q) = S
    BY <1>2, <1>6 DEF Range
  <1> QED
    BY <1>1, <1>2, <1>7, <1>8

\* A concatenation holds nothing else.
LEMMA RangeOfConcat ==
  ASSUME NEW S, NEW q \in Seq(S), NEW r \in Seq(S)
  PROVE  q \o r \in Seq(S) /\ Range(q \o r) = Range(q) \cup Range(r)
  <1>1. PICK s : s = q \o r
    OBVIOUS
  <1>2. /\ s \in Seq(S) /\ DOMAIN s = 1 .. Len(q) + Len(r)
        /\ DOMAIN q = 1 .. Len(q) /\ DOMAIN r = 1 .. Len(r) /\ Len(q) \in Nat /\ Len(r) \in Nat
    BY <1>1
  <1>3. Range(s) \subseteq Range(q) \cup Range(r)
    <2> SUFFICES ASSUME NEW i \in DOMAIN s PROVE s[i] \in Range(q) \cup Range(r)
      BY DEF Range
    <2>1. CASE i \in 1 .. Len(q)
      <3>1. s[i] = q[i]
        BY <1>1, <1>2, <2>1
      <3> QED
        BY <1>2, <2>1, <3>1 DEF Range
    <2>2. CASE i \notin 1 .. Len(q)
      <3>1. i - Len(q) \in 1 .. Len(r) /\ s[i] = r[i - Len(q)]
        BY <1>1, <1>2, <2>2
      <3> QED
        BY <1>2, <3>1 DEF Range
    <2> QED
      BY <2>1, <2>2
  <1>4. Range(q) \subseteq Range(s) /\ Range(r) \subseteq Range(s)
    BY <1>1, RangeConcat
  <1> QED
    BY <1>1, <1>2, <1>3, <1>4

\* A loop that joins n pieces.
JoinedBy(f, piece, n) ==
  f = [k \in 0 .. n |-> IF k = 0 THEN << >> ELSE f[k - 1] \o piece[k]]

\* The loop that joins n pieces has its states.
LEMMA JoinExists ==
  ASSUME NEW U, NEW n \in Nat, NEW piece \in [1 .. n -> Seq(U)]
  PROVE  \E f : JoinedBy(f, piece, n)
  <1>1. PICK S : S = Seq(U)
    OBVIOUS
  <1>2. PICK turn : turn = [p \in Nat \X S |->
                              IF p[1] \in 1 .. n THEN p[2] \o piece[p[1]] ELSE p[2]]
    OBVIOUS
  <1>3. ASSUME NEW k \in Nat, NEW s \in S
        PROVE  /\ turn[<<k, s>>] \in S
               /\ k \in 1 .. n => turn[<<k, s>>] = s \o piece[k]
    <2>1. <<k, s>> \in Nat \X S /\ <<k, s>>[1] = k /\ <<k, s>>[2] = s
      OBVIOUS
    <2>2. turn[<<k, s>>] = IF k \in 1 .. n THEN s \o piece[k] ELSE s
      BY <1>2, <2>1
    <2>3. k \in 1 .. n => s \o piece[k] \in S
      BY <1>1
    <2> QED
      BY <2>2, <2>3
  <1>4. turn \in [Nat \X S -> S]
    <2>1. ASSUME NEW p \in Nat \X S PROVE turn[p] \in S
      <3>1. PICK k \in Nat, s \in S : p = <<k, s>>
        OBVIOUS
      <3> QED
        BY <1>3, <3>1
    <2> QED
      BY <1>2, <2>1
  <1>0. PICK start : start = << >>
    OBVIOUS
  <1>5. start \in S
    BY <1>0, <1>1
  <1>6. PICK f : IsRun(f, S, start, turn, n)
    BY <1>4, <1>5, LoopStates
  <1>7. ASSUME NEW k \in 0 .. n
        PROVE  f[k] = IF k = 0 THEN << >> ELSE f[k - 1] \o piece[k]
    <2>1. CASE k = 0
      BY <1>0, <1>6, <2>1 DEF IsRun
    <2>2. CASE k # 0
      <3>1. k \in 1 .. n /\ k \in Nat /\ k - 1 \in 0 .. n
        BY <2>2
      <3>2. f[k] = turn[<<k, f[k - 1]>>] /\ f[k - 1] \in S
        BY <1>6, <3>1 DEF IsRun
      <3> QED
        BY <1>3, <2>2, <3>1, <3>2
    <2> QED
      BY <2>1, <2>2
  <1>8. f = [k \in 0 .. n |-> f[k]]
    BY <1>6 DEF IsRun
  <1>9. JoinedBy(f, piece, n)
    BY <1>7, <1>8 DEF JoinedBy
  <1> QED
    BY <1>9

\* It ends with a sequence of what the pieces hold.
LEMMA JoinFacts ==
  ASSUME NEW U, NEW n \in Nat, NEW piece \in [1 .. n -> Seq(U)], NEW f, JoinedBy(f, piece, n)
  PROVE  f[n] \in Seq(U) /\ Range(f[n]) = UNION {Range(piece[k]) : k \in 1 .. n}
  <1> DEFINE P(m) == f[m] \in Seq(U) /\ Range(f[m]) = UNION {Range(piece[k]) : k \in 1 .. m}
             T == {m \in Nat : m <= n => P(m)}
  <1>1. P(0)
    <2>1. 0 \in 0 .. n
      OBVIOUS
    <2>2. f[0] = << >>
      BY <2>1 DEF JoinedBy
    <2>3. Range(<< >>) = {}
      BY DEF Range
    <2> QED
      BY <2>2, <2>3
  <1>2. ASSUME NEW m \in Nat, m + 1 <= n, P(m) PROVE P(m + 1)
    <2>1. m + 1 \in 0 .. n /\ m + 1 # 0 /\ m + 1 - 1 = m /\ m + 1 \in 1 .. n /\ m <= n
      BY <1>2
    <2>2. f[m + 1] = f[m] \o piece[m + 1]
      <3>1. PICK k : k = m + 1 /\ k \in 0 .. n /\ k # 0 /\ k - 1 = m
        BY <2>1
      <3>2. f[k] = f[k - 1] \o piece[k]
        BY <3>1 DEF JoinedBy
      <3> QED
        BY <3>1, <3>2
    <2>3. PICK q, r : q = f[m] /\ r = piece[m + 1]
      OBVIOUS
    <2>4. q \in Seq(U) /\ r \in Seq(U)
      BY <1>2, <2>1, <2>3
    <2>5. q \o r \in Seq(U) /\ Range(q \o r) = Range(q) \cup Range(r)
      BY <2>4, RangeOfConcat
    <2>6. \A k : k \in 1 .. m + 1 <=> k \in 1 .. m \/ k = m + 1
      BY <1>2
    <2>7. UNION {Range(piece[k]) : k \in 1 .. m + 1}
            = (UNION {Range(piece[k]) : k \in 1 .. m}) \cup Range(piece[m + 1])
      BY <2>6
    <2> QED
      BY <1>2, <2>2, <2>3, <2>5, <2>7
  <1> HIDE DEF P
  <1>3. 0 \in T
    BY <1>1
  <1>4. ASSUME NEW m \in T PROVE m + 1 \in T
    <2>1. m \in Nat /\ (m + 1 <= n => m <= n)
      OBVIOUS
    <2> QED
      BY <1>2, <2>1
  <1> HIDE DEF T
  <1>5. T = Nat
    BY <1>3, <1>4, Counting DEF T
  <1>6. P(n)
    BY <1>5 DEF T
  <1> QED
    BY <1>6 DEF P

\* The references of some instructions.
XrefsAt(A) == {XrefOf(a) : a \in {b \in A : code[b].target # 0}}

\* Membership, spelled out.
LEMMA InXrefs == \A A, x : x \in XrefsAt(A) <=> \E a \in A : code[a].target # 0 /\ x = XrefOf(a)
  BY DEF XrefsAt

\* XrefsOf lists the references of its instructions and nothing else.
LEMMA XrefsFacts ==
  ASSUME NEW is \in Seq(Nat)
  PROVE  XrefsOf(is) \in Seq(XrefsAt(Range(is))) /\ Range(XrefsOf(is)) = XrefsAt(Range(is))
  <1>1. PICK n, U : n = Len(is) /\ U = XrefsAt(Range(is))
    OBVIOUS
  <1>2. n \in Nat /\ DOMAIN is = 1 .. n
    BY <1>1
  <1> DEFINE PieceAt(k) == IF code[is[k]].target = 0 THEN << >> ELSE <<XrefOf(is[k])>>
  <1>3. PICK piece : piece = [k \in 1 .. n |-> PieceAt(k)]
    OBVIOUS
  <1>4. ASSUME NEW k \in 1 .. n
        PROVE  /\ piece[k] \in Seq(U)
               /\ Range(piece[k]) = XrefsAt({is[k]})
    <2>1. is[k] \in Range(is)
      BY <1>2 DEF Range
    <2>2. CASE code[is[k]].target = 0
      <3>1. piece[k] = << >>
        BY <1>3, <2>2
      <3>2. XrefsAt({is[k]}) = {}
        BY <2>2, InXrefs
      <3>3. Range(<< >>) = {} /\ << >> \in Seq(U)
        BY DEF Range
      <3> HIDE DEF PieceAt
      <3> QED
        BY <3>1, <3>2, <3>3
    <2>3. CASE code[is[k]].target # 0
      <3>1. PICK x : x = XrefOf(is[k])
        OBVIOUS
      <3>2. piece[k] = <<x>>
        BY <1>3, <2>3, <3>1
      <3>3. x \in U
        BY <1>1, <2>1, <2>3, <3>1, InXrefs
      <3>4. Range(piece[k]) = {x} /\ piece[k] \in Seq(U)
        BY <3>2, <3>3 DEF Range
      <3>5. XrefsAt({is[k]}) = {x}
        BY <2>3, <3>1, InXrefs
      <3> QED
        BY <3>4, <3>5
    <2> QED
      BY <2>2, <2>3
  <1>5. piece \in [1 .. n -> Seq(U)]
    BY <1>3, <1>4
  <1> DEFINE IsLoop(f) == f = [k \in 0 .. Len(is) |->
                                 IF k = 0 THEN << >>
                                 ELSE f[k - 1] \o IF code[is[k]].target = 0 THEN << >>
                                                  ELSE <<XrefOf(is[k])>>]
             refs == CHOOSE f : IsLoop(f)
  <1>6. XrefsOf(is) = refs[Len(is)]
    BY Zenon DEF XrefsOf
  <1>7. \A f : IsLoop(f) <=> JoinedBy(f, piece, n)
    <2>1. \A k \in 0 .. n : k # 0 => k \in 1 .. n
      BY <1>2
    <2>2. \A k \in 1 .. n : piece[k] = PieceAt(k)
      BY <1>3
    <2> QED
      BY <1>1, <2>1, <2>2 DEF JoinedBy
  <1> HIDE DEF IsLoop, PieceAt
  <1>8. \E f : IsLoop(f)
    BY <1>2, <1>5, <1>7, JoinExists
  <1>9. PICK g : g = refs /\ IsLoop(g)
    BY <1>8
  <1> HIDE DEF refs
  <1>10. g[n] \in Seq(U) /\ Range(g[n]) = UNION {Range(piece[k]) : k \in 1 .. n}
    BY <1>2, <1>5, <1>7, <1>9, JoinFacts
  <1>11. Range(g[n]) = U
    <2>1. ASSUME NEW k \in 1 .. n PROVE Range(piece[k]) \subseteq U
      <3>1. is[k] \in Range(is)
        BY <1>2 DEF Range
      <3> QED
        <4> SUFFICES ASSUME NEW x \in Range(piece[k]) PROVE x \in U
          OBVIOUS
        <4>1. x \in XrefsAt({is[k]})
          BY <1>4
        <4>2. code[is[k]].target # 0 /\ x = XrefOf(is[k])
          BY <4>1, InXrefs
        <4> QED
          BY <1>1, <3>1, <4>2, InXrefs
    <2>2. ASSUME NEW x \in U PROVE \E k \in 1 .. n : x \in Range(piece[k])
      <3>1. PICK a \in Range(is) : code[a].target # 0 /\ x = XrefOf(a)
        BY <1>1, InXrefs
      <3>2. PICK k \in 1 .. n : a = is[k]
        BY <1>2 DEF Range
      <3>3. x \in Range(piece[k])
        <4>1. x \in XrefsAt({is[k]})
          BY <3>1, <3>2, InXrefs
        <4> QED
          BY <1>4, <4>1
      <3> QED
        BY <3>3
    <2> QED
      BY <1>10, <2>1, <2>2
  <1> QED
    BY <1>1, <1>6, <1>9, <1>10, <1>11

-----------------------------------------------------------------------------
(* The inductive invariant of the whole analysis.                            *)

\* The direct call targets of some instructions.
CallsAt(A) == {code[a].target : a \in {b \in A : code[b].flow = "Call"}} \ {0}

\* A function of the result.
Listed(f) == Sound(f) /\ f.callees = CallTargets(f.addr)

\* The entries are addresses, and the functions found so far are proper.
OuterOK ==
  /\ seeds \in Seq(Nat) /\ work \in Seq(Nat) /\ queued \subseteq Nat
  /\ functions \in Seq(Range(functions))
  /\ \A f \in Range(functions) : Listed(f)

\* The builder has found the calls of the code it has traced.
CallsOK ==
  /\ phase \in {"trace", "split"} => IsFiniteSet(callees)
  /\ phase = "trace" => callees = CallsAt(Found(blocks))
  /\ phase = "split" => callees = CallTargets(entry)

\* The references are those of the functions found so far and of the code the
\* builder has traced.
ListedXrefs == UNION {XrefsAt(Body(f.addr)) : f \in Range(functions)}

XrefsOK ==
  /\ xrefs \in Seq(Range(xrefs))
  /\ Range(xrefs) = ListedXrefs \cup CASE phase = "trace" -> XrefsAt(Found(blocks))
                                       [] phase = "split" -> XrefsAt(Body(entry))
                                       [] OTHER -> {}

\* Every entry that was queued is reached by calls from the seeds; it waits in
\* the queue, or it was analyzed and has a function of its own.
GraphOK ==
  /\ Range(seeds) \subseteq queued
  /\ queued \ {0} \subseteq Closure(Range(seeds) \ {0}, CallTargets)
  /\ Range(work) \subseteq queued /\ queued \subseteq Range(work) \cup analyzed \cup {0}
  /\ analyzed \subseteq queued
  /\ analyzed = {f.addr : f \in Range(functions)}
                  \cup IF phase \in {"trace", "split"} THEN {entry} ELSE {}
  /\ phase \in {"trace", "split"} =>
       entry \in queued /\ entry \notin {f.addr : f \in Range(functions)}
  /\ \A f \in Range(functions) : f.callees \subseteq queued
  /\ \A i, j \in DOMAIN functions : i # j => functions[i].addr # functions[j].addr
  /\ phase = "done" =>
       /\ work = << >>
       /\ \A i, j \in DOMAIN functions : i < j => functions[i].addr < functions[j].addr

ResultInv ==
  /\ CodeOK /\ phase \in {"pick", "trace", "split", "done"}
  /\ AnalyzerInv /\ BuilderOK /\ OuterOK /\ CallsOK /\ XrefsOK /\ GraphOK

\* Calls and references, of the instructions together.
LEMMA AtUnion ==
  \A A, B : CallsAt(A \cup B) = CallsAt(A) \cup CallsAt(B) /\ XrefsAt(A \cup B) = XrefsAt(A) \cup XrefsAt(B)
  BY DEF CallsAt, XrefsAt

\* They stay while the code does.
LEMMA AtStay ==
  ASSUME SameCode
  PROVE  \A A : (CallsAt(A))' = CallsAt(A) /\ (XrefsAt(A))' = XrefsAt(A)
  BY DEF SameCode, CallsAt, XrefsAt, XrefOf

\* So does a function of the result, with its references.
LEMMA ListedStays ==
  ASSUME SameCode, CodeOK, NEW f, Listed(f)
  PROVE  Listed(f)' /\ Body(f.addr)' = Body(f.addr) /\ (XrefsAt(Body(f.addr)))' = XrefsAt(Body(f.addr))
  <1>1. f.addr \in Nat /\ Sound(f)
    BY DEF Listed, Sound
  <1>2. Sound(f)' /\ Body(f.addr)' = Body(f.addr) /\ CallTargets(f.addr)' = CallTargets(f.addr)
    BY <1>1, SoundStays, CallsStay
  <1>3. Listed(f)'
    BY <1>2 DEF Listed
  <1>4. (XrefsAt(Body(f.addr)))' = XrefsAt(Body(f.addr))
    BY <1>2 DEF XrefsAt, XrefOf, SameCode
  <1> QED
    BY <1>2, <1>3, <1>4

\* What an iteration of build's loop adds to what was found.
LEMMA TraceAdds ==
  ASSUME CodeOK, AnalyzerInv, BuilderOK, TraceBlock
  PROVE  \/ UNCHANGED <<blocks, callees, xrefs>>
         \/ \E is \in Seq(Nat) : /\ Found(blocks') = Found(blocks) \cup Range(is)
                                 /\ callees' = callees \cup CallsAt(Range(is))
                                 /\ xrefs' = xrefs \o XrefsOf(is)
  <1>1. PICK start : start = Head(todo)
    OBVIOUS
  <1>2. start \in Nat
    <2>1. phase = "trace" /\ todo # << >> /\ todo \in Seq(seen)
      BY DEF TraceBlock, AnalyzerInv, QueueComplete
    <2>2. seen \subseteq Nat
      BY <2>1, ClosureOfCode DEF BuilderOK
    <2>3. start \in seen
      BY <1>1, <2>1
    <2> QED
      BY <2>2, <2>3
  <1>3. CASE start \in DOMAIN blocks
    BY <1>1, <1>3 DEF TraceBlock
  <1>4. CASE start \notin DOMAIN blocks
    <2>1. PICK is : is = Run(start)
      OBVIOUS
    <2>2. PICK b : b = BlockOf(start, is)
      OBVIOUS
    <2>3. /\ blocks' = [a \in DOMAIN blocks \cup {start} |-> IF a = start THEN b ELSE blocks[a]]
          /\ callees' = callees \cup CallsIn(b.instrs)
          /\ xrefs' = xrefs \o XrefsOf(b.instrs)
      BY <1>1, <1>4, <2>1, <2>2 DEF TraceBlock
    <2>4. RunOK(is, start, start)
      BY <1>2, <2>1, RunFacts
    <2>5. b.instrs = is /\ is \in Seq(Nat)
      BY <1>2, <2>2, <2>4, TracedBlock DEF RunOK, Straight
    <2>6. CallsIn(is) = CallsAt(Range(is))
      BY DEF CallsIn, CallsAt
    <2>7. Found(blocks') = Found(blocks) \cup Range(is)
      <3>1. PICK bs : bs = blocks'
        OBVIOUS
      <3>2. /\ DOMAIN bs = DOMAIN blocks \cup {start} /\ bs[start] = b
            /\ \A a \in DOMAIN blocks : bs[a] = blocks[a]
        BY <1>4, <2>3, <3>1
      <3>3. Found(bs) = Found(blocks) \cup Range(is)
        BY <2>5, <3>2 DEF Found
      <3> QED
        BY <3>1, <3>3
    <2> QED
      BY <2>3, <2>5, <2>6, <2>7
  <1> QED
    BY <1>3, <1>4

\* An iteration of build's loop finds the calls of what it traces.
LEMMA TraceCalls ==
  ASSUME CodeOK, AnalyzerInv, BuilderOK, CallsOK, TraceBlock
  PROVE  CallsOK'
  <1>1. phase = "trace" /\ phase' = "trace" /\ SameCode
    BY DEF TraceBlock, SameCode
  <1>2. callees = CallsAt(Found(blocks)) /\ IsFiniteSet(callees)
    BY <1>1 DEF CallsOK
  <1>3. PICK cs, F : cs = callees' /\ F = Found(blocks')
    OBVIOUS
  <1>4. cs = CallsAt(F) /\ IsFiniteSet(cs)
    <2>1. CASE UNCHANGED <<blocks, callees, xrefs>>
      <3>1. F = Found(blocks)
        BY <1>3, <2>1
      <3> QED
        BY <1>2, <1>3, <2>1, <3>1
    <2>2. CASE ~UNCHANGED <<blocks, callees, xrefs>>
      <3>1. PICK is \in Seq(Nat) : F = Found(blocks) \cup Range(is) /\ cs = callees \cup CallsAt(Range(is))
        BY <1>3, <2>2, TraceAdds
      <3>2. IsFiniteSet(CallsAt(Range(is)))
        <4>1. PICK n \in Nat : n = Len(is) /\ DOMAIN is = 1 .. n
          OBVIOUS
        <4>2. IsFiniteSet(1 .. n)
          BY FS_Interval
        <4>3. PICK T : T = {code[is[k]].target : k \in 1 .. n}
          OBVIOUS
        <4>4. PICK h : h = [k \in 1 .. n |-> code[is[k]].target]
          OBVIOUS
        <4>5. h \in Surjection(1 .. n, T)
          BY <4>3, <4>4 DEF Surjection
        <4>6. IsFiniteSet(T)
          BY <4>2, <4>5, FS_Surjection
        <4>7. CallsAt(Range(is)) \subseteq T
          BY <4>1, <4>3 DEF CallsAt, Range
        <4> QED
          BY <4>6, <4>7, FS_Subset
      <3>3. IsFiniteSet(cs)
        BY <1>2, <3>1, <3>2, FS_Union
      <3> QED
        BY <1>2, <3>1, <3>3, AtUnion
    <2> QED
      BY <2>1, <2>2
  <1>5. (CallsAt(F))' = CallsAt(F)
    BY <1>1, AtStay
  <1>6. (Found(blocks))' = F
    BY <1>3 DEF Found
  <1>7. callees' = (CallsAt(Found(blocks)))' /\ IsFiniteSet(callees)'
    BY <1>3, <1>4, <1>5, <1>6 DEF CallsAt
  <1> QED
    BY <1>1, <1>7 DEF CallsOK

\* It records the references of what it traces.
LEMMA TraceXrefs ==
  ASSUME CodeOK, AnalyzerInv, BuilderOK, OuterOK, XrefsOK, TraceBlock
  PROVE  XrefsOK'
  <1>1. phase = "trace" /\ phase' = "trace" /\ SameCode /\ functions' = functions
    BY DEF TraceBlock, SameCode, outer
  <1>2. xrefs \in Seq(Range(xrefs)) /\ Range(xrefs) = ListedXrefs \cup XrefsAt(Found(blocks))
    BY <1>1 DEF XrefsOK
  <1>3. PICK xs, F : xs = xrefs' /\ F = Found(blocks')
    OBVIOUS
  <1>4. xs \in Seq(Range(xs)) /\ Range(xs) = ListedXrefs \cup XrefsAt(F)
    <2>1. CASE UNCHANGED <<blocks, callees, xrefs>>
      <3>1. F = Found(blocks)
        BY <1>3, <2>1
      <3> QED
        BY <1>2, <1>3, <2>1, <3>1
    <2>2. CASE ~UNCHANGED <<blocks, callees, xrefs>>
      <3>1. PICK is \in Seq(Nat) : F = Found(blocks) \cup Range(is) /\ xs = xrefs \o XrefsOf(is)
        BY <1>3, <2>2, TraceAdds
      <3>2. PICK q, r : q = xrefs /\ r = XrefsOf(is)
        OBVIOUS
      <3>3. q \in Seq(Range(q)) /\ r \in Seq(Range(r)) /\ Range(r) = XrefsAt(Range(is))
        BY <1>2, <3>2, XrefsFacts
      <3>4. PICK U : U = Range(q) \cup Range(r)
        OBVIOUS
      <3>5. q \in Seq(U) /\ r \in Seq(U)
        BY <3>3, <3>4
      <3>6. q \o r \in Seq(U) /\ Range(q \o r) = U
        BY <3>4, <3>5, RangeOfConcat
      <3>7. XrefsAt(F) = XrefsAt(Found(blocks)) \cup XrefsAt(Range(is))
        BY <3>1, AtUnion
      <3> QED
        BY <1>2, <3>1, <3>2, <3>3, <3>4, <3>6, <3>7
    <2> QED
      BY <2>1, <2>2
  <1>5. (XrefsAt(F))' = XrefsAt(F)
    BY <1>1, AtStay
  <1>6. (XrefsAt(Found(blocks)))' = XrefsAt(F)
    BY <1>3, <1>5 DEF Found, XrefsAt
  <1>7. ListedXrefs' = ListedXrefs
    BY <1>1, ListedStays DEF ListedXrefs, OuterOK
  <1> QED
    BY <1>1, <1>3, <1>4, <1>6, <1>7 DEF XrefsOK

-----------------------------------------------------------------------------
(* What the steps outside build's loop leave alone.                          *)

\* The builder.
LEMMA BuilderStays ==
  ASSUME SameCode, CodeOK, BuilderOK, phase \in {"trace", "split"}, UNCHANGED builder
  PROVE  BuilderOK'
  <1>1. PICK e, ls, bs : e = entry /\ ls = leaders /\ bs = blocks
    OBVIOUS
  <1>2. UNCHANGED <<entry, leaders, blocks, seen>>
    BY DEF builder
  <1>3. e \in Nat /\ Proper(bs, ls, e)
    BY <1>1 DEF BuilderOK
  <1>4. Proper(bs, ls, e)' /\ (Closure({e}, Succs))' = Closure({e}, Succs)
    BY <1>3, ProperStays, ClosureStays
  <1> QED
    BY <1>1, <1>2, <1>4 DEF BuilderOK

\* analyze's own variables.
LEMMA OuterStays ==
  ASSUME SameCode, CodeOK, OuterOK, UNCHANGED <<seeds, work, queued, functions>>
  PROVE  OuterOK'
  <1>1. \A f \in Range(functions) : Listed(f)'
    BY ListedStays DEF OuterOK
  <1> QED
    BY <1>1 DEF OuterOK

\* The references of the functions found so far.
LEMMA XrefsStay ==
  ASSUME SameCode, CodeOK, OuterOK, functions' = functions
  PROVE  ListedXrefs' = ListedXrefs
  BY ListedStays DEF ListedXrefs, OuterOK

\* The call graph.
LEMMA GraphStays ==
  ASSUME SameCode, CodeOK, OuterOK, GraphOK,
         phase \in {"trace", "split"}, phase' \in {"trace", "split"},
         UNCHANGED <<seeds, work, queued, functions, analyzed, entry>>
  PROVE  GraphOK'
  <1>1. PICK S : S = Range(seeds) \ {0}
    OBVIOUS
  <1>2. S \in SUBSET Nat
    <2>1. Range(seeds) \subseteq Nat
      BY DEF OuterOK, GraphOK
    <2> QED
      BY <1>1, <2>1
  <1>3. (Closure(S, CallTargets))' = Closure(S, CallTargets)
    BY <1>2, CallGraphStays
  <1>4. (Range(seeds) \ {0})' = S
    BY <1>1 DEF Range
  <1> QED
    BY <1>1, <1>3, <1>4 DEF GraphOK

\* When each leader has its block, the code of the entry has been found.
LEMMA AllFound ==
  ASSUME CodeOK, BuilderOK, phase \in {"trace", "split"}, leaders \subseteq DOMAIN blocks
  PROVE  Found(blocks) = Body(entry)
  <1>1. entry \in Nat /\ entry \in leaders /\ Proper(blocks, leaders, entry)
    BY DEF BuilderOK
  <1>2. PICK bs, ls, e : bs = blocks /\ ls = leaders /\ e = entry
    OBVIOUS
  <1>3. Found(bs) = Body(e)
    BY <1>1, <1>2, FoundIsBody
  <1> QED
    BY <1>2, <1>3

\* The start of finalize.
LEMMA FinalizeInv ==
  ASSUME ResultInv, StartFinalize
  PROVE  ResultInv'
  <1> USE DEF ResultInv
  <1>1. /\ phase = "trace" /\ phase' = "split" /\ todo = << >> /\ SameCode
        /\ UNCHANGED <<seeds, work, queued, functions, analyzed, xrefs>>
        /\ UNCHANGED <<entry, callees, blocks, leaders, seen>>
        /\ UNCHANGED builder
    BY DEF StartFinalize, SameCode, outer, builder
  <1>2. leaders \subseteq DOMAIN blocks
    <2>1. Range(todo) = {}
      BY <1>1 DEF Range
    <2> QED
      BY <1>1, <2>1 DEF AnalyzerInv, QueueComplete
  <1>3. Found(blocks) = Body(entry)
    BY <1>1, <1>2, AllFound
  <1>4. AnalyzerInv'
    BY NextInv DEF Next
  <1>5. BuilderOK' /\ OuterOK' /\ GraphOK' /\ CodeOK'
    BY <1>1, BuilderStays, OuterStays, GraphStays, CodeStays
  <1>6. PICK e \in Nat : e = entry
    BY <1>1 DEF BuilderOK
  <1>7. Body(e)' = Body(e) /\ CallTargets(e)' = CallTargets(e) /\ (XrefsAt(Body(e)))' = XrefsAt(Body(e))
    <2>1. Body(e)' = Body(e) /\ CallTargets(e)' = CallTargets(e)
      BY <1>1, CallsStay
    <2> QED
      BY <1>1, <2>1 DEF XrefsAt, XrefOf, SameCode
  <1>8. CallsOK'
    <2>1. callees = CallTargets(entry) /\ IsFiniteSet(callees)
      BY <1>1, <1>3 DEF CallsOK, CallsAt, CallTargets
    <2> QED
      BY <1>1, <1>6, <1>7, <2>1 DEF CallsOK
  <1>9. XrefsOK'
    <2>1. Range(xrefs) = ListedXrefs \cup XrefsAt(Body(entry)) /\ xrefs \in Seq(Range(xrefs))
      BY <1>1, <1>3 DEF XrefsOK
    <2>2. ListedXrefs' = ListedXrefs
      BY <1>1, XrefsStay
    <2>3. (XrefsAt(Body(entry)))' = XrefsAt(Body(entry))
      BY <1>1, <1>6, <1>7
    <2> QED
      BY <1>1, <2>1, <2>2, <2>3 DEF XrefsOK
  <1> QED
    BY <1>1, <1>4, <1>5, <1>8, <1>9

\* A round of finalize's loop.
LEMMA SplitResult ==
  ASSUME ResultInv, Split
  PROVE  ResultInv'
  <1> USE DEF ResultInv
  <1>1. /\ phase = "split" /\ phase' = "split" /\ SameCode
        /\ UNCHANGED <<seeds, work, queued, functions, analyzed, entry, xrefs, callees>>
    BY DEF Split, SameCode, outer
  <1>2. AnalyzerInv' /\ BuilderOK'
    BY NextInv, SplitBuilder DEF Next
  <1>3. OuterOK' /\ GraphOK' /\ CodeOK'
    BY <1>1, OuterStays, GraphStays, CodeStays
  <1>4. PICK e \in Nat : e = entry
    BY <1>1 DEF BuilderOK
  <1>5. CallTargets(e)' = CallTargets(e) /\ (XrefsAt(Body(e)))' = XrefsAt(Body(e))
    <2>1. Body(e)' = Body(e) /\ CallTargets(e)' = CallTargets(e)
      BY <1>1, CallsStay
    <2> QED
      BY <1>1, <2>1 DEF XrefsAt, XrefOf, SameCode
  <1>6. CallsOK'
    BY <1>1, <1>4, <1>5 DEF CallsOK
  <1>7. XrefsOK'
    <2>1. Range(xrefs) = ListedXrefs \cup XrefsAt(Body(entry)) /\ xrefs \in Seq(Range(xrefs))
      BY <1>1 DEF XrefsOK
    <2>2. ListedXrefs' = ListedXrefs
      BY <1>1, XrefsStay
    <2>3. (XrefsAt(Body(entry)))' = XrefsAt(Body(entry))
      BY <1>1, <1>4, <1>5
    <2> QED
      BY <1>1, <2>1, <2>2, <2>3 DEF XrefsOK
  <1> QED
    BY <1>1, <1>2, <1>3, <1>6, <1>7

\* An iteration of build's loop.
LEMMA TraceResult ==
  ASSUME ResultInv, TraceBlock
  PROVE  ResultInv'
  <1> USE DEF ResultInv
  <1>1. /\ phase = "trace" /\ phase' = "trace" /\ SameCode
        /\ UNCHANGED <<seeds, work, queued, functions, analyzed, entry>>
    BY DEF TraceBlock, SameCode, outer
  <1>2. AnalyzerInv' /\ BuilderOK' /\ CallsOK' /\ XrefsOK'
    BY NextInv, TraceBuilder, TraceCalls, TraceXrefs DEF Next
  <1>3. OuterOK' /\ GraphOK' /\ CodeOK'
    BY <1>1, OuterStays, GraphStays, CodeStays
  <1> QED
    BY <1>1, <1>2, <1>3

-----------------------------------------------------------------------------
(* The queue of entries.                                                     *)

\* Taking an entry off the queue.
LEMMA TailFacts ==
  ASSUME NEW q \in Seq(Nat), q # << >>
  PROVE  /\ Head(q) \in Range(q) /\ Head(q) \in Nat
         /\ Tail(q) \in Seq(Nat) /\ Range(Tail(q)) \subseteq Range(q)
         /\ Range(q) \subseteq {Head(q)} \cup Range(Tail(q))
  <1>1. Head(q) \in Range(q) /\ Head(q) \in Nat
    <2>1. 1 \in DOMAIN q /\ Head(q) = q[1] /\ q[1] \in Nat
      OBVIOUS
    <2> QED
      BY <2>1 DEF Range
  <1>2. Range(Tail(q)) \subseteq Range(q)
    <2> SUFFICES ASSUME NEW i \in DOMAIN Tail(q) PROVE Tail(q)[i] \in Range(q)
      BY DEF Range
    <2>1. i + 1 \in DOMAIN q /\ Tail(q)[i] = q[i + 1]
      OBVIOUS
    <2> QED
      BY <2>1 DEF Range
  <1> QED
    BY <1>1, <1>2, RangeTail

\* The same code has the same call graph below the seeds.
LEMMA SeedsStay ==
  ASSUME SameCode, CodeOK, OuterOK, seeds' = seeds
  PROVE  (Closure(Range(seeds) \ {0}, CallTargets))' = Closure(Range(seeds) \ {0}, CallTargets)
  <1>1. PICK S : S = Range(seeds) \ {0}
    OBVIOUS
  <1>2. S \in SUBSET Nat
    BY <1>1 DEF OuterOK, Range
  <1>3. (Closure(S, CallTargets))' = Closure(S, CallTargets)
    BY <1>2, CallGraphStays
  <1>4. (Range(seeds) \ {0})' = S
    BY <1>1 DEF Range
  <1> QED
    BY <1>1, <1>3, <1>4

\* A new builder has found nothing yet.
LEMMA NewBuilder ==
  ASSUME SameCode, CodeOK, NEW e \in Nat \ {0}, phase' = "trace", entry' = e,
         leaders' = {e}, seen' = {e}, blocks' = << >>
  PROVE  BuilderOK'
  <1>1. PICK bs, ls : bs = blocks' /\ ls = leaders'
    OBVIOUS
  <1>2. DOMAIN bs = {}
    BY <1>1
  <1>3. Proper(bs, ls, e)'
    BY <1>2 DEF Proper
  <1>4. e \in (Closure({e}, Succs))'
    BY ClosureOfCode, ClosureStays
  <1>5. IsFiniteSet(DOMAIN bs)
    BY <1>2, FS_EmptySet
  <1> QED
    BY <1>1, <1>2, <1>3, <1>4, <1>5 DEF BuilderOK

\* The head of analyze's loop.
LEMMA PickResult ==
  ASSUME ResultInv, PickEntry
  PROVE  ResultInv'
  <1> USE DEF ResultInv
  <1>1. PICK e : e = Head(work)
    OBVIOUS
  <1>2. /\ phase = "pick" /\ work # << >> /\ work' = Tail(work) /\ SameCode
        /\ UNCHANGED <<seeds, queued, functions, xrefs>>
    BY DEF PickEntry, SameCode
  <1>3. work \in Seq(Nat)
    BY DEF OuterOK
  <1>4. /\ e \in Range(work) /\ e \in Nat /\ work' \in Seq(Nat)
        /\ Range(work') \subseteq Range(work) /\ Range(work) \subseteq {e} \cup Range(work')
    BY <1>1, <1>2, <1>3, TailFacts
  <1>5. AnalyzerInv' /\ CodeOK'
    BY <1>2, NextInv, CodeStays DEF Next
  <1>6. OuterOK'
    <2>1. \A f \in Range(functions) : Listed(f)'
      BY <1>2, ListedStays DEF OuterOK
    <2> QED
      BY <1>2, <1>4, <2>1 DEF OuterOK
  <1>7. xrefs \in Seq(Range(xrefs)) /\ Range(xrefs) = ListedXrefs /\ ListedXrefs' = ListedXrefs
    BY <1>2, XrefsStay DEF XrefsOK
  <1>8. (Closure(Range(seeds) \ {0}, CallTargets))' = Closure(Range(seeds) \ {0}, CallTargets)
    BY <1>2, SeedsStay
  <1>9. Range(seeds)' = Range(seeds) /\ Range(functions)' = Range(functions)
    BY <1>2
  <1>10. analyzed = {f.addr : f \in Range(functions)}
    BY <1>2 DEF GraphOK
  <1>11. CASE e = 0 \/ e \in analyzed
    <2>1. phase' = "pick" /\ analyzed' = analyzed
      BY <1>1, <1>2, <1>11 DEF PickEntry
    <2>2. GraphOK'
      BY <1>2, <1>4, <1>8, <1>9, <1>11, <2>1 DEF GraphOK
    <2>3. BuilderOK' /\ CallsOK' /\ XrefsOK'
      BY <1>2, <1>7, <2>1 DEF BuilderOK, CallsOK, XrefsOK
    <2> QED
      BY <1>5, <1>6, <2>1, <2>2, <2>3
  <1>12. CASE e # 0 /\ e \notin analyzed
    <2>1. /\ phase' = "trace" /\ analyzed' = analyzed \cup {e} /\ entry' = e
          /\ leaders' = {e} /\ seen' = {e} /\ blocks' = << >> /\ callees' = {}
      BY <1>1, <1>12 DEF PickEntry
    <2>2. BuilderOK'
      BY <1>2, <1>4, <1>12, <2>1, NewBuilder
    <2>3. GraphOK'
      BY <1>2, <1>4, <1>8, <1>9, <1>10, <1>12, <2>1 DEF GraphOK
    <2>4. Found(blocks)' = {}
      <3>1. PICK bs : bs = blocks'
        OBVIOUS
      <3>2. DOMAIN bs = {}
        BY <2>1, <3>1
      <3> QED
        BY <3>1, <3>2 DEF Found
    <2>5. CallsOK'
      BY <2>1, <2>4, FS_EmptySet DEF CallsOK, CallsAt
    <2>6. XrefsOK'
      <3>1. (XrefsAt(Found(blocks)))' = {}
        BY <2>4 DEF XrefsAt
      <3> QED
        BY <1>2, <1>7, <2>1, <3>1 DEF XrefsOK
    <2> QED
      BY <1>5, <1>6, <2>1, <2>2, <2>3, <2>5, <2>6
  <1> QED
    BY <1>11, <1>12

\* The function publish adds is the code of its entry.
LEMMA BuiltIsListed ==
  ASSUME ResultInv, phase = "split", Splittable = {},
         NEW f, f.addr = entry, f.size = TotalSize(blocks),
         f.blocks = {blocks[a] : a \in DOMAIN blocks}, f.callees = callees
  PROVE  Listed(f)
  <1> USE DEF ResultInv
  <1>1. PICK bs, e : bs = blocks /\ e = entry
    OBVIOUS
  <1>2. /\ e \in Nat \ {0} /\ e \in seen /\ seen \subseteq leaders /\ 0 \notin leaders
        /\ seen \subseteq Closure({e}, Succs) /\ DOMAIN bs \subseteq seen
        /\ IsFiniteSet(DOMAIN bs) /\ Proper(bs, leaders, e)
    BY <1>1 DEF BuilderOK
  <1>3. leaders \subseteq DOMAIN bs
    BY <1>1 DEF AnalyzerInv, LeadersTraced
  <1>4. leaders = DOMAIN bs
    BY <1>2, <1>3
  <1>5. DOMAIN bs \subseteq Nat
    BY <1>2, ClosureOfCode
  <1>6. \A x, l \in DOMAIN bs : ~(x < l /\ l < x + bs[x].size /\ l \in Range(bs[x].instrs))
    <2>1. \A x \in DOMAIN bs : CutsOf(bs[x]) = {} /\ bs[x].addr = x
      BY <1>1, <1>2 DEF Splittable, Proper
    <2> QED
      BY <1>4, <2>1 DEF CutsOf
  <1>7. f.size = TotalSize(bs) /\ f.addr = e /\ f.blocks = {bs[a] : a \in DOMAIN bs}
    BY <1>1
  <1>8. Sound(f)
    <2>1. Proper(bs, DOMAIN bs, e)
      BY <1>2, <1>4
    <2>2. e \in DOMAIN bs /\ 0 \notin DOMAIN bs /\ e \in Nat \ {0} /\ IsFiniteSet(DOMAIN bs)
      BY <1>2, <1>4
    <2> QED
      BY <1>5, <1>6, <1>7, <2>1, <2>2, BlocksAreSound
  <1>9. f.callees = CallTargets(f.addr)
    BY DEF CallsOK
  <1> QED
    BY <1>8, <1>9 DEF Listed

\* A function appended to the result.
LEMMA RangeAppend ==
  ASSUME NEW q, q \in Seq(Range(q)), NEW x
  PROVE  /\ Append(q, x) \in Seq(Range(Append(q, x)))
         /\ Range(Append(q, x)) = Range(q) \cup {x}
         /\ DOMAIN Append(q, x) = DOMAIN q \cup {Len(q) + 1}
         /\ \A i \in DOMAIN q : Append(q, x)[i] = q[i]
         /\ Append(q, x)[Len(q) + 1] = x
  <1>1. PICK S : S = Range(q) \cup {x}
    OBVIOUS
  <1>2. q \in Seq(S) /\ <<x>> \in Seq(S) /\ x \in S
    BY <1>1
  <1>3. PICK r : r = Append(q, x)
    OBVIOUS
  <1>4. /\ r \in Seq(S) /\ Len(r) = Len(q) + 1 /\ Len(q) \in Nat
        /\ DOMAIN r = 1 .. Len(q) + 1 /\ DOMAIN q = 1 .. Len(q)
    BY <1>2, <1>3
  <1>5. (\A i \in DOMAIN q : r[i] = q[i]) /\ r[Len(q) + 1] = x
    BY <1>2, <1>3, <1>4
  <1>6. DOMAIN r = DOMAIN q \cup {Len(q) + 1}
    BY <1>4
  <1>7. Range(r) = S
    BY <1>1, <1>5, <1>6 DEF Range
  <1> QED
    BY <1>1, <1>3, <1>4, <1>5, <1>6, <1>7

\* A sequence over a set is one over a larger set.
LEMMA SeqOfMore ==
  ASSUME NEW D, NEW U, D \subseteq U, NEW q \in Seq(D)
  PROVE  q \in Seq(U)
  OBVIOUS

\* The rest of the loop's body: the function is kept and its callees are queued.
LEMMA PublishResult ==
  ASSUME ResultInv, Publish
  PROVE  ResultInv'
  <1> USE DEF ResultInv
  <1>1. PICK f : f = [addr |-> entry,
                      size |-> MapThenSumSet(LAMBDA a : blocks[a].size, DOMAIN blocks),
                      blocks |-> {blocks[a] : a \in DOMAIN blocks},
                      callees |-> callees]
    OBVIOUS
  <1>2. /\ phase = "split" /\ Splittable = {} /\ phase' = "pick" /\ SameCode
        /\ queued' = queued \cup callees
        /\ UNCHANGED <<seeds, analyzed, xrefs>>
    BY DEF Publish, SameCode
  <1>3. functions' = Append(functions, f)
    BY <1>1, Zenon DEF Publish
  <1>4. f.addr = entry /\ f.blocks = {blocks[a] : a \in DOMAIN blocks} /\ f.callees = callees
    BY <1>1
  <1>5. f.size = TotalSize(blocks)
    <2>1. f.size = MapThenSumSet(LAMBDA a : blocks[a].size, DOMAIN blocks)
      BY <1>1
    <2> QED
      BY <2>1 DEF TotalSize
  <1>6. Listed(f)
    BY <1>2, <1>4, <1>5, BuiltIsListed
  <1>7. PICK q, fs : q = functions /\ fs = functions'
    OBVIOUS
  <1>8. /\ fs \in Seq(Range(fs)) /\ Range(fs) = Range(q) \cup {f}
        /\ DOMAIN fs = DOMAIN q \cup {Len(q) + 1}
        /\ \A i \in DOMAIN q : fs[i] = q[i]
        /\ fs[Len(q) + 1] = f
    <2>1. q \in Seq(Range(q))
      BY <1>7 DEF OuterOK
    <2> QED
      BY <1>3, <1>7, <2>1, RangeAppend
  <1>9. entry \in Nat \ {0} /\ callees = CallTargets(entry) /\ IsFiniteSet(callees)
    BY <1>2 DEF BuilderOK, CallsOK
  <1>10. callees \subseteq Nat
    BY <1>9, CallsFacts
  <1>11. work' \in Seq(Nat) /\ Range(work') = Range(work) \cup (callees \ queued)
    <2>1. PICK D, w : D = callees \ queued /\ w = work
      OBVIOUS
    <2>2. IsFiniteSet(D)
      BY <1>9, <2>1, FS_Subset
    <2>3. PICK order \in SetToSeqs(D) : work' = w \o order
      BY <2>1 DEF Publish
    <2>4. order \in Seq(D) /\ Range(order) = D
      BY <2>2, <2>3, OrderFacts
    <2>5. order \in Seq(Nat) /\ w \in Seq(Nat)
      <3>1. D \subseteq Nat /\ w \in Seq(Nat)
        BY <1>10, <2>1 DEF OuterOK
      <3>2. PICK r : r = order /\ r \in Seq(D)
        BY <2>4
      <3>3. r \in Seq(Nat)
        BY <3>1, <3>2, SeqOfMore
      <3> QED
        BY <3>1, <3>2, <3>3
    <2>6. w \o order \in Seq(Nat) /\ Range(w \o order) = Range(w) \cup Range(order)
      BY <2>5, RangeOfConcat
    <2> QED
      BY <2>1, <2>3, <2>4, <2>6
  <1>12. AnalyzerInv' /\ CodeOK'
    BY <1>2, NextInv, CodeStays DEF Next
  <1>13. BuilderOK' /\ CallsOK'
    BY <1>2 DEF BuilderOK, CallsOK
  <1>14. OuterOK'
    <2>1. \A g \in Range(fs) : Listed(g)'
      BY <1>2, <1>6, <1>7, <1>8, ListedStays DEF OuterOK
    <2>2. queued' \subseteq Nat
      BY <1>2, <1>10 DEF OuterOK
    <2> QED
      BY <1>2, <1>7, <1>8, <1>11, <2>1, <2>2 DEF OuterOK
  <1>15. XrefsOK'
    <2>1. xrefs \in Seq(Range(xrefs)) /\ Range(xrefs) = ListedXrefs \cup XrefsAt(Body(f.addr))
      BY <1>2, <1>4 DEF XrefsOK
    <2>2. \A g \in Range(fs) : (XrefsAt(Body(g.addr)))' = XrefsAt(Body(g.addr))
      BY <1>2, <1>6, <1>7, <1>8, ListedStays DEF OuterOK
    <2>3. ListedXrefs' = UNION {XrefsAt(Body(g.addr)) : g \in Range(fs)}
      BY <1>7, <2>2 DEF ListedXrefs
    <2>4. ListedXrefs' = ListedXrefs \cup XrefsAt(Body(f.addr))
      BY <1>7, <1>8, <2>3 DEF ListedXrefs
    <2> QED
      BY <1>2, <2>1, <2>4 DEF XrefsOK
  <1>16. PICK C : C = Closure(Range(seeds) \ {0}, CallTargets)
    OBVIOUS
  <1>17. (Closure(Range(seeds) \ {0}, CallTargets))' = C
    BY <1>2, <1>16, SeedsStay
  <1>18. callees \subseteq C
    <2>1. entry \in C
      BY <1>2, <1>9, <1>16 DEF GraphOK
    <2>0. PICK S : S = Range(seeds) \ {0}
      OBVIOUS
    <2>2. S = Range(seeds) \ {0} /\ S \in SUBSET Nat
      BY <2>0 DEF OuterOK, Range
    <2>3. IsReach(C, S, CallsOf)
      BY <1>16, <2>2, CallGraphIsReach
    <2>4. CallsOf[entry] \subseteq C
      BY <2>1, <2>3 DEF IsReach
    <2> QED
      BY <1>9, <2>4 DEF CallsOf
  <1>19. GraphOK'
    <2>1. Range(seeds)' = Range(seeds)
      BY <1>2
    <2>2. (Range(seeds))' \subseteq queued' /\ queued' \ {0} \subseteq C
      BY <1>2, <1>16, <1>18, <2>1 DEF GraphOK
    <2>3. Range(work') \subseteq queued' /\ queued' \subseteq Range(work') \cup analyzed' \cup {0}
      BY <1>2, <1>11 DEF GraphOK
    <2>4. analyzed' = {g.addr : g \in Range(fs)}
      <3>1. analyzed = {g.addr : g \in Range(q)} \cup {f.addr}
        BY <1>2, <1>4, <1>7 DEF GraphOK
      <3>2. {g.addr : g \in Range(fs)} = {g.addr : g \in Range(q)} \cup {f.addr}
        BY <1>8
      <3> QED
        BY <1>2, <3>1, <3>2
    <2>5. \A g \in Range(fs) : g.callees \subseteq queued'
      BY <1>2, <1>4, <1>7, <1>8 DEF GraphOK
    <2>6. \A i, j \in DOMAIN fs : i # j => fs[i].addr # fs[j].addr
      <3>1. \A i \in DOMAIN q : q[i].addr # f.addr
        BY <1>2, <1>4, <1>7 DEF GraphOK, Range
      <3>2. \A i, j \in DOMAIN q : i # j => q[i].addr # q[j].addr
        BY <1>7 DEF GraphOK
      <3> QED
        BY <1>8, <3>1, <3>2
    <2> QED
      BY <1>2, <1>7, <1>17, <2>2, <2>3, <2>4, <2>5, <2>6 DEF GraphOK
  <1> QED
    BY <1>2, <1>12, <1>13, <1>14, <1>15, <1>19

\* The final sort only reorders the functions, whose addresses differ.
LEMMA SortedFunctions ==
  ASSUME NEW q, q \in Seq(Range(q)), NEW order \in SetToSeqs(DOMAIN q), NEW fs,
         fs = [i \in DOMAIN q |-> q[order[i]]]
  PROVE  /\ fs \in Seq(Range(fs)) /\ Range(fs) = Range(q) /\ DOMAIN fs = DOMAIN q
         /\ \A i \in DOMAIN q : order[i] \in DOMAIN q
         /\ \A i, j \in DOMAIN q : i # j => order[i] # order[j]
  <1>1. PICK n \in Nat : n = Len(q) /\ DOMAIN q = 1 .. n
    OBVIOUS
  <1>2. IsFiniteSet(1 .. n) /\ Cardinality(1 .. n) = n
    <2>1. PICK one \in Nat : one = 1
      OBVIOUS
    <2>2. IsFiniteSet(one .. (one + n - 1)) /\ Cardinality(one .. (one + n - 1)) = n
      BY SizeOfInterval
    <2>3. one + n - 1 = n
      BY <2>1
    <2> QED
      BY <2>1, <2>2, <2>3
  <1>3. /\ Range(order) = 1 .. n /\ DOMAIN order = 1 .. n
        /\ \A i, j \in 1 .. n : i # j => order[i] # order[j]
    <2>1. PICK D : D = 1 .. n
      OBVIOUS
    <2>2. IsFiniteSet(D) /\ Cardinality(D) = n /\ order \in SetToSeqs(D)
      BY <1>1, <1>2, <2>1
    <2>3. /\ Range(order) = D /\ DOMAIN order = 1 .. n
          /\ \A i, j \in DOMAIN order : i # j => order[i] # order[j]
      BY <2>2, OrderFacts
    <2> QED
      BY <2>1, <2>3
  <1>4. \A i \in 1 .. n : order[i] \in 1 .. n
    BY <1>3 DEF Range
  <1>5. Range(fs) = Range(q)
    <2>1. \A i \in 1 .. n : \E j \in 1 .. n : order[j] = i
      BY <1>3 DEF Range
    <2> QED
      BY <1>1, <1>4, <2>1 DEF Range
  <1>6. fs \in Seq(Range(fs))
    <2>1. PICK S : S = Range(fs)
      OBVIOUS
    <2>2. \A i \in 1 .. n : fs[i] \in S
      BY <1>1, <2>1 DEF Range
    <2>3. fs \in [1 .. n -> S]
      BY <1>1, <2>2
    <2> QED
      BY <1>1, <2>1, <2>3
  <1> QED
    BY <1>1, <1>3, <1>4, <1>5, <1>6

\* The end of analyze.
LEMMA FinishResult ==
  ASSUME ResultInv, Finish
  PROVE  ResultInv'
  <1> USE DEF ResultInv
  <1>1. /\ phase = "pick" /\ work = << >> /\ phase' = "done" /\ SameCode
        /\ UNCHANGED <<seeds, work, queued, analyzed, xrefs>>
    BY DEF Finish, SameCode
  <1>2. PICK q, fs : q = functions /\ fs = functions'
    OBVIOUS
  <1>3. PICK order \in SetToSeqs(DOMAIN q) :
          /\ \A i, j \in DOMAIN q : i < j => q[order[i]].addr <= q[order[j]].addr
          /\ fs = [i \in DOMAIN q |-> q[order[i]]]
    BY <1>2 DEF Finish
  <1>4. /\ fs \in Seq(Range(fs)) /\ Range(fs) = Range(q) /\ DOMAIN fs = DOMAIN q
        /\ \A i \in DOMAIN q : order[i] \in DOMAIN q
        /\ \A i, j \in DOMAIN q : i # j => order[i] # order[j]
    <2>1. q \in Seq(Range(q))
      BY <1>2 DEF OuterOK
    <2> QED
      BY <1>3, <2>1, SortedFunctions
  <1>5. AnalyzerInv' /\ CodeOK'
    BY <1>1, NextInv, CodeStays DEF Next
  <1>6. BuilderOK' /\ CallsOK'
    BY <1>1 DEF BuilderOK, CallsOK
  <1>7. \A f \in Range(q) : /\ Listed(f)' /\ Listed(f)
                            /\ (XrefsAt(Body(f.addr)))' = XrefsAt(Body(f.addr))
    BY <1>1, <1>2, ListedStays DEF OuterOK
  <1>8. OuterOK'
    BY <1>1, <1>2, <1>4, <1>7 DEF OuterOK
  <1>9. XrefsOK'
    <2>1. xrefs \in Seq(Range(xrefs)) /\ Range(xrefs) = ListedXrefs
      BY <1>1 DEF XrefsOK
    <2>2. ListedXrefs' = ListedXrefs
      BY <1>2, <1>4, <1>7 DEF ListedXrefs
    <2> QED
      BY <1>1, <2>1, <2>2 DEF XrefsOK
  <1>10. \A i, j \in DOMAIN q : i # j => q[i].addr # q[j].addr
    BY <1>2 DEF GraphOK
  <1>11. \A i, j \in DOMAIN fs : i # j => fs[i].addr # fs[j].addr
    BY <1>3, <1>4, <1>10
  <1>12. \A i, j \in DOMAIN fs : i < j => fs[i].addr < fs[j].addr
    <2> SUFFICES ASSUME NEW i \in DOMAIN fs, NEW j \in DOMAIN fs, i < j
                 PROVE  fs[i].addr < fs[j].addr
      OBVIOUS
    <2>1. i # j
      <3>1. PICK n \in Nat : DOMAIN fs = 1 .. n
        BY <1>4
      <3> QED
        BY <3>1
    <2>2. fs[i].addr <= fs[j].addr /\ fs[i].addr # fs[j].addr
      BY <1>3, <1>4, <1>11, <2>1
    <2>3. fs[i].addr \in Nat /\ fs[j].addr \in Nat
      <3>1. fs[i] \in Range(q) /\ fs[j] \in Range(q)
        BY <1>4 DEF Range
      <3> QED
        BY <1>7, <3>1 DEF Listed, Sound
    <2> QED
      BY <2>2, <2>3
  <1>13. GraphOK'
    <2>1. (Closure(Range(seeds) \ {0}, CallTargets))' = Closure(Range(seeds) \ {0}, CallTargets)
      BY <1>1, SeedsStay
    <2>2. Range(seeds)' = Range(seeds) /\ Range(work)' = Range(work)
      BY <1>1
    <2> QED
      BY <1>1, <1>2, <1>4, <1>11, <1>12, <2>1, <2>2 DEF GraphOK
  <1> QED
    BY <1>1, <1>5, <1>6, <1>8, <1>9, <1>13

\* A step that changes nothing.
LEMMA StutterResult ==
  ASSUME ResultInv, UNCHANGED vars
  PROVE  ResultInv'
  <1> USE DEF ResultInv
  <1>1. /\ SameCode /\ UNCHANGED builder
        /\ UNCHANGED <<phase, seeds, work, queued, analyzed, functions, xrefs,
                       entry, leaders, blocks, seen, callees>>
    BY DEF vars, outer, builder, SameCode
  <1>2. AnalyzerInv' /\ CodeOK'
    BY <1>1, NextInv, CodeStays
  <1>3. BuilderOK'
    <2>1. CASE phase \in {"trace", "split"}
      BY <1>1, <2>1, BuilderStays
    <2>2. CASE phase \notin {"trace", "split"}
      BY <1>1, <2>2 DEF BuilderOK
    <2> QED
      BY <2>1, <2>2
  <1>4. OuterOK'
    BY <1>1, OuterStays
  <1>5. phase = "split" => CallTargets(entry)' = CallTargets(entry)
                           /\ (XrefsAt(Body(entry)))' = XrefsAt(Body(entry))
    <2> SUFFICES ASSUME phase = "split"
                 PROVE  CallTargets(entry)' = CallTargets(entry)
                        /\ (XrefsAt(Body(entry)))' = XrefsAt(Body(entry))
      OBVIOUS
    <2>1. PICK e \in Nat : e = entry
      BY DEF BuilderOK
    <2>2. Body(e)' = Body(e) /\ CallTargets(e)' = CallTargets(e)
      BY <1>1, CallsStay
    <2> QED
      BY <1>1, <2>1, <2>2 DEF XrefsAt, XrefOf, SameCode
  <1>6. Found(blocks)' = Found(blocks) /\ (CallsAt(Found(blocks)))' = CallsAt(Found(blocks))
        /\ (XrefsAt(Found(blocks)))' = XrefsAt(Found(blocks))
    <2>1. PICK F : F = Found(blocks)
      OBVIOUS
    <2>2. Found(blocks)' = F
      BY <1>1, <2>1 DEF Found
    <2>3. (CallsAt(F))' = CallsAt(F) /\ (XrefsAt(F))' = XrefsAt(F)
      BY <1>1, AtStay
    <2> QED
      BY <2>1, <2>2, <2>3 DEF CallsAt, XrefsAt
  <1>7. CallsOK'
    BY <1>1, <1>5, <1>6 DEF CallsOK
  <1>8. XrefsOK'
    <2>1. ListedXrefs' = ListedXrefs
      BY <1>1, XrefsStay
    <2> QED
      BY <1>1, <1>5, <1>6, <2>1 DEF XrefsOK
  <1>9. GraphOK'
    <2>1. (Closure(Range(seeds) \ {0}, CallTargets))' = Closure(Range(seeds) \ {0}, CallTargets)
      BY <1>1, SeedsStay
    <2>2. /\ Range(seeds)' = Range(seeds) /\ Range(work)' = Range(work)
          /\ Range(functions)' = Range(functions)
      BY <1>1
    <2> QED
      BY <1>1, <2>1, <2>2 DEF GraphOK
  <1> QED
    BY <1>1, <1>2, <1>3, <1>4, <1>7, <1>8, <1>9

\* The entry points are addresses.
LEMMA SeedsFacts ==
  ASSUME NEW pc \in Nat, NEW symbols \in SymbolSets,
         NEW s \in LiveSeeds(pc, symbols) \cup StaticSeeds(pc, symbols)
  PROVE  s \in Seq(Nat)
  <1>1. symbols \subseteq Nat /\ IsFiniteSet(symbols)
    BY AnalyzerAssumption
  <1>2. PICK order \in SetToSeqs(symbols) : s = <<pc>> \o order \/ s = << >> \o order
    BY DEF LiveSeeds, StaticSeeds
  <1>3. order \in Seq(symbols)
    BY <1>1, OrderFacts
  <1>4. order \in Seq(Nat)
    BY <1>1, <1>3, SeqOfMore
  <1>5. PICK q, one, none : q = order /\ one = <<pc>> /\ none = << >>
    OBVIOUS
  <1>6. q \in Seq(Nat) /\ one \in Seq(Nat) /\ none \in Seq(Nat)
    BY <1>4, <1>5
  <1>7. s = one \o q \/ s = none \o q
    BY <1>2, <1>5
  <1>8. one \o q \in Seq(Nat) /\ none \o q \in Seq(Nat)
    BY <1>6, RangeOfConcat
  <1> QED
    BY <1>7, <1>8

\* The invariant holds before the loop starts.
LEMMA InitResult ==
  ASSUME Init
  PROVE  ResultInv
  <1>1. /\ CodeOK /\ phase = "pick" /\ work = seeds /\ queued = Range(seeds)
        /\ analyzed = {} /\ functions = << >> /\ xrefs = << >>
    BY DEF Init, CodeOK
  <1>2. seeds \in Seq(Nat)
    <2>1. PICK pc \in Pcs, symbols \in SymbolSets :
            seeds \in LiveSeeds(pc, symbols) \cup StaticSeeds(pc, symbols)
      BY DEF Init
    <2>2. PICK s : s = seeds
      OBVIOUS
    <2>3. pc \in Nat
      BY AnalyzerAssumption
    <2> QED
      BY <2>1, <2>2, <2>3, SeedsFacts
  <1>3. Range(functions) = {} /\ Range(xrefs) = {} /\ DOMAIN functions = {}
    BY <1>1 DEF Range
  <1>4. functions \in Seq(Range(functions)) /\ xrefs \in Seq(Range(xrefs))
    BY <1>1
  <1>5. Range(seeds) \subseteq Nat
    BY <1>2 DEF Range
  <1>6. AnalyzerInv /\ BuilderOK /\ CallsOK
    BY <1>1 DEF AnalyzerInv, QueueComplete, LeadersTraced, BuilderOK, CallsOK
  <1>7. OuterOK
    BY <1>1, <1>2, <1>3, <1>4, <1>5 DEF OuterOK
  <1>8. XrefsOK
    BY <1>1, <1>3, <1>4 DEF XrefsOK, ListedXrefs
  <1>9. GraphOK
    <2>1. PICK S : S = Range(seeds) \ {0}
      OBVIOUS
    <2>2. S \in SUBSET Nat
      BY <1>5, <2>1
    <2>3. S \subseteq Closure(S, CallTargets)
      BY <1>1, <2>2, CallGraphIsReach DEF IsReach
    <2> QED
      BY <1>1, <1>3, <2>1, <2>3 DEF GraphOK
  <1> QED
    BY <1>1, <1>6, <1>7, <1>8, <1>9 DEF ResultInv

\* Every step keeps the invariant of the analysis.
LEMMA NextResult == ResultInv /\ [Next]_vars => ResultInv'
  <1> SUFFICES ASSUME ResultInv, [Next]_vars PROVE ResultInv'
    OBVIOUS
  <1>1. CASE TraceBlock
    BY <1>1, TraceResult
  <1>2. CASE StartFinalize
    BY <1>2, FinalizeInv
  <1>3. CASE Split
    BY <1>3, SplitResult
  <1>4. CASE PickEntry
    BY <1>4, PickResult
  <1>5. CASE Publish
    BY <1>5, PublishResult
  <1>6. CASE Finish
    BY <1>6, FinishResult
  <1>7. CASE UNCHANGED vars
    BY <1>7, StutterResult
  <1> QED
    BY <1>1, <1>2, <1>3, <1>4, <1>5, <1>6, <1>7 DEF Next

-----------------------------------------------------------------------------
(* The result of analyze.                                                    *)

\* The blocks of every function analyze returns hold exactly the instructions
\* reachable from its entry without following calls (FunctionBuilder::build and
\* finalize: no block queued once and skipped, and no tail split_block drops,
\* loses code).
THEOREM FunctionsAreCode == Spec => []Coverage
  <1>1. ResultInv => Coverage
    BY DEF ResultInv, OuterOK, Listed, Sound, Coverage, Result
  <1>2. Init => ResultInv
    BY InitResult
  <1> QED
    BY <1>1, <1>2, NextResult, PTL DEF Spec

\* The blocks of every function analyze returns are its control-flow graph: each
\* edge is one the last instruction takes and leads to a block, a block is entered
\* at its first instruction and left at its last, and where no two instructions
\* overlap the blocks partition the code and the function's size is its bytes
\* (trace_block, split_block, finalize; analysis.hpp: single entry, single exit).
THEOREM BlocksAreCfg == Spec => []CfgSound
  <1>1. ResultInv => CfgSound
    <2> SUFFICES ASSUME ResultInv PROVE CfgSound
      OBVIOUS
    <2>1. \A f \in Result : EdgesOf(f) /\ EntriesOf(f) /\ PartitionOf(f)
      BY DEF ResultInv, OuterOK, Listed, Sound, Result
    <2>2. EdgesFollowCode
      BY <2>1 DEF EdgesFollowCode, EdgesOf
    <2>3. SingleEntrySingleExit
      BY <2>1 DEF SingleEntrySingleExit, EntriesOf
    <2>4. BlocksPartition
      BY <2>1 DEF BlocksPartition, PartitionOf
    <2> QED
      BY <2>2, <2>3, <2>4 DEF CfgSound
  <1>2. Init => ResultInv
    BY InitResult
  <1> QED
    BY <1>1, <1>2, NextResult, PTL DEF Spec

\* When analyze returns, its functions are those of the call graph below the
\* seeds, each once and in address order, and its references are exactly those of
\* their branches and calls (Analyzer::analyze's entry queue and final sort,
\* trace_block's references).
THEOREM ResultIsCallGraph == Spec => []ReferencesSound
  <1>1. ResultInv => ReferencesSound
    <2> SUFFICES ASSUME ResultInv, phase = "done" PROVE ReferencesSound
      BY DEF ReferencesSound, WholeCallGraph, XrefsExact
    <2> USE DEF ResultInv
    <2>1. PICK S, C, D : /\ S = Range(seeds) \ {0} /\ C = Closure(S, CallTargets)
                         /\ D = {f.addr : f \in Range(functions)}
      OBVIOUS
    <2>2. S \in SUBSET Nat
      BY <2>1 DEF OuterOK, Range
    <2>3. IsReach(C, S, CallsOf)
      BY <2>1, <2>2, CallGraphIsReach
    <2>4. Range(work) = {}
      BY DEF GraphOK, Range
    <2>5. queued \subseteq D \cup {0} /\ S \subseteq queued /\ queued \ {0} \subseteq C
      BY <2>1, <2>4 DEF GraphOK
    <2>6. \A f \in Range(functions) :
            f.addr \in Nat \ {0} /\ f.callees = CallTargets(f.addr) /\ f.callees \subseteq queued
      BY DEF OuterOK, Listed, Sound, GraphOK
    <2>7. D = C
      <3>1. D \subseteq Nat /\ S \subseteq D
        BY <2>1, <2>5, <2>6
      <3>2. \A a \in D : CallsOf[a] \subseteq D
        <4> SUFFICES ASSUME NEW a \in D PROVE CallsOf[a] \subseteq D
          OBVIOUS
        <4>1. CallTargets(a) \subseteq queued /\ a \in Nat
          BY <2>1, <2>6
        <4>2. CallTargets(a) \subseteq Nat \ {0}
          BY <4>1, CallsFacts
        <4> QED
          BY <2>5, <4>1, <4>2 DEF CallsOf
      <3>3. C \subseteq D
        BY <2>3, <3>1, <3>2 DEF IsReach
      <3>4. D \subseteq C
        <4>1. D \subseteq queued \ {0}
          BY <2>1, <2>6 DEF GraphOK
        <4> QED
          BY <2>5, <4>1
      <3> QED
        BY <3>3, <3>4
    <2>8. \A i \in 1 .. Len(functions) - 1 : functions[i].addr < functions[i + 1].addr
      <3>1. \A i, j \in DOMAIN functions : i < j => functions[i].addr < functions[j].addr
        BY DEF GraphOK
      <3>2. PICK n \in Nat : n = Len(functions) /\ DOMAIN functions = 1 .. n
        BY DEF OuterOK
      <3>3. \A i \in 1 .. n - 1 : i \in 1 .. n /\ i + 1 \in 1 .. n /\ i < i + 1
        OBVIOUS
      <3> QED
        BY <3>1, <3>2, <3>3
    <2>9. WholeCallGraph
      BY <2>1, <2>7, <2>8 DEF WholeCallGraph
    <2>10. XrefsExact
      BY DEF XrefsOK, XrefsExact, ListedXrefs, XrefsAt, XrefOf
    <2> QED
      BY <2>9, <2>10 DEF ReferencesSound
  <1>2. Init => ResultInv
    BY InitResult
  <1> QED
    BY <1>1, <1>2, NextResult, PTL DEF Spec
=============================================================================
