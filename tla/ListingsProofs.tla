---------------------------- MODULE ListingsProofs ----------------------------
(***************************************************************************)
(* Theorems about one session behind the C ABI, for any files, load        *)
(* addresses, stacks and lengths.                                          *)
(***************************************************************************)
EXTENDS Listings, SequenceTheorems, FiniteSetTheorems, NaturalsInduction,
        WellFoundedInduction, TLAPS

-----------------------------------------------------------------------------
(* Loops                                                                     *)

\* The least-number principle, from the library's well-founded minimum.
LEMMA LeastNatural ==
  ASSUME NEW S \in SUBSET Nat, S # {}
  PROVE  \E m \in S : \A k \in S : m <= k
  <1>1. PICK R : IsWellFoundedOn(R, Nat) /\ \A x, y \in Nat : y < x => <<y, x>> \in R
    <2>1. \A x, y \in Nat : y < x => <<y, x>> \in OpToRel(<, Nat)
      BY DEF OpToRel
    <2> QED
      BY <2>1, NatLessThanWellFounded
  <1>2. PICK m \in S : \A k \in S : ~(<<k, m>> \in R)
    BY <1>1, WFMin
  <1>3. \A k \in S : ~(k < m)
    BY <1>1, <1>2
  <1> QED
    BY <1>3

\* Induction, for a set: one that holds zero and each successor is all of Nat.
LEMMA Counting ==
  ASSUME NEW T \in SUBSET Nat, 0 \in T, \A n \in T : n + 1 \in T
  PROVE  T = Nat
  <1> SUFFICES ASSUME Nat \ T # {} PROVE FALSE
    OBVIOUS
  <1>1. PICK m \in Nat \ T : \A k \in Nat \ T : m <= k
    BY LeastNatural
  <1>2. m # 0 /\ m - 1 \in Nat /\ ~(m <= m - 1)
    BY <1>1
  <1>3. m - 1 \in T
    BY <1>1, <1>2
  <1>4. (m - 1) + 1 \in T /\ (m - 1) + 1 = m
    BY <1>3
  <1> QED
    BY <1>1, <1>4

\* The states of a loop: at its start and after each of n turns.
IsRun(f, S, start, turn, n) ==
  /\ f \in [0 .. n -> S] /\ f[0] = start
  /\ \A k \in 1 .. n : f[k] = turn[<<k, f[k - 1]>>]

\* A loop of n turns has a state after each of them.
LEMMA LoopStates ==
  ASSUME NEW S, NEW start \in S, NEW turn \in [Nat \X S -> S]
  PROVE  \A n \in Nat : \E f : IsRun(f, S, start, turn, n)
  <1> DEFINE Run(n, f) == f[0] = start /\ \A k \in 1 .. n : f[k] = turn[<<k, f[k - 1]>>]
             T == {n \in Nat : \E f \in [0 .. n -> S] : Run(n, f)}
  <1>1. 0 \in T
    <2>1. [k \in 0 .. 0 |-> start] \in [0 .. 0 -> S] /\ Run(0, [k \in 0 .. 0 |-> start])
      OBVIOUS
    <2> QED
      BY <2>1
  <1>2. ASSUME NEW n \in T PROVE n + 1 \in T
    <2>1. PICK f \in [0 .. n -> S] : Run(n, f)
      OBVIOUS
    <2>2. PICK x : x = turn[<<n + 1, f[n]>>] /\ x \in S
      <3>1. n \in 0 .. n /\ n + 1 \in Nat /\ f[n] \in S
        OBVIOUS
      <3>2. <<n + 1, f[n]>> \in Nat \X S
        BY <3>1
      <3> QED
        BY <3>2
    <2>3. PICK g : g = [k \in 0 .. n + 1 |-> IF k = n + 1 THEN x ELSE f[k]]
      OBVIOUS
    <2>4. g \in [0 .. n + 1 -> S]
      BY <2>2, <2>3
    <2>5. Run(n + 1, g)
      <3>1. g[0] = start
        BY <2>1, <2>3
      <3>2. ASSUME NEW k \in 1 .. n + 1 PROVE g[k] = turn[<<k, g[k - 1]>>]
        <4>1. k - 1 \in 0 .. n + 1 /\ k - 1 # n + 1 /\ g[k - 1] = f[k - 1]
          BY <2>3
        <4>2. CASE k = n + 1
          BY <2>2, <2>3, <4>1, <4>2
        <4>3. CASE k # n + 1
          BY <2>1, <2>3, <4>1, <4>3
        <4> QED
          BY <4>2, <4>3
      <3> QED
        BY <3>1, <3>2
    <2> QED
      BY <2>4, <2>5
  <1> HIDE DEF T
  <1>3. T = Nat
    BY <1>1, <1>2, Counting DEF T
  <1> QED
    BY <1>3 DEF T, IsRun

-----------------------------------------------------------------------------
(* The backtrace                                                             *)

Frame == [pc : {rip} \cup Nat, frame_ptr : Nat]

\* A chain of frames that starts at rbp and follows the stack upward.
Chain(stack, rows) ==
  \A i \in 2 .. Len(rows) :
    /\ rows[i - 1].frame_ptr < rows[i].frame_ptr
    /\ stack[rows[i - 1].frame_ptr] = [saved_rbp |-> rows[i].frame_ptr, ret_addr |-> rows[i].pc]

\* What the loop has after n turns: a frame for each, or the chain is broken.
Walked(stack, rows, n) ==
  /\ rows \in Seq(Frame) /\ 1 <= Len(rows) /\ Len(rows) <= n + 1
  /\ Chain(stack, rows)
  /\ Len(rows) <= n => Saved(stack, rows[Len(rows)].frame_ptr) = << >>

\* A saved frame is one frame of the stack, or none.
LEMMA SavedFrame ==
  ASSUME NEW stack \in Stacks, NEW fp \in Nat
  PROVE  Saved(stack, fp) \in Seq(Frame)
  <1>1. stack \in [DOMAIN stack -> [saved_rbp : Nat, ret_addr : Nat]]
    BY ListingsAssumption
  <1>2. fp \in DOMAIN stack => [pc |-> stack[fp].ret_addr, frame_ptr |-> stack[fp].saved_rbp] \in Frame
    BY <1>1 DEF Frame
  <1> QED
    BY <1>2 DEF Saved

\* One turn of the loop adds the next frame or finds the chain broken.
LEMMA WalkedTurn ==
  ASSUME NEW stack \in Stacks, NEW n \in Nat, NEW rows, Walked(stack, rows, n)
  PROVE  Walked(stack, rows \o Saved(stack, Last(rows).frame_ptr), n + 1)
  <1> DEFINE fp == rows[Len(rows)].frame_ptr
             next == [pc |-> stack[fp].ret_addr, frame_ptr |-> stack[fp].saved_rbp]
  <1>1. rows \in Seq(Frame) /\ Len(rows) \in 1 .. Len(rows) /\ Last(rows) = rows[Len(rows)]
    BY DEF Walked, Last
  <1>2. fp \in Nat
    <2>1. rows[Len(rows)] \in Frame
      BY <1>1
    <2> QED
      BY <2>1 DEF Frame
  <1>3. stack \in [DOMAIN stack -> [saved_rbp : Nat, ret_addr : Nat]]
    BY ListingsAssumption
  <1>4. CASE Saved(stack, fp) = << >>
    <2>1. rows \o << >> = rows
      BY <1>1
    <2> QED
      BY <1>1, <1>4, <2>1 DEF Walked
  <1>5. CASE Saved(stack, fp) # << >>
    <2>1. /\ fp \in DOMAIN stack /\ fp < stack[fp].saved_rbp
          /\ Saved(stack, fp) = <<next>>
      <3>1. fp \in DOMAIN stack /\ ~(stack[fp].saved_rbp <= fp) /\ Saved(stack, fp) = <<next>>
        BY <1>5 DEF Saved
      <3>2. stack[fp].saved_rbp \in Nat
        BY <1>3, <3>1
      <3> QED
        BY <1>2, <3>1, <3>2
    <2>2. next \in Frame /\ stack[fp] = [saved_rbp |-> next.frame_ptr, ret_addr |-> next.pc]
      <3>1. stack[fp] \in [saved_rbp : Nat, ret_addr : Nat]
        BY <1>3, <2>1
      <3> QED
        BY <3>1 DEF Frame
    <2>3. PICK t : t = rows \o <<next>>
      OBVIOUS
    <2>4. /\ t \in Seq(Frame) /\ Len(t) = Len(rows) + 1
          /\ \A i \in 1 .. Len(rows) : t[i] = rows[i]
          /\ t[Len(rows) + 1] = next
      <3> HIDE DEF next
      <3> QED
        BY <1>1, <2>2, <2>3
    <2>5. Chain(stack, t)
      <3> SUFFICES ASSUME NEW i \in 2 .. Len(t)
                   PROVE  /\ t[i - 1].frame_ptr < t[i].frame_ptr
                          /\ stack[t[i - 1].frame_ptr] = [saved_rbp |-> t[i].frame_ptr, ret_addr |-> t[i].pc]
        BY DEF Chain
      <3>1. CASE i = Len(rows) + 1
        <4>1. t[i] = next /\ t[i - 1].frame_ptr = fp
          BY <1>1, <2>4, <3>1
        <4>2. next.frame_ptr = stack[fp].saved_rbp
          OBVIOUS
        <4> QED
          BY <2>1, <2>2, <4>1, <4>2
      <3>2. CASE i # Len(rows) + 1
        <4>1. i \in 2 .. Len(rows) /\ i - 1 \in 1 .. Len(rows) /\ i \in 1 .. Len(rows)
          BY <1>1, <2>4, <3>2
        <4>2. t[i] = rows[i] /\ t[i - 1] = rows[i - 1]
          BY <2>4, <4>1
        <4> QED
          BY <4>1, <4>2 DEF Walked, Chain
      <3> QED
        BY <3>1, <3>2
    <2>6. Len(rows) = n + 1
      BY <1>1, <1>5 DEF Walked
    <2>7. Walked(stack, t, n + 1)
      BY <2>4, <2>5, <2>6 DEF Walked
    <2> QED
      BY <1>1, <2>1, <2>3, <2>7
  <1> QED
    BY <1>4, <1>5

\* The loop runs to its bound and leaves a walked chain.
LEMMA FramesWalked ==
  ASSUME rbp \in Nat, NEW stack \in Stacks
  PROVE  Walked(stack, FramesOf(stack), MaxBacktraceFrames)
  <1> DEFINE M == MaxBacktraceFrames
             first == <<[pc |-> rip, frame_ptr |-> rbp]>>
             S == {rows \in Seq(Frame) : rows # << >>}
             Turn(rows) == rows \o Saved(stack, Last(rows).frame_ptr)
             IsLoop(f) == f = [n \in 0 .. M |-> IF n = 0 THEN first ELSE Turn(f[n - 1])]
  <1>m. M \in Nat
    BY ListingsAssumption
  <1>1. Walked(stack, first, 0)
    <2>1. [pc |-> rip, frame_ptr |-> rbp] \in Frame
      BY DEF Frame
    <2>2. first \in Seq(Frame) /\ Len(first) = 1
      BY <2>1
    <2> QED
      BY <2>2 DEF Walked, Chain
  <1>2. \E f : IsLoop(f)
    <2>1. ASSUME NEW rows \in S PROVE Turn(rows) \in S
      <3>1. Last(rows) \in Frame
        BY DEF Last
      <3>2. Saved(stack, Last(rows).frame_ptr) \in Seq(Frame)
        BY <3>1, SavedFrame DEF Frame
      <3> QED
        BY <3>2
    <2> DEFINE turn == [x \in Nat \X S |-> Turn(x[2])]
    <2>2. first \in S
      BY <1>1 DEF Walked
    <2> HIDE DEF Turn, first, S, M
    <2>3. turn \in [Nat \X S -> S]
      BY <2>1
    <2> HIDE DEF turn
    <2>4. PICK R, start, t : R = S /\ start = first /\ t = turn
      OBVIOUS
    <2>5. \A n \in Nat : \E f : IsRun(f, R, start, t, n)
      BY <2>2, <2>3, <2>4, LoopStates
    <2>6. PICK f : IsRun(f, R, start, t, M)
      BY <1>m, <2>5
    <2>7. ASSUME NEW k \in 1 .. M PROVE f[k] = Turn(f[k - 1])
      <3>1. k \in Nat /\ k - 1 \in 0 .. M
        BY <1>m
      <3>2. f[k] = t[<<k, f[k - 1]>>] /\ f[k - 1] \in S
        BY <2>4, <2>6, <3>1 DEF IsRun
      <3> QED
        BY <2>4, <3>1, <3>2 DEF turn
    <2>8. f = [n \in 0 .. M |-> IF n = 0 THEN first ELSE Turn(f[n - 1])]
      BY <1>m, <2>4, <2>6, <2>7 DEF IsRun
    <2> QED
      BY <2>8
  <1>3. PICK loop : loop = CHOOSE f : IsLoop(f)
    OBVIOUS
  <1>4. IsLoop(loop)
    <2> HIDE DEF IsLoop
    <2> QED
      BY <1>2, <1>3
  <1>5. FramesOf(stack) = loop[M]
    BY <1>3, Zenon DEF FramesOf
  <1>6. \A k \in 0 .. M : Walked(stack, loop[k], k)
    <2> DEFINE T == {k \in Nat : k <= M => Walked(stack, loop[k], k)}
    <2>1. 0 \in T
      BY <1>1, <1>4, <1>m
    <2>2. ASSUME NEW k \in T PROVE k + 1 \in T
      <3>1. k \in Nat /\ k + 1 \in Nat /\ (k <= M => Walked(stack, loop[k], k))
        OBVIOUS
      <3>2. ASSUME k + 1 <= M PROVE Walked(stack, loop[k + 1], k + 1)
        <4>1. loop[k + 1] = Turn(loop[k])
          <5> HIDE DEF Turn, first, T
          <5>1. k + 1 \in 0 .. M /\ k + 1 # 0 /\ (k + 1) - 1 = k
            BY <1>m, <3>1, <3>2
          <5> QED
            BY <1>4, <5>1
        <4>2. Walked(stack, Turn(loop[k]), k + 1)
          <5>1. Walked(stack, loop[k], k)
            BY <1>m, <3>1, <3>2
          <5> HIDE DEF T
          <5> QED
            BY <3>1, <5>1, WalkedTurn
        <4> QED
          BY <4>1, <4>2
      <3> QED
        BY <3>1, <3>2
    <2> HIDE DEF T
    <2>3. PICK U : U = T /\ U \in SUBSET Nat
      BY DEF T
    <2>4. U = Nat
      BY <2>1, <2>2, <2>3, Counting
    <2> QED
      BY <1>m, <2>3, <2>4 DEF T
  <1> QED
    BY <1>m, <1>5, <1>6

-----------------------------------------------------------------------------
(* The session: what each step leaves alone                                  *)

\* Where the session's bytes come from.
LiveOK ==
  /\ disk \in Files /\ base \in Bases /\ rbp \in Nat
  /\ kind \in {"none", "Static", "Native", "null"}
  /\ kind \in {"Static", "Native"} => disk.parses
  /\ kind = "Native" => Loadable(disk)

\* Every step keeps the file, the load address and the type of the registers.
LEMMA LiveStep == LiveOK /\ [Next]_vars => LiveOK'
  <1> SUFFICES ASSUME LiveOK, [Next]_vars PROVE LiveOK'
    OBVIOUS
  <1>1. CASE UNCHANGED <<kind, live>>
    BY <1>1 DEF LiveOK, live
  <1>2. CASE create_file
    BY <1>2 DEF LiveOK, create_file, live
  <1>3. CASE create_native \/ core_flow
    BY <1>3, ListingsAssumption DEF LiveOK, create_native, core_flow
  <1>4. CASE destroy
    BY <1>4 DEF LiveOK, destroy
  <1>5. \/ create_file \/ create_native \/ core_flow \/ destroy
        \/ UNCHANGED <<kind, live>>
    <2>1. CASE UNCHANGED vars
      BY <2>1 DEF vars
    <2>2. CASE used
      BY <2>2 DEF used
    <2>3. CASE Call
      BY <2>3 DEF Call, scan_buffer, core_registers, core_listing, core_backtrace, core_disasm,
         core_breakpoints, core_binary, core_strings, core_analyze, static_disasm, static_binary,
         static_modules, static_strings, static_analyze, read_memory, functions, function_blocks,
         xrefs_to, inert, null_handle
    <2> QED
      BY <2>1, <2>2, <2>3 DEF Next
  <1> QED
    BY <1>1, <1>2, <1>3, <1>4, <1>5

\* The file, the load address and the registers are typed throughout.
LEMMA LiveInvariant == Spec => []LiveOK
  <1>1. Init => LiveOK
    BY DEF Init, LiveOK
  <1> QED
    BY <1>1, LiveStep, PTL DEF Spec

\* A step either answers nothing, or leaves the answer alone, or is one of these calls.
LEMMA AnswerStep ==
  ASSUME [Next]_vars
  PROVE  \/ answer' = NoAnswer
         \/ UNCHANGED vars
         \/ answer'.op \in {"registers", "modules", "maps", "threads", "breakpoints", "sections",
                            "imports", "exports", "symbols", "analyze", "function_blocks",
                            "xrefs_to", "null"}
         \/ kind' = "Static" /\ answer'.op = "backtrace"
         \/ core_backtrace \/ core_disasm \/ static_disasm \/ read_memory \/ functions
         \/ core_strings \/ static_strings \/ scan_buffer
  <1>1. CASE UNCHANGED vars
    BY <1>1
  <1>2. CASE used
    BY <1>2 DEF used
  <1>3. CASE answer = NoAnswer /\ Call
    <2>1. CASE create_file \/ create_native \/ destroy \/ core_flow
      BY <1>3, <2>1 DEF create_file, create_native, destroy, core_flow
    <2>2. CASE core_registers \/ core_listing \/ core_breakpoints \/ core_binary \/ core_analyze
      BY <2>2 DEF core_registers, core_listing, core_breakpoints, core_binary, core_analyze, Replied
    <2>3. CASE static_binary \/ static_modules \/ static_analyze \/ function_blocks
      BY <2>3 DEF static_binary, static_modules, static_analyze, function_blocks, Replied
    <2>4. CASE xrefs_to
      <3>1. PICK addr, rows : Replied("xrefs_to", addr, rows)
        BY <2>4, Zenon DEF xrefs_to
      <3> QED
        BY <3>1 DEF Replied
    <2>6. CASE null_handle
      BY <2>6 DEF null_handle, Replied
    <2>5. CASE inert
      BY <2>5 DEF inert, Replied
    <2> QED
      BY <1>3, <2>1, <2>2, <2>3, <2>4, <2>5, <2>6 DEF Call
  <1> QED
    BY <1>1, <1>2, <1>3 DEF Next

(***************************************************************************)
(* Whatever the stack holds, a backtrace follows saved frames to strictly  *)
(* higher addresses and stops before the cap only where the chain breaks,  *)
(* for any stack, registers and cap.  (core_backtrace)                     *)
(***************************************************************************)
THEOREM ListingsBacktraceAscends == Spec => []BacktraceAscends
  <1>1. Init => BacktraceAscends
    BY DEF Init, BacktraceAscends, NoAnswer
  <1>2. ASSUME LiveOK, BacktraceAscends, [Next]_vars PROVE BacktraceAscends'
    <2>1. CASE core_backtrace
      <3>1. PICK stack \in Stacks : /\ answer' = [op |-> "backtrace", arg |-> stack, rows |-> FramesOf(stack)]
        BY <2>1 DEF core_backtrace, Replied
      <3>2. PICK rows : rows = FramesOf(stack) /\ Walked(stack, rows, MaxBacktraceFrames)
        BY <1>2, FramesWalked DEF LiveOK
      <3>3. answer'.arg = stack /\ answer'.rows = rows
        BY <3>1, <3>2
      <3>4. 1 <= Len(rows) /\ Len(rows) <= MaxBacktraceFrames + 1
        BY <3>2 DEF Walked
      <3>5. \A i \in 2 .. Len(rows) :
               /\ rows[i - 1].frame_ptr < rows[i].frame_ptr
               /\ stack[rows[i - 1].frame_ptr] = [saved_rbp |-> rows[i].frame_ptr, ret_addr |-> rows[i].pc]
        BY <3>2 DEF Walked, Chain
      <3>6. ASSUME Len(rows) <= MaxBacktraceFrames, NEW last, last = rows[Len(rows)].frame_ptr,
                   last \in DOMAIN stack
            PROVE  stack[last].saved_rbp <= last \/ stack[last].ret_addr = 0
        BY <3>2, <3>6 DEF Walked, Saved
      <3> QED
        BY <3>3, <3>4, <3>5, <3>6 DEF BacktraceAscends
    <2>2. CASE answer' = NoAnswer
      BY <2>2 DEF BacktraceAscends, NoAnswer
    <2>3. CASE UNCHANGED vars
      BY <1>2, <2>3 DEF BacktraceAscends, vars
    <2>4. CASE kind' = "Static"
      BY <2>4 DEF BacktraceAscends
    <2>5. ASSUME answer'.op # "backtrace" PROVE BacktraceAscends'
      BY <2>5 DEF BacktraceAscends
    <2>6. CASE core_disasm \/ static_disasm \/ read_memory \/ functions \/ core_strings
               \/ static_strings \/ scan_buffer
      <3>1. answer'.op # "backtrace"
        BY <2>6 DEF core_disasm, static_disasm, read_memory, functions, core_strings,
           static_strings, scan_buffer, Replied
      <3> QED
        BY <2>5, <3>1
    <2> QED
      BY <1>2, <2>1, <2>2, <2>3, <2>4, <2>5, <2>6, AnswerStep
  <1> QED
    BY <1>1, <1>2, LiveInvariant, PTL DEF Spec

-----------------------------------------------------------------------------
(* The image                                                                 *)

\* The library's Min is what it is called.
LEMMA MinOfSet ==
  ASSUME NEW S \in SUBSET Nat, S # {}
  PROVE  Min(S) \in S /\ \A k \in S : Min(S) <= k
  BY LeastNatural DEF Min

\* The library's Max is what it is called, for a set with a bound.
LEMMA MaxOfSet ==
  ASSUME NEW S \in SUBSET Nat, S # {}, NEW b \in Nat, \A k \in S : k <= b
  PROVE  Max(S) \in S /\ \A k \in S : k <= Max(S)
  <1> DEFINE T == { b - k : k \in S }
  <1>1. T \in SUBSET Nat /\ T # {}
    <2>1. \A k \in S : b - k \in Nat
      OBVIOUS
    <2> QED
      BY <2>1
  <1>2. PICK m \in T : \A x \in T : m <= x
    BY <1>1, LeastNatural
  <1>3. PICK k \in S : m = b - k
    BY <1>2
  <1>4. \A x \in S : x <= k
    <2>1. ASSUME NEW x \in S PROVE x <= k
      <3>1. b - x \in T /\ m <= b - x
        BY <1>2
      <3> QED
        BY <1>3, <3>1
    <2> QED
      BY <2>1
  <1> QED
    BY <1>3, <1>4 DEF Max

\* Rounding up to a multiple of the alignment.
LEMMA RoundedUp ==
  ASSUME NEW n \in Nat, NEW A \in Nat \ {0}
  PROVE  /\ (n + A - 1) \div A \in Nat
         /\ n <= ((n + A - 1) \div A) * A
         /\ ((n + A - 1) \div A) * A <= n + A - 1
  OBVIOUS

\* An address rounded up to whole pages.
LEMMA PageEnd ==
  ASSUME NEW n \in Nat
  PROVE  Aligned(n) \in Nat /\ n <= Aligned(n)
  <1>1. Alignment \in Nat \ {0}
    BY ImageAssumption
  <1>2. (n + Alignment - 1) \div Alignment \in Nat /\ n <= ((n + Alignment - 1) \div Alignment) * Alignment
    BY <1>1, RoundedUp
  <1> QED
    BY <1>1, <1>2 DEF Aligned

\* The numbers of a section header.
LEMMA HeaderNumbers ==
  ASSUME NEW file, IsFile(file), NEW i \in DOMAIN file.sections
  PROVE  /\ i \in Nat /\ file.sections[i] \in SectionHeader
         /\ file.sections[i].virtual_address \in Nat /\ file.sections[i].virtual_size \in Nat
         /\ file.sections[i].sizeof_raw_data \in Nat /\ file.sections[i].pointerto_raw_data \in Nat
  <1>1. PICK q : q = file.sections /\ q \in Seq(SectionHeader)
    BY DEF IsFile
  <1>2. i \in Nat /\ q[i] \in SectionHeader
    BY <1>1
  <1> QED
    BY <1>1, <1>2 DEF SectionHeader

\* A section's pages end with its virtual size or later.
LEMMA SectionEnds ==
  ASSUME NEW file, IsFile(file), NEW i \in DOMAIN file.sections
  PROVE  /\ file.sections[i].virtual_address \in Nat
         /\ PagesEnd(file.sections[i]) \in Nat
         /\ file.sections[i].virtual_address <= PagesEnd(file.sections[i])
         /\ file.sections[i].virtual_address + file.sections[i].virtual_size
              <= PagesEnd(file.sections[i])
  <1>1. PICK v, z, raw, n : /\ v = file.sections[i].virtual_address
                           /\ z = file.sections[i].virtual_size
                           /\ raw = file.sections[i].sizeof_raw_data
                           /\ n = Span(file.sections[i])
    OBVIOUS
  <1>2. v \in Nat /\ z \in Nat /\ raw \in Nat
    BY <1>1, HeaderNumbers
  <1>3. n \in Nat /\ z <= n
    BY <1>1, <1>2 DEF Span
  <1>4. PICK m \in Nat : m = v + n
    BY <1>2, <1>3
  <1>5. Aligned(m) \in Nat /\ m <= Aligned(m)
    BY <1>4, PageEnd
  <1>6. PagesEnd(file.sections[i]) = Aligned(m)
    BY <1>1, <1>4 DEF PagesEnd
  <1> QED
    BY <1>1, <1>2, <1>3, <1>4, <1>5, <1>6

\* Sections do not overlap in memory, pages included.
LEMMA SectionsApart ==
  ASSUME NEW file, IsFile(file), Loadable(file),
         NEW i \in DOMAIN file.sections, NEW j \in DOMAIN file.sections, i < j
  PROVE  /\ file.sections[i].virtual_address + file.sections[i].virtual_size
              <= file.sections[j].virtual_address
         /\ PagesEnd(file.sections[i]) <= file.sections[j].virtual_address
  <1>1. PICK v, n, e, w : /\ v = file.sections[i].virtual_address /\ n = file.sections[i].virtual_size
                         /\ e = PagesEnd(file.sections[i])
                         /\ w = file.sections[j].virtual_address
    OBVIOUS
  <1>2. v \in Nat /\ n \in Nat /\ w \in Nat
    BY <1>1, HeaderNumbers
  <1>3. e <= w
    BY <1>1 DEF Loadable
  <1>4. e \in Nat /\ v + n <= e
    BY <1>1, SectionEnds
  <1> QED
    BY <1>1, <1>2, <1>3, <1>4

\* A byte is loaded from the one section whose raw data covers its address.
LEMMA LoadedAt ==
  ASSUME NEW file, IsFile(file), Loadable(file), NEW i \in DOMAIN file.sections, NEW r \in Int,
         file.sections[i].virtual_address <= r,
         r < file.sections[i].virtual_address + file.sections[i].sizeof_raw_data,
         r < PagesEnd(file.sections[i]),
         file.sections[i].pointerto_raw_data + r - file.sections[i].virtual_address < Len(file.bytes)
  PROVE  LoadedByte(file, r)
           = file.bytes[file.sections[i].pointerto_raw_data + r - file.sections[i].virtual_address + 1]
  <1> DEFINE in == {s \in Range(file.sections) :
               /\ s.virtual_address <= r /\ r < s.virtual_address + s.sizeof_raw_data
               /\ r < PagesEnd(s)
               /\ s.pointerto_raw_data + r - s.virtual_address < Len(file.bytes)}
             sec == file.sections[i]
  <1>1. sec \in in
    BY DEF Range
  <1>2. ASSUME NEW x \in in PROVE x = sec
    <2>1. PICK j \in DOMAIN file.sections : x = file.sections[j]
      BY DEF Range
    <2>2. x.virtual_address <= r /\ r < PagesEnd(x)
      OBVIOUS
    <2>3. i \in Nat /\ j \in Nat
      BY HeaderNumbers
    <2>4. CASE i < j
      <3>1. PagesEnd(sec) <= x.virtual_address
        BY <2>1, <2>4, SectionsApart
      <3>2. PagesEnd(sec) \in Nat /\ x.virtual_address \in Nat
        BY <2>1, SectionEnds
      <3> QED
        BY <2>2, <3>1, <3>2
    <2>5. CASE j < i
      <3>1. PagesEnd(x) <= sec.virtual_address
        BY <2>1, <2>5, SectionsApart
      <3>2. sec.virtual_address \in Nat /\ PagesEnd(x) \in Nat
        BY <2>1, SectionEnds
      <3> QED
        BY <2>2, <3>1, <3>2
    <2> QED
      BY <2>1, <2>3, <2>4, <2>5
  <1>3. PICK s : s = CHOOSE x \in in : TRUE
    OBVIOUS
  <1>4. s = sec
    <2> HIDE DEF in
    <2>1. s \in in
      BY <1>1, <1>3
    <2> QED
      BY <1>2, <2>1
  <1>5. LoadedByte(file, r) = file.bytes[s.pointerto_raw_data + r - s.virtual_address + 1]
    <2>1. in # {}
      BY <1>1
    <2> QED
      BY <1>3, <2>1, Zenon DEF LoadedByte
  <1> QED
    BY <1>4, <1>5

\* What parse_file keeps of a section.
LEMMA ParsedSection ==
  ASSUME NEW file, IsFile(file), NEW bin, bin = parse_file(file)
  PROVE  /\ DOMAIN bin.sections = DOMAIN file.sections
         /\ \A i \in DOMAIN file.sections :
              /\ bin.sections[i].vaddr = file.sections[i].virtual_address + file.imagebase
              /\ bin.sections[i].vsize = file.sections[i].virtual_size
              /\ bin.sections[i].offset = file.sections[i].pointerto_raw_data
              /\ bin.sections[i].size = file.sections[i].sizeof_raw_data
  <1>1. bin.sections = [i \in DOMAIN file.sections |->
                          [map_section(file.sections[i]) EXCEPT !.vaddr = @ + file.imagebase]]
    BY DEF parse_file
  <1>2. ASSUME NEW i \in DOMAIN file.sections
        PROVE  /\ bin.sections[i].vaddr = file.sections[i].virtual_address + file.imagebase
               /\ bin.sections[i].vsize = file.sections[i].virtual_size
               /\ bin.sections[i].offset = file.sections[i].pointerto_raw_data
               /\ bin.sections[i].size = file.sections[i].sizeof_raw_data
    <2>1. PICK m : m = map_section(file.sections[i])
      OBVIOUS
    <2>2. bin.sections[i] = [m EXCEPT !.vaddr = m.vaddr + file.imagebase]
      BY <1>1, <2>1
    <2>3. PICK p : p = map_perms(file.sections[i].characteristics)
      OBVIOUS
    <2>4. m = [name |-> file.sections[i].name, vaddr |-> file.sections[i].virtual_address,
               vsize |-> file.sections[i].virtual_size, offset |-> file.sections[i].pointerto_raw_data,
               size |-> file.sections[i].sizeof_raw_data, perms |-> p]
      BY <2>1, <2>3, Zenon DEF map_section
    <2> QED
      BY <2>2, <2>4
  <1> QED
    BY <1>1, <1>2


\* The smallest of three numbers.
LEMMA MinOfThree ==
  ASSUME NEW x \in Nat, NEW y \in Nat, NEW z \in Nat
  PROVE  Min({x, y, z}) \in Nat /\ Min({x, y, z}) <= x /\ Min({x, y, z}) <= y /\ Min({x, y, z}) <= z
         /\ Min({x, y, z}) \in {x, y, z}
  <1>1. {x, y, z} \in SUBSET Nat /\ {x, y, z} # {}
    OBVIOUS
  <1>2. Min({x, y, z}) \in {x, y, z} /\ \A k \in {x, y, z} : Min({x, y, z}) <= k
    BY <1>1, MinOfSet
  <1> QED
    BY <1>2

\* A part of a sequence.
LEMMA Part ==
  ASSUME NEW image \in Seq(Nat), NEW o \in Nat, NEW c \in Nat, o + c <= Len(image)
  PROVE  /\ Len(SubSeq(image, o + 1, o + c)) = c
         /\ DOMAIN SubSeq(image, o + 1, o + c) = 1 .. c
         /\ \A k \in 1 .. c : SubSeq(image, o + 1, o + c)[k] = image[o + k]
         /\ SubSeq(image, o + 1, o + c) \in Seq(Nat)
  <1>1. PICK from \in Int, to \in Int : from = o + 1 /\ to = o + c
    OBVIOUS
  <1>2. \A i \in from .. to : image[i] \in Nat
    <2>1. ASSUME NEW i \in from .. to PROVE i \in 1 .. Len(image)
      BY <1>1
    <2> QED
      BY <2>1, ElementOfSeq
  <1>3. PICK q : q = SubSeq(image, from, to)
    OBVIOUS
  <1>4. /\ q \in Seq(Nat) /\ Len(q) = IF from <= to THEN to - from + 1 ELSE 0
        /\ \A i \in 1 .. to - from + 1 : q[i] = image[from + i - 1]
    BY <1>2, <1>3, SubSeqProperties
  <1>5. Len(q) = c
    BY <1>1, <1>4
  <1>6. DOMAIN q = 1 .. c
    BY <1>4, <1>5
  <1>7. ASSUME NEW k \in 1 .. c PROVE q[k] = image[o + k]
    <2>1. k \in 1 .. to - from + 1 /\ from + k - 1 = o + k
      BY <1>1
    <2> QED
      BY <1>4, <2>1
  <1> QED
    BY <1>1, <1>3, <1>4, <1>5, <1>6, <1>7

\* The addresses of consecutive raw bytes, and their offsets in the file.
LEMMA RawAddress ==
  ASSUME NEW va \in Nat, NEW raw \in Nat, NEW ptr \in Nat, NEW len \in Nat, NEW w \in Nat, NEW c \in Nat,
         w + c <= raw, ptr + w + c <= len, NEW k \in 1 .. c
  PROVE  /\ va + w + k - 1 \in Int
         /\ va <= va + w + k - 1 /\ va + w + k - 1 < va + raw
         /\ ptr + (va + w + k - 1) - va < len
         /\ ptr + (va + w + k - 1) - va + 1 = ptr + w + k
  OBVIOUS

\* The addresses and sizes in a section's header.
Header(file, m, va, raw, ptr) ==
  /\ va = file.sections[m].virtual_address
  /\ raw = file.sections[m].sizeof_raw_data
  /\ ptr = file.sections[m].pointerto_raw_data

\* What is loaded at the addresses of a section's raw data, as far as its pages.
Loads(file, va, raw, ptr, top) ==
  \A r \in Int : va <= r /\ r < va + raw /\ r < top /\ ptr + r - va < Len(file.bytes) =>
    LoadedByte(file, r) = file.bytes[ptr + r - va + 1]

\* A section's raw data is loaded at its address.
LEMMA SectionLoads ==
  ASSUME NEW file, IsFile(file), Loadable(file), NEW m \in DOMAIN file.sections,
         NEW va, NEW raw, NEW ptr, Header(file, m, va, raw, ptr)
  PROVE  Loads(file, va, raw, ptr, PagesEnd(file.sections[m]))
  BY LoadedAt DEF Header, Loads

\* These are c bytes, those below top as they are loaded from relative address r.
Shows(file, rows, r, c, top) ==
  /\ rows \in Seq(Nat)
  /\ Len(rows) = c /\ DOMAIN rows = 1 .. c
  /\ \A k \in 1 .. c : r + k <= top => rows[k] = LoadedByte(file, r + k - 1)

\* A section of the file holds relative address r, and its pages end at top.
HeldUpTo(file, r, top) ==
  \E s \in Range(file.sections) :
    s.virtual_address <= r /\ r < s.virtual_address + s.virtual_size /\ top = PagesEnd(s)

\* Consecutive bytes of a section's raw data are those loaded at consecutive addresses.
LEMMA RawBytes ==
  ASSUME NEW file, IsFile(file),
         NEW va \in Nat, NEW raw \in Nat, NEW ptr \in Nat, NEW top \in Nat,
         Loads(file, va, raw, ptr, top),
         NEW w \in Nat, NEW c \in Nat, w + c <= raw, ptr + w + c <= Len(file.bytes)
  PROVE  Shows(file, SubSeq(file.bytes, ptr + w + 1, ptr + w + c), va + w, c, top)
  <1> DEFINE len == Len(file.bytes)
             rows == SubSeq(file.bytes, ptr + w + 1, ptr + w + c)
  <1>1. PICK image : image = file.bytes /\ image \in Seq(Nat) /\ len = Len(image)
    BY DEF IsFile
  <1>2. PICK o \in Nat : o = ptr + w
    OBVIOUS
  <1>3. o + c <= Len(image)
    BY <1>1, <1>2
  <1>4. rows = SubSeq(image, o + 1, o + c)
    BY <1>1, <1>2
  <1>5. /\ rows \in Seq(Nat)
        /\ Len(rows) = c /\ DOMAIN rows = 1 .. c /\ \A k \in 1 .. c : rows[k] = image[o + k]
    <2>1. /\ SubSeq(image, o + 1, o + c) \in Seq(Nat)
          /\ Len(SubSeq(image, o + 1, o + c)) = c
          /\ DOMAIN SubSeq(image, o + 1, o + c) = 1 .. c
          /\ \A k \in 1 .. c : SubSeq(image, o + 1, o + c)[k] = image[o + k]
      BY <1>1, <1>3, Part
    <2> QED
      BY <1>4, <2>1
  <1>6. ASSUME NEW k \in 1 .. c, va + w + k <= top PROVE rows[k] = LoadedByte(file, va + w + k - 1)
    <2>1. PICK r \in Int : r = va + w + k - 1
      BY RawAddress
    <2>2. /\ va <= r /\ r < va + raw /\ ptr + r - va < len
          /\ ptr + r - va + 1 = ptr + w + k
      BY <2>1, RawAddress
    <2>4. r < top
      BY <1>6, <2>1
    <2>3. LoadedByte(file, r) = file.bytes[ptr + r - va + 1]
      BY <2>2, <2>4 DEF Loads
    <2> QED
      BY <1>1, <1>2, <1>5, <2>1, <2>2, <2>3
  <1> QED
    BY <1>5, <1>6 DEF Shows

\* A read of a file returns the bytes the loader puts there, as many as asked for
\* at most, up to the last page of the section it begins in.
LEMMA FileRead ==
  ASSUME NEW file, IsFile(file), Loadable(file), NEW addr \in Int, NEW n \in Nat,
         NEW bin, bin = parse_file(file)
  PROVE  \E c \in 0 .. n, top \in Nat :
           /\ Shows(file, read_at(bin, file.bytes, addr, n), addr - file.imagebase, c, top)
           /\ c = 0 \/ HeldUpTo(file, addr - file.imagebase, top)
  <1> DEFINE rows == read_at(bin, file.bytes, addr, n)
             in == {i \in DOMAIN bin.sections : bin.sections[i].vaddr <= addr
                                         /\ addr < bin.sections[i].vaddr + bin.sections[i].vsize}
  <1>i. file.imagebase \in Nat /\ file.bytes \in Seq(Nat) /\ Len(file.bytes) \in Nat
    BY DEF IsFile
  <1>1. CASE rows = << >>
    <2>1. Shows(file, rows, addr - file.imagebase, 0, 0)
      BY <1>1 DEF Shows
    <2> QED
      BY <2>1
  <1>2. CASE rows # << >>
    <2>1. in # {}
      BY <1>2 DEF read_at
    <2>2. in \in SUBSET Nat
      BY ParsedSection, HeaderNumbers
    <2>3. PICK m : m = Min(in)
      OBVIOUS
    <2>4. m \in in
      <3> HIDE DEF in
      <3> QED
        BY <2>1, <2>2, <2>3, MinOfSet
    <2>5. m \in DOMAIN file.sections
      BY <2>4, ParsedSection
    <2>6. PICK va, raw, ptr : /\ va = file.sections[m].virtual_address
                              /\ raw = file.sections[m].sizeof_raw_data
                              /\ ptr = file.sections[m].pointerto_raw_data
      OBVIOUS
    <2>7. va \in Nat /\ raw \in Nat /\ ptr \in Nat
      BY <2>5, <2>6, HeaderNumbers
    <2>8. /\ bin.sections[m].vaddr = va + file.imagebase /\ bin.sections[m].size = raw
          /\ bin.sections[m].offset = ptr
      BY <2>5, <2>6, ParsedSection
    <2>9. PICK w : w = addr - (va + file.imagebase) /\ w \in Nat
      BY <1>i, <2>4, <2>7, <2>8
    <2> HIDE DEF in
    <2>10. PICK len \in Nat : len = Len(file.bytes)
      BY <1>i
    <2>11. PICK off \in Nat : off = ptr + w
      BY <2>7, <2>9
    <2>12. PICK x, y : x = len - off /\ y = raw - w
      OBVIOUS
    <2>13. PICK c : c = Min({n, x, y})
      OBVIOUS
    <2>14. ~(w >= raw) /\ ~(off >= len) /\ rows = SubSeq(file.bytes, off + 1, off + c)
      <3>1. rows = IF in = {} \/ addr - bin.sections[m].vaddr >= bin.sections[m].size
                      \/ bin.sections[m].offset + (addr - bin.sections[m].vaddr) >= Len(file.bytes)
                   THEN << >>
                   ELSE SubSeq(file.bytes, bin.sections[m].offset + (addr - bin.sections[m].vaddr) + 1,
                          bin.sections[m].offset + (addr - bin.sections[m].vaddr)
                          + Min({n, Len(file.bytes) - (bin.sections[m].offset + (addr - bin.sections[m].vaddr)),
                                 bin.sections[m].size - (addr - bin.sections[m].vaddr)}))
        BY <2>3, Zenon DEF read_at, in
      <3>2. rows = IF in = {} \/ w >= raw \/ off >= len THEN << >>
                   ELSE SubSeq(file.bytes, off + 1, off + c)
        BY <2>8, <2>9, <2>10, <2>11, <2>12, <2>13, <3>1
      <3> QED
        BY <1>2, <3>2
    <2>15. x \in Nat /\ y \in Nat
      <3>1. w \in Nat /\ raw \in Nat /\ ~(w >= raw) /\ ~(off >= len)
        BY <2>7, <2>9, <2>14
      <3>2. len - off \in Nat
        BY <3>1
      <3>3. raw - w \in Nat
        BY <3>1
      <3> QED
        BY <2>12, <3>2, <3>3
    <2>16. c \in Nat /\ c <= n /\ c <= x /\ c <= y
      BY <2>13, <2>15, MinOfThree
    <2>17. w + c <= raw /\ ptr + w + c <= len
      <3>1. w \in Nat /\ raw \in Nat /\ ptr \in Nat /\ c \in Nat
        BY <2>7, <2>9, <2>16
      <3>2. c <= len - off /\ c <= raw - w
        BY <2>12, <2>16
      <3>3. w + c <= raw /\ off + c <= len
        BY <3>1, <3>2
      <3> QED
        BY <2>11, <3>1, <3>3
    <2>21. PICK top \in Nat : top = PagesEnd(file.sections[m])
      BY <2>5, SectionEnds
    <2>18. /\ rows \in Seq(Nat)
           /\ Len(rows) = c /\ DOMAIN rows = 1 .. c
           /\ \A k \in 1 .. c : va + w + k <= top => rows[k] = LoadedByte(file, va + w + k - 1)
      <3>1. w \in Nat /\ c \in Nat /\ rows = SubSeq(file.bytes, ptr + w + 1, ptr + w + c)
        BY <2>9, <2>11, <2>14, <2>16
      <3>2. Header(file, m, va, raw, ptr)
        BY <2>6 DEF Header
      <3>3. Loads(file, va, raw, ptr, top)
        BY <2>5, <2>21, <3>2, SectionLoads
      <3>4. ptr + w + c <= Len(file.bytes)
        BY <2>10, <2>17
      <3>5. Shows(file, SubSeq(file.bytes, ptr + w + 1, ptr + w + c), va + w, c, top)
        BY <2>7, <2>17, <2>21, <3>1, <3>3, <3>4, RawBytes
      <3> QED
        BY <3>1, <3>5 DEF Shows
    <2>19. va + w = addr - file.imagebase
      BY <1>i, <2>7, <2>9
    <2>20. Shows(file, rows, addr - file.imagebase, c, top) /\ c \in 0 .. n
      BY <2>16, <2>18, <2>19 DEF Shows
    <2>22. HeldUpTo(file, addr - file.imagebase, top)
      <3>1. PICK z \in Nat : z = file.sections[m].virtual_size /\ bin.sections[m].vsize = z
        BY <2>5, HeaderNumbers, ParsedSection
      <3>2. addr < va + file.imagebase + z
        BY <2>4, <2>8, <3>1 DEF in
      <3>3. va <= va + w /\ va + w < va + z
        <4>1. PICK ib \in Nat, v \in Nat, d \in Nat : ib = file.imagebase /\ v = va /\ d = w
          BY <1>i, <2>7, <2>9
        <4>2. d = addr - (v + ib) /\ addr < v + ib + z
          BY <2>9, <3>2, <4>1
        <4>3. d < z
          BY <4>2
        <4> QED
          BY <4>1, <4>3
      <3>4. file.sections[m] \in Range(file.sections)
        BY <2>5 DEF Range
      <3> QED
        BY <2>6, <2>19, <2>21, <3>1, <3>3, <3>4 DEF HeldUpTo
    <2> QED
      BY <2>20, <2>21, <2>22
  <1> QED
    BY <1>1, <1>2

\* A read at an address the file backs returns something: the section that holds
\* the address is the only one.
LEMMA BackedRead ==
  ASSUME NEW file, IsFile(file), Loadable(file), NEW addr \in Int, NEW n \in Nat \ {0},
         NEW j \in DOMAIN file.sections, NEW va \in Nat, NEW raw \in Nat, NEW ptr \in Nat, NEW w \in Nat,
         Header(file, j, va, raw, ptr), addr = va + w + file.imagebase,
         w < raw, w < file.sections[j].virtual_size, ptr + w < Len(file.bytes),
         NEW bin, bin = parse_file(file)
  PROVE  read_at(bin, file.bytes, addr, n) # << >>
  <1> DEFINE in == {i \in DOMAIN bin.sections : bin.sections[i].vaddr <= addr
                                         /\ addr < bin.sections[i].vaddr + bin.sections[i].vsize}
             delta == file.imagebase
             len == Len(file.bytes)
  <1>1. delta \in Nat /\ file.bytes \in Seq(Nat) /\ len \in Nat
    BY DEF IsFile
  <1>2. /\ bin.sections[j].vaddr = va + delta /\ bin.sections[j].vsize = file.sections[j].virtual_size
        /\ bin.sections[j].size = raw /\ bin.sections[j].offset = ptr
    BY ParsedSection DEF Header
  <1>3. j \in in
    <2>1. PICK y \in Nat : y = file.sections[j].virtual_size /\ w < y
      BY HeaderNumbers
    <2>2. va + delta <= addr /\ addr < (va + delta) + y
      BY <1>1, <2>1
    <2>3. j \in DOMAIN bin.sections
      BY ParsedSection
    <2> QED
      BY <1>2, <2>1, <2>2, <2>3
  <1>4. ASSUME NEW i \in in PROVE i = j
    <2>1. i \in DOMAIN file.sections /\ i \in Nat /\ j \in Nat
      BY ParsedSection, HeaderNumbers
    <2>2. PICK v, z : v = file.sections[i].virtual_address /\ z = file.sections[i].virtual_size
      OBVIOUS
    <2>3. PICK y : y = file.sections[j].virtual_size /\ y \in Nat /\ w < y
      BY HeaderNumbers
    <2>4. v \in Nat /\ z \in Nat /\ v + delta <= addr /\ addr < v + delta + z
      BY <2>1, <2>2, ParsedSection, HeaderNumbers
    <2>5. v <= va + w /\ va + w < v + z
      BY <1>1, <2>4
    <2>6. CASE i < j
      <3>1. v + z <= va
        BY <2>1, <2>2, <2>6, SectionsApart DEF Header
      <3> QED
        BY <2>4, <2>5, <3>1
    <2>7. CASE j < i
      <3>1. va + y <= v
        BY <2>1, <2>2, <2>3, <2>7, SectionsApart DEF Header
      <3> QED
        BY <2>3, <2>4, <2>5, <3>1
    <2> QED
      BY <2>1, <2>6, <2>7
  <1>5. Min(in) = j
    <2>1. in \in SUBSET Nat
      BY ParsedSection, HeaderNumbers
    <2> HIDE DEF in
    <2> QED
      BY <1>3, <1>4, <2>1, MinOfSet
  <1>6. PICK c : c = Min({n, len - (ptr + w), raw - w})
    OBVIOUS
  <1>7. c \in Nat /\ 1 <= c /\ ptr + w + c <= len
    <2>1. PICK x, y : x = len - (ptr + w) /\ y = raw - w
      OBVIOUS
    <2>3. x \in Nat /\ 1 <= x
      BY <1>1, <2>1
    <2>4. y \in Nat /\ 1 <= y
      BY <2>1
    <2>5. c = Min({n, x, y})
      BY <1>6, <2>1
    <2>6. c \in Nat /\ c <= x /\ c \in {n, x, y}
      BY <2>3, <2>4, <2>5, MinOfThree
    <2> QED
      BY <1>1, <2>1, <2>3, <2>4, <2>6
  <1>8. read_at(bin, file.bytes, addr, n)
          = IF in = {} \/ addr - bin.sections[j].vaddr >= bin.sections[j].size
               \/ bin.sections[j].offset + (addr - bin.sections[j].vaddr) >= len
            THEN << >>
            ELSE SubSeq(file.bytes, bin.sections[j].offset + (addr - bin.sections[j].vaddr) + 1,
                   bin.sections[j].offset + (addr - bin.sections[j].vaddr)
                   + Min({n, len - (bin.sections[j].offset + (addr - bin.sections[j].vaddr)),
                          bin.sections[j].size - (addr - bin.sections[j].vaddr)}))
    BY <1>5, Zenon DEF read_at
  <1>9. addr - (va + delta) = w
    BY <1>1
  <1>10. read_at(bin, file.bytes, addr, n) = SubSeq(file.bytes, ptr + w + 1, ptr + w + c)
    <2>1. ~(w >= raw) /\ ~(ptr + w >= len)
      BY <1>1
    <2>2. in # {}
      BY <1>3
    <2> HIDE DEF in, len, delta
    <2> QED
      BY <1>2, <1>6, <1>8, <1>9, <2>1, <2>2
  <1>11. Len(SubSeq(file.bytes, ptr + w + 1, ptr + w + c)) = c
    <2>1. PICK o \in Nat : o = ptr + w /\ o + c <= Len(file.bytes)
      BY <1>7
    <2>2. Len(SubSeq(file.bytes, o + 1, o + c)) = c
      BY <1>1, <1>7, <2>1, Part
    <2> QED
      BY <2>1, <2>2
  <1> QED
    BY <1>7, <1>10, <1>11

-----------------------------------------------------------------------------
(* Reads                                                                     *)

\* A file session keeps the parse of its file.
StaticBin == kind = "Static" => main_bin = parse_file(disk)

\* Every step keeps it: only creation and destruction touch the binary of a file.
LEMMA StaticBinStep == StaticBin /\ [Next]_vars => StaticBin'
  <1> SUFFICES ASSUME StaticBin, [Next]_vars PROVE StaticBin'
    OBVIOUS
  <1>1. CASE UNCHANGED <<kind, disk, main_bin>>
    BY <1>1 DEF StaticBin
  <1>2. CASE create_file
    BY <1>2 DEF StaticBin, create_file, live
  <1>3. CASE create_native \/ destroy
    BY <1>3 DEF StaticBin, create_native, destroy
  <1>4. CASE core_disasm \/ core_binary \/ core_analyze
    BY <1>4 DEF StaticBin, core_disasm, core_binary, core_analyze
  <1>5. \/ create_file \/ create_native \/ destroy \/ core_disasm \/ core_binary \/ core_analyze
        \/ UNCHANGED <<kind, disk, main_bin>>
    <2>1. CASE UNCHANGED vars
      BY <2>1 DEF vars, live, ctx
    <2>2. CASE used
      BY <2>2 DEF used, live, ctx
    <2>3. CASE Call
      BY <2>3 DEF Call, scan_buffer, core_registers, core_listing, core_backtrace, core_flow,
         core_breakpoints, core_strings, static_disasm, static_binary,
         static_modules, static_strings, static_analyze, read_memory, functions, function_blocks,
         xrefs_to, inert, null_handle, live, ctx
    <2> QED
      BY <2>1, <2>2, <2>3 DEF Next
  <1> QED
    BY <1>1, <1>2, <1>3, <1>4, <1>5

\* The parse is kept throughout.
LEMMA StaticBinInvariant == Spec => []StaticBin
  <1>1. Init => StaticBin
    BY DEF Init, StaticBin
  <1> QED
    BY <1>1, StaticBinStep, PTL DEF Spec

\* An address the file backs lies in a section, with raw data and file left.
LEMMA BackedSection ==
  ASSUME disk \in Files, disk.parses, NEW r \in Int, Backed(r)
  PROVE  \E j \in DOMAIN disk.sections, va \in Nat, raw \in Nat, ptr \in Nat, w \in Nat :
           /\ Header(disk, j, va, raw, ptr) /\ r = va + w
           /\ w < raw /\ w < disk.sections[j].virtual_size /\ ptr + w < Len(disk.bytes)
  <1>1. IsFile(disk)
    BY ListingsAssumption
  <1>2. PICK file : file = disk
    OBVIOUS
  <1>3. PICK s \in Range(file.sections) :
          /\ s.virtual_address <= r
          /\ r < s.virtual_address + Min({s.virtual_size, s.sizeof_raw_data})
          /\ s.pointerto_raw_data + r - s.virtual_address < Len(file.bytes)
    BY <1>2 DEF Backed
  <1>4. PICK j \in DOMAIN file.sections : s = file.sections[j]
    BY DEF Range
  <1>5. PICK va, raw, ptr, size : /\ Header(file, j, va, raw, ptr)
                                  /\ size = file.sections[j].virtual_size
    BY DEF Header
  <1>6. va \in Nat /\ raw \in Nat /\ ptr \in Nat /\ size \in Nat
    BY <1>1, <1>2, <1>5, HeaderNumbers DEF Header
  <1>7. PICK k : k = Min({size, raw})
    OBVIOUS
  <1>8. k \in Nat /\ k <= size /\ k <= raw
    <2>1. {size, raw} \in SUBSET Nat /\ {size, raw} # {}
      BY <1>6
    <2> QED
      BY <1>6, <1>7, <2>1, MinOfSet
  <1>9. PICK len \in Nat : len = Len(file.bytes)
    BY <1>1, <1>2 DEF IsFile
  <1>10. va <= r /\ r < va + k /\ ptr + r - va < len
    BY <1>3, <1>4, <1>5, <1>7, <1>9 DEF Header
  <1>11. PICK w \in Nat : r = va + w
    <2>1. r - va \in Nat /\ r = va + (r - va)
      BY <1>6, <1>10
    <2> QED
      BY <2>1
  <1>12. w < raw /\ w < size /\ ptr + w < len
    BY <1>6, <1>8, <1>10, <1>11
  <1> QED
    BY <1>2, <1>5, <1>6, <1>9, <1>11, <1>12

\* What a process's memory answers.
LEMMA LiveRead ==
  ASSUME base \in Nat, NEW addr \in Int, NEW n \in Nat, NEW rows, rows = LiveBytes(addr, n)
  PROVE  /\ Len(rows) <= n
         /\ \A i \in DOMAIN rows : rows[i] = LoadedByte(disk, addr - base + i - 1)
  <1>1. CASE rows = << >>
    BY <1>1
  <1>2. CASE rows = [i \in 1 .. n |-> LoadedByte(disk, addr + i - 1 - base)]
    <2>1. DOMAIN rows = 1 .. n /\ Len(rows) = n
      BY <1>2
    <2>2. ASSUME NEW i \in 1 .. n PROVE rows[i] = LoadedByte(disk, addr - base + i - 1)
      <3>1. addr + i - 1 - base = addr - base + i - 1
        OBVIOUS
      <3> QED
        BY <1>2, <3>1
    <2> QED
      BY <2>1, <2>2
  <1> QED
    BY <1>1, <1>2 DEF LiveBytes

(***************************************************************************)
(* A byte read from a session is the one the loaded image has at that      *)
(* address, for a process as for a file up to the last page of the section *)
(* the read began in, and an address the file backs is readable; for any   *)
(* file that could be loaded, any address and any length.                  *)
(* (IridaStaticCtx::read_at, core_read_memory)                             *)
(***************************************************************************)
THEOREM ListingsReadsAreMapped == Spec => []ReadsAreMapped
  <1>1. Init => ReadsAreMapped
    BY DEF Init, ReadsAreMapped, NoAnswer
  <1>2. ASSUME LiveOK, StaticBin, ReadsAreMapped, [Next]_vars PROVE ReadsAreMapped'
    <2>1. ASSUME read_memory, Loadable(disk) PROVE ReadsAreMapped'
      <3>1. PICK addr \in Addresses, n \in Lengths :
              answer' = [op |-> "read", arg |-> <<addr, n>>, rows |-> Read(addr, n)]
        BY <2>1 DEF read_memory, Replied
      <3>2. UNCHANGED <<kind, disk, base>> /\ kind \in {"Native", "Static"}
        BY <2>1 DEF read_memory, live
      <3>3. addr \in Int /\ n \in Nat
        BY ListingsAssumption DEF Addresses
      <3>4. disk \in Files /\ disk.parses /\ IsFile(disk) /\ Loadable(disk) /\ base \in Nat
        BY <1>2, <2>1, <3>2, ListingsAssumption DEF LiveOK
      <3>5. PICK file : file = disk /\ IsFile(file) /\ Loadable(file) /\ file.imagebase \in Nat
        BY <3>4 DEF IsFile
      <3>6. PICK rows : rows = Read(addr, n)
        OBVIOUS
      <3>7. answer'.op = "read" /\ answer'.arg[1] = addr /\ answer'.arg[2] = n /\ answer'.rows = rows
        BY <3>1, <3>6
      <3>8. CASE kind = "Native"
        <4>1. Len(rows) <= n /\ \A i \in DOMAIN rows : rows[i] = LoadedByte(disk, addr - base + i - 1)
          BY <3>3, <3>4, <3>6, <3>8, LiveRead DEF Read
        <4> QED
          BY <3>2, <3>7, <3>8, <4>1 DEF ReadsAreMapped, Start
      <3>9. CASE kind = "Static"
        <4>1. PICK bin : bin = parse_file(file) /\ rows = read_at(bin, file.bytes, addr, n)
          BY <1>2, <3>5, <3>6, <3>9 DEF StaticBin, Read
        <4>2. /\ Len(rows) <= n
              /\ \A i \in DOMAIN rows : InPages(addr - disk.imagebase, i) =>
                   rows[i] = LoadedByte(file, addr - file.imagebase + i - 1)
          <5>1. PICK c \in 0 .. n, top \in Nat :
                  /\ Shows(file, rows, addr - file.imagebase, c, top)
                  /\ c = 0 \/ HeldUpTo(file, addr - file.imagebase, top)
            BY <3>3, <3>5, <4>1, FileRead
          <5>2. ASSUME NEW i \in DOMAIN rows, InPages(addr - disk.imagebase, i)
                PROVE  addr - file.imagebase + i <= top
            <6>1. i \in 1 .. c /\ c # 0
              BY <5>1, <5>2 DEF Shows
            <6> QED
              BY <3>5, <5>1, <5>2, <6>1 DEF InPages, HeldUpTo
          <5> QED
            BY <3>3, <5>1, <5>2 DEF Shows
        <4>3. ASSUME Backed(addr - disk.imagebase), n > 0 PROVE rows # << >>
          <5>1. PICK r \in Int : r = addr - disk.imagebase /\ addr = r + file.imagebase
            BY <3>3, <3>5
          <5>2. PICK j \in DOMAIN file.sections, va \in Nat, raw \in Nat, ptr \in Nat, w \in Nat :
                  /\ Header(file, j, va, raw, ptr) /\ r = va + w
                  /\ w < raw /\ w < file.sections[j].virtual_size /\ ptr + w < Len(file.bytes)
            BY <3>4, <3>5, <4>3, <5>1, BackedSection
          <5>3. addr = va + w + file.imagebase /\ n \in Nat \ {0}
            BY <3>3, <4>3, <5>1, <5>2
          <5> QED
            BY <3>3, <3>5, <4>1, <5>2, <5>3, BackedRead
        <4> QED
          BY <3>2, <3>5, <3>7, <3>9, <4>2, <4>3 DEF ReadsAreMapped, Start, Backed, InPages
      <3> QED
        BY <3>2, <3>8, <3>9
    <2>2. CASE answer' = NoAnswer
      BY <2>2 DEF ReadsAreMapped, NoAnswer
    <2>3. CASE UNCHANGED vars
      BY <1>2, <2>3 DEF ReadsAreMapped, vars, live, Start, Backed, InPages
    <2>4. ASSUME answer'.op # "read" PROVE ReadsAreMapped'
      BY <2>4 DEF ReadsAreMapped
    <2>5. CASE core_disasm \/ static_disasm \/ core_backtrace \/ functions \/ core_strings
               \/ static_strings \/ scan_buffer
      <3>1. answer'.op # "read"
        BY <2>5 DEF core_disasm, static_disasm, core_backtrace, functions, core_strings,
           static_strings, scan_buffer, Replied
      <3> QED
        BY <2>4, <3>1
    <2>6. ASSUME read_memory, ~Loadable(disk) PROVE ReadsAreMapped'
      BY <2>6 DEF ReadsAreMapped, read_memory, live
    <2> QED
      BY <1>2, <2>1, <2>2, <2>3, <2>4, <2>5, <2>6, AnswerStep
  <1> QED
    BY <1>1, <1>2, LiveInvariant, StaticBinInvariant, PTL DEF Spec

-----------------------------------------------------------------------------
(* The names of the binary                                                   *)

\* The first k sequences, flattened.
Gathers(S, seqs, k, rows) ==
  rows \in Seq(S) /\ Range(rows) = UNION {Range(seqs[i]) : i \in 1 .. k}

\* The library's FlattenSeq gathers every element.
LEMMA Flattened ==
  ASSUME NEW S, NEW n \in Nat, NEW seqs \in [1 .. n -> Seq(S)]
  PROVE  Gathers(S, seqs, n, FlattenSeq(seqs))
  <1> DEFINE IsLoop(f) == f = [i \in 1 .. Len(seqs) |-> IF i = 1 THEN seqs[i] ELSE f[i - 1] \o seqs[i]]
  <1>1. seqs \in Seq(Seq(S)) /\ Len(seqs) = n
    OBVIOUS
  <1>2. CASE n = 0
    <2>1. FlattenSeq(seqs) = seqs
      BY <1>1, <1>2 DEF FlattenSeq
    <2>2. seqs = << >> /\ DOMAIN seqs = {} /\ seqs \in Seq(S)
      BY <1>1, <1>2
    <2>3. Range(seqs) = {} /\ UNION {Range(seqs[i]) : i \in 1 .. n} = {}
      BY <1>2, <2>2 DEF Range
    <2> QED
      BY <2>1, <2>2, <2>3 DEF Gathers
  <1>3. CASE n # 0
    <2>1. \E f : IsLoop(f)
      <3> DEFINE R == Seq(S)
                 turn == [x \in Nat \X R |-> IF x[1] \in 2 .. n THEN x[2] \o seqs[x[1]]
                                             ELSE IF x[1] = 1 THEN seqs[1] ELSE x[2]]
      <3>1. turn \in [Nat \X R -> R]
        <4>1. ASSUME NEW x \in Nat \X R
              PROVE  (IF x[1] \in 2 .. n THEN x[2] \o seqs[x[1]]
                      ELSE IF x[1] = 1 THEN seqs[1] ELSE x[2]) \in R
          <5>1. x[1] \in 2 .. n => seqs[x[1]] \in Seq(S)
            OBVIOUS
          <5>2. seqs[1] \in Seq(S)
            BY <1>3
          <5> QED
            BY <5>1, <5>2
        <4> QED
          BY <4>1
      <3>2. << >> \in R
        OBVIOUS
      <3> HIDE DEF turn, R
      <3>3. PICK A, start, t : A = R /\ start = << >> /\ t = turn
        OBVIOUS
      <3>4. \A k \in Nat : \E f : IsRun(f, A, start, t, k)
        BY <3>1, <3>2, <3>3, LoopStates
      <3>5. PICK g : IsRun(g, A, start, t, n)
        BY <3>4
      <3>6. ASSUME NEW k \in 1 .. n
            PROVE  g[k] = IF k = 1 THEN seqs[k] ELSE g[k - 1] \o seqs[k]
        <4>1. k \in Nat /\ k - 1 \in 0 .. n /\ g[k - 1] \in R /\ g[k] = turn[<<k, g[k - 1]>>]
          BY <3>3, <3>5 DEF IsRun
        <4>2. turn[<<k, g[k - 1]>>] = IF k \in 2 .. n THEN g[k - 1] \o seqs[k]
                                      ELSE IF k = 1 THEN seqs[1] ELSE g[k - 1]
          BY <4>1 DEF turn
        <4> QED
          BY <4>1, <4>2
      <3> DEFINE f == [i \in 1 .. n |-> g[i]]
      <3>7. f = [i \in 1 .. n |-> IF i = 1 THEN seqs[i] ELSE f[i - 1] \o seqs[i]]
        <4>1. ASSUME NEW i \in 1 .. n, i # 1 PROVE f[i - 1] = g[i - 1]
          BY <4>1
        <4> QED
          BY <3>6, <4>1
      <3> QED
        BY <1>1, <3>7
    <2>2. PICK loop : loop = CHOOSE f : IsLoop(f)
      OBVIOUS
    <2>3. IsLoop(loop)
      <3> HIDE DEF IsLoop
      <3> QED
        BY <2>1, <2>2
    <2>4. FlattenSeq(seqs) = loop[n]
      <3>1. FlattenSeq(seqs) = loop[Len(seqs)]
        <4>1. ~(Len(seqs) = 0)
          BY <1>1, <1>3
        <4> QED
          BY <2>2, <4>1, Zenon DEF FlattenSeq
      <3> QED
        BY <1>1, <3>1
    <2>5. \A k \in 1 .. n : loop[k] = IF k = 1 THEN seqs[k] ELSE loop[k - 1] \o seqs[k]
      <3>1. loop = [i \in 1 .. n |-> IF i = 1 THEN seqs[i] ELSE loop[i - 1] \o seqs[i]]
        BY <1>1, <2>3
      <3> QED
        BY <3>1, Zenon
    <2> HIDE DEF IsLoop
    <2>6. Gathers(S, seqs, 1, loop[1])
      <3>1. loop[1] = seqs[1] /\ seqs[1] \in Seq(S)
        BY <1>3, <2>5
      <3>2. UNION {Range(seqs[i]) : i \in 1 .. 1} = Range(seqs[1])
        OBVIOUS
      <3> QED
        BY <3>1, <3>2 DEF Gathers
    <2>7. ASSUME NEW k \in Nat, k + 1 \in 2 .. n, Gathers(S, seqs, k, loop[k])
          PROVE  Gathers(S, seqs, k + 1, loop[k + 1])
      <3>1. PICK a, b : a = loop[k] /\ b = seqs[k + 1]
        OBVIOUS
      <3>2. a \in Seq(S) /\ b \in Seq(S) /\ loop[k + 1] = a \o b
        <4>1. k + 1 \in 1 .. n /\ k + 1 # 1 /\ (k + 1) - 1 = k
          BY <2>7
        <4> QED
          BY <2>5, <2>7, <3>1, <4>1 DEF Gathers
      <3>3. a \o b \in Seq(S) /\ Range(a \o b) = Range(a) \cup Range(b)
        BY <3>2, RangeConcatenation
      <3>4. UNION {Range(seqs[i]) : i \in 1 .. k + 1}
              = (UNION {Range(seqs[i]) : i \in 1 .. k}) \cup Range(seqs[k + 1])
        <4>1. 1 .. k + 1 = (1 .. k) \cup {k + 1}
          OBVIOUS
        <4> QED
          BY <4>1
      <3> QED
        BY <2>7, <3>1, <3>2, <3>3, <3>4 DEF Gathers
    <2> DEFINE T == {k \in Nat : k + 1 <= n => Gathers(S, seqs, k + 1, loop[k + 1])}
    <2>8. 0 \in T
      BY <2>6
    <2>9. ASSUME NEW k \in T PROVE k + 1 \in T
      <3>1. k + 1 \in Nat /\ (k + 1 <= n => Gathers(S, seqs, k + 1, loop[k + 1]))
        OBVIOUS
      <3>2. ASSUME (k + 1) + 1 <= n PROVE Gathers(S, seqs, (k + 1) + 1, loop[(k + 1) + 1])
        <4>1. (k + 1) + 1 \in 2 .. n /\ k + 1 <= n
          BY <3>1, <3>2
        <4> HIDE DEF T
        <4> QED
          BY <2>7, <3>1, <4>1
      <3> QED
        BY <3>1, <3>2
    <2> HIDE DEF T
    <2>10. PICK U : U = T /\ U \in SUBSET Nat
      BY DEF T
    <2>11. U = Nat
      BY <2>8, <2>9, <2>10, Counting
    <2>12. PICK k \in Nat : k + 1 = n
      <3>1. n - 1 \in Nat /\ (n - 1) + 1 = n
        BY <1>3
      <3> QED
        BY <3>1
    <2>13. k + 1 <= n => Gathers(S, seqs, k + 1, loop[k + 1])
      BY <2>10, <2>11 DEF T
    <2> QED
      BY <2>4, <2>12, <2>13
  <1> QED
    BY <1>2, <1>3

\* A name to insert: an address, a prefix and a name.
Entry(Str) == Int \X Str \X Str

\* These rows insert the names, with their prefix, at their addresses from start.
Lists(Str, rows, prefix, start, names) ==
  /\ rows \in Seq(Entry(Str))
  /\ \A i \in 1 .. Len(rows), r \in Nat :
       rows[i][1] = start + r => rows[i][2] = prefix /\ rows[i][3] \in names[r]
  /\ \A r \in Nat : names[r] # {} => \E i \in 1 .. Len(rows) : rows[i][1] = start + r

\* A row for each of n names.
InsertRows(rows, prefix, start, n, at, name) ==
  rows = [i \in 1 .. n |-> <<at[i] + start, prefix, name[i]>>]

\* The names at each address.
NamesByAddress(names, n, at, name) ==
  names = [r \in Nat |-> {name[i] : i \in {k \in 1 .. n : at[k] = r}}]

\* A row for each name inserts the names at their addresses.
LEMMA RowsList ==
  ASSUME NEW Str, NEW n \in Nat, NEW at \in [1 .. n -> Nat], NEW name \in [1 .. n -> Str],
         NEW prefix \in Str, NEW start \in Int,
         NEW rows, InsertRows(rows, prefix, start, n, at, name),
         NEW names, NamesByAddress(names, n, at, name)
  PROVE  Lists(Str, rows, prefix, start, names)
  <1> USE DEF InsertRows, NamesByAddress
  <1>1. \A i \in 1 .. n : <<at[i] + start, prefix, name[i]>> \in Entry(Str)
    BY DEF Entry
  <1>2. rows \in Seq(Entry(Str))
    BY <1>1
  <1>3. Len(rows) = n
    BY <1>2
  <1>4. ASSUME NEW i \in 1 .. n, NEW r \in Nat, rows[i][1] = start + r
        PROVE  rows[i][2] = prefix /\ rows[i][3] \in names[r]
    <2>1. rows[i][1] = at[i] + start /\ rows[i][2] = prefix /\ rows[i][3] = name[i]
      OBVIOUS
    <2>2. at[i] = r
      BY <1>4, <2>1
    <2> QED
      BY <2>1, <2>2
  <1>5. ASSUME NEW r \in Nat, names[r] # {} PROVE \E i \in 1 .. n : rows[i][1] = start + r
    <2>1. PICK i \in 1 .. n : at[i] = r
      BY <1>5
    <2>2. rows[i][1] = start + r
      BY <2>1
    <2> QED
      BY <2>2
  <1> QED
    BY <1>2, <1>3, <1>4, <1>5 DEF Lists

\* `all` is A, B and C, one after the other, of p, q and s elements.
Joined(S, A, B, C, p, q, s, all) ==
  /\ A \in Seq(S) /\ B \in Seq(S) /\ C \in Seq(S)
  /\ p = Len(A) /\ q = Len(B) /\ s = Len(C)
  /\ all \in Seq(S) /\ DOMAIN all = 1 .. p + q + s
  /\ \A i \in 1 .. p : all[i] = A[i]
  /\ \A i \in 1 .. q : all[p + i] = B[i]
  /\ \A i \in 1 .. s : all[p + q + i] = C[i]

\* Concatenation joins.
LEMMA Concatenated ==
  ASSUME NEW S, NEW A \in Seq(S), NEW B \in Seq(S), NEW C \in Seq(S)
  PROVE  \E p \in Nat, q \in Nat, s \in Nat : Joined(S, A, B, C, p, q, s, A \o B \o C)
  <1>1. PICK p, q, s : p = Len(A) /\ q = Len(B) /\ s = Len(C)
    OBVIOUS
  <1>2. p \in Nat /\ q \in Nat /\ s \in Nat
    BY <1>1
  <1>3. PICK AB : AB = A \o B
    OBVIOUS
  <1>4. PICK all : all = AB \o C
    OBVIOUS
  <1>5. /\ AB \in Seq(S) /\ Len(AB) = p + q
        /\ \A i \in 1 .. p + q : AB[i] = IF i <= p THEN A[i] ELSE B[i - p]
    BY <1>1, <1>3, ConcatProperties
  <1>6. /\ all \in Seq(S) /\ Len(all) = (p + q) + s
        /\ \A i \in 1 .. (p + q) + s : all[i] = IF i <= p + q THEN AB[i] ELSE C[i - (p + q)]
    BY <1>1, <1>4, <1>5, ConcatProperties
  <1>7. DOMAIN all = 1 .. p + q + s
    BY <1>6
  <1>8. ASSUME NEW i \in 1 .. p PROVE all[i] = A[i]
    <2>1. i \in 1 .. p + q /\ i \in 1 .. (p + q) + s /\ i <= p /\ i <= p + q
      BY <1>2
    <2> QED
      BY <1>5, <1>6, <2>1
  <1>9. ASSUME NEW i \in 1 .. q PROVE all[p + i] = B[i]
    <2>1. /\ p + i \in 1 .. p + q /\ p + i \in 1 .. (p + q) + s
          /\ ~(p + i <= p) /\ p + i <= p + q /\ (p + i) - p = i
      BY <1>2
    <2> QED
      BY <1>5, <1>6, <2>1
  <1>10. ASSUME NEW i \in 1 .. s PROVE all[p + q + i] = C[i]
    <2>1. /\ p + q + i \in 1 .. (p + q) + s /\ ~(p + q + i <= p + q)
          /\ (p + q + i) - (p + q) = i
      BY <1>2
    <2> QED
      BY <1>6, <2>1
  <1>11. Joined(S, A, B, C, p, q, s, all)
    BY <1>1, <1>6, <1>7, <1>8, <1>9, <1>10 DEF Joined
  <1> QED
    BY <1>2, <1>3, <1>4, <1>11

\* The last element of `all` at address a.
IsLast(all, a, last) ==
  /\ last \in DOMAIN all /\ all[last][1] = a
  /\ \A i \in DOMAIN all : all[i][1] = a => i <= last

\* The maximum of the indices at an address is the last one.
LEMMA LastIndex ==
  ASSUME NEW S, NEW all \in Seq(S), NEW a, \E i \in DOMAIN all : all[i][1] = a
  PROVE  IsLast(all, a, Max({i \in DOMAIN all : all[i][1] = a}))
  <1> DEFINE K == {i \in DOMAIN all : all[i][1] = a}
  <1>1. Len(all) \in Nat /\ DOMAIN all = 1 .. Len(all)
    OBVIOUS
  <1>2. K \in SUBSET Nat /\ K # {} /\ \A k \in K : k <= Len(all)
    BY <1>1
  <1>3. Max(K) \in K /\ \A k \in K : k <= Max(K)
    <2> HIDE DEF K
    <2> QED
      BY <1>1, <1>2, MaxOfSet
  <1> QED
    BY <1>3 DEF IsLast

\* A row with the prefix and a name of the last table that names r.
Wins(x, r, pa, na, pb, nb, pc, nc) ==
  IF nc[r] # {} THEN x[2] = pc /\ x[3] \in nc[r]
  ELSE IF nb[r] # {} THEN x[2] = pb /\ x[3] \in nb[r]
  ELSE x[2] = pa /\ x[3] \in na[r]

\* Three tables of insertions, one after the other.
Tables(Str, start, A, pa, na, B, pb, nb, C, pc, nc, p, q, s, all) ==
  /\ Lists(Str, A, pa, start, na) /\ Lists(Str, B, pb, start, nb) /\ Lists(Str, C, pc, start, nc)
  /\ Joined(Entry(Str), A, B, C, p, q, s, all)

\* The last insertion at an address is an import's, else an export's, else a symbol's.
LEMMA LastWins ==
  ASSUME NEW Str, NEW start \in Int, NEW r \in Nat,
         NEW A, NEW pa, NEW na, NEW B, NEW pb, NEW nb, NEW C, NEW pc, NEW nc,
         NEW p \in Nat, NEW q \in Nat, NEW s \in Nat, NEW all,
         Tables(Str, start, A, pa, na, B, pb, nb, C, pc, nc, p, q, s, all),
         NEW last, IsLast(all, start + r, last)
  PROVE  Wins(all[last], r, pa, na, pb, nb, pc, nc)
  <1> USE DEF Tables
  <1>1. p = Len(A) /\ q = Len(B) /\ s = Len(C)
    BY DEF Joined
  <1>2. last \in 1 .. p + q + s /\ all[last][1] = start + r
    BY DEF Joined, IsLast
  <1>3. last \in Nat
    BY <1>2
  <1>4. ASSUME nc[r] # {} PROVE last > p + q
    <2>1. PICK i \in 1 .. s : C[i][1] = start + r
      BY <1>1, <1>4 DEF Lists
    <2>2. p + q + i \in 1 .. p + q + s
      OBVIOUS
    <2>3. p + q + i <= last
      BY <2>1, <2>2 DEF Joined, IsLast
    <2> QED
      BY <1>3, <2>3
  <1>5. ASSUME nb[r] # {} PROVE last > p
    <2>1. PICK i \in 1 .. q : B[i][1] = start + r
      BY <1>1, <1>5 DEF Lists
    <2>2. p + i \in 1 .. p + q + s
      OBVIOUS
    <2>3. p + i <= last
      BY <2>1, <2>2 DEF Joined, IsLast
    <2> QED
      BY <1>3, <2>3
  <1>6. CASE last > p + q
    <2>1. PICK j \in 1 .. s : last = p + q + j
      <3>1. last - (p + q) \in 1 .. s /\ last = p + q + (last - (p + q))
        BY <1>2, <1>3, <1>6
      <3> QED
        BY <3>1
    <2>2. all[last] = C[j]
      BY <2>1 DEF Joined
    <2>3. C[j][2] = pc /\ C[j][3] \in nc[r]
      BY <1>1, <1>2, <2>2 DEF Lists
    <2>4. nc[r] # {}
      BY <2>3
    <2> QED
      BY <2>2, <2>3, <2>4 DEF Wins
  <1>7. CASE ~(last > p + q) /\ last > p
    <2>1. PICK j \in 1 .. q : last = p + j
      <3>1. last - p \in 1 .. q /\ last = p + (last - p)
        BY <1>2, <1>3, <1>7
      <3> QED
        BY <3>1
    <2>2. all[last] = B[j]
      BY <2>1 DEF Joined
    <2>3. B[j][2] = pb /\ B[j][3] \in nb[r]
      BY <1>1, <1>2, <2>2 DEF Lists
    <2>4. nc[r] = {}
      BY <1>4, <1>7
    <2>5. nb[r] # {}
      BY <2>3
    <2> QED
      BY <2>2, <2>3, <2>4, <2>5 DEF Wins
  <1>8. CASE ~(last > p)
    <2>1. last \in 1 .. p
      BY <1>2, <1>3, <1>8
    <2>2. all[last] = A[last]
      BY <2>1 DEF Joined
    <2>3. A[last][2] = pa /\ A[last][3] \in na[r]
      BY <1>1, <1>2, <2>1, <2>2 DEF Lists
    <2>4. nb[r] = {}
      BY <1>5, <1>8
    <2>5. nc[r] = {}
      <3>1. ~(last > p + q)
        BY <1>3, <1>8
      <3> QED
        BY <1>4, <3>1
    <2> QED
      BY <2>2, <2>3, <2>4, <2>5 DEF Wins
  <1> QED
    BY <1>6, <1>7, <1>8

\* The names a file gives a relative address.
SymbolNames(file) ==
  [r \in Nat |-> {file.symbols[i].name : i \in {k \in DOMAIN file.symbols : file.symbols[k].value = r}}]
ExportNames(file) ==
  [r \in Nat |-> {file.exports[i].name : i \in
                    {k \in DOMAIN file.exports : file.has_exports /\ file.exports[k].address = r}}]
ImportNames(file) ==
  [r \in Nat |-> {e.name : e \in {x \in UNION {Range(t.entries) : t \in Range(file.imports)} :
                                    x.iat_address = r}}]

\* The rows NamesAt inserts for each table.
SymbolInserts(bin, prefix, delta) ==
  [i \in DOMAIN bin.symbols |-> <<bin.symbols[i].addr + delta, prefix, bin.symbols[i].name>>]
ExportInserts(bin, prefix, delta) ==
  [i \in DOMAIN bin.exports |-> <<bin.exports[i].addr + delta, prefix, bin.exports[i].name>>]
ImportInserts(bin, prefix, delta) ==
  [i \in DOMAIN bin.imports |-> <<bin.imports[i].iat_addr + delta, prefix, bin.imports[i].name>>]

Strings == STRING

\* The symbols.
LEMMA SymbolsListed ==
  ASSUME NEW file, IsFile(file), NEW bin, bin = parse_file(file), NEW delta \in Int,
         NEW Str, Strings \subseteq Str, NEW prefix \in Str
  PROVE  Lists(Str, SymbolInserts(bin, prefix, delta), prefix, file.imagebase + delta, SymbolNames(file))
  <1>1. PICK q : q = file.symbols /\ q \in Seq([name : Strings, value : Nat])
    BY DEF IsFile, Strings
  <1>2. PICK n \in Nat : n = Len(q)
    BY <1>1
  <1>3. PICK at, name : at = [i \in 1 .. n |-> q[i].value] /\ name = [i \in 1 .. n |-> q[i].name]
    OBVIOUS
  <1>4. /\ DOMAIN q = 1 .. n
        /\ \A i \in 1 .. n : q[i].value \in Nat /\ q[i].name \in Strings
    <2>1. PICK S : S = [name : Strings, value : Nat]
      OBVIOUS
    <2>2. q \in Seq(S)
      BY <1>1, <2>1
    <2>3. DOMAIN q = 1 .. n /\ \A i \in 1 .. n : q[i] \in S
      BY <1>2, <2>2
    <2> QED
      BY <2>1, <2>3
  <1>5. at \in [1 .. n -> Nat] /\ name \in [1 .. n -> Str]
    BY <1>3, <1>4
  <1>6. PICK ib \in Int : ib = file.imagebase
    BY DEF IsFile
  <1>7. PICK c : c = collect_symbols(file)
    OBVIOUS
  <1>8. c = [i \in 1 .. n |-> [name |-> q[i].name, addr |-> q[i].value, kind |-> "coff"]]
    BY <1>1, <1>4, <1>7, Zenon DEF collect_symbols
  <1>9. bin.symbols = [i \in DOMAIN c |-> [c[i] EXCEPT !.addr = @ + file.imagebase]]
    BY <1>7 DEF parse_file
  <1>10. /\ DOMAIN bin.symbols = 1 .. n
         /\ \A i \in 1 .. n : bin.symbols[i].addr = at[i] + ib /\ bin.symbols[i].name = name[i]
    BY <1>3, <1>6, <1>8, <1>9
  <1>11. ASSUME NEW i \in 1 .. n PROVE bin.symbols[i].addr + delta = at[i] + (ib + delta)
    <2>1. PICK v \in Nat : v = at[i]
      BY <1>5
    <2> QED
      BY <1>10, <2>1
  <1>12. InsertRows(SymbolInserts(bin, prefix, delta), prefix, ib + delta, n, at, name)
    BY <1>10, <1>11 DEF SymbolInserts, InsertRows
  <1>13. NamesByAddress(SymbolNames(file), n, at, name)
    BY <1>1, <1>3, <1>4 DEF NamesByAddress, SymbolNames
  <1> QED
    BY <1>5, <1>6, <1>12, <1>13, RowsList

\* The elements of a sequence.
LEMMA Elements ==
  ASSUME NEW S, NEW s \in Seq(S)
  PROVE  Len(s) \in Nat /\ DOMAIN s = 1 .. Len(s) /\ \A i \in 1 .. Len(s) : s[i] \in S
  OBVIOUS

\* The exports, when the file has any.
LEMMA ExportsListed ==
  ASSUME NEW file, IsFile(file), NEW bin, bin = parse_file(file), NEW delta \in Int,
         NEW Str, Strings \subseteq Str, NEW prefix \in Str
  PROVE  Lists(Str, ExportInserts(bin, prefix, delta), prefix, file.imagebase + delta, ExportNames(file))
  <1>1. PICK q : q = file.exports /\ q \in Seq([name : Strings, address : Nat, ordinal : Nat])
    BY DEF IsFile, Strings
  <1>2. PICK n \in Nat : n = IF file.has_exports THEN Len(q) ELSE 0
    BY <1>1
  <1>3. PICK at, name : at = [i \in 1 .. n |-> q[i].address] /\ name = [i \in 1 .. n |-> q[i].name]
    OBVIOUS
  <1>4. /\ file.has_exports => DOMAIN q = 1 .. n
        /\ \A i \in 1 .. n : q[i].address \in Nat /\ q[i].name \in Strings
    <2>1. PICK S : S = [name : Strings, address : Nat, ordinal : Nat]
      OBVIOUS
    <2>2. q \in Seq(S)
      BY <1>1, <2>1
    <2>3. CASE file.has_exports
      <3>1. DOMAIN q = 1 .. n /\ \A i \in 1 .. n : q[i] \in S
        BY <1>2, <2>2, <2>3
      <3> QED
        BY <2>1, <3>1
    <2>4. CASE ~file.has_exports
      BY <1>2, <2>4
    <2> QED
      BY <2>3, <2>4
  <1>5. at \in [1 .. n -> Nat] /\ name \in [1 .. n -> Str]
    BY <1>3, <1>4
  <1>6. PICK ib \in Int : ib = file.imagebase
    BY DEF IsFile
  <1>7. PICK c : c = collect_exports(file)
    OBVIOUS
  <1>8. /\ DOMAIN c = 1 .. n
        /\ \A i \in 1 .. n : c[i] = [name |-> name[i], addr |-> at[i], ordinal |-> q[i].ordinal]
    <2>1. CASE file.has_exports
      <3>1. c = [i \in DOMAIN q |-> [name |-> q[i].name, addr |-> q[i].address, ordinal |-> q[i].ordinal]]
        BY <1>1, <1>7, <2>1, Zenon DEF collect_exports
      <3> QED
        BY <1>3, <1>4, <2>1, <3>1
    <2>2. CASE ~file.has_exports
      <3>1. c = << >>
        BY <1>7, <2>2 DEF collect_exports
      <3> QED
        BY <1>2, <2>2, <3>1
    <2> QED
      BY <2>1, <2>2
  <1>9. bin.exports = [i \in DOMAIN c |-> [c[i] EXCEPT !.addr = @ + file.imagebase]]
    BY <1>7 DEF parse_file
  <1>10. /\ DOMAIN bin.exports = 1 .. n
         /\ \A i \in 1 .. n : bin.exports[i].addr = at[i] + ib /\ bin.exports[i].name = name[i]
    BY <1>6, <1>8, <1>9
  <1>11. ASSUME NEW i \in 1 .. n PROVE bin.exports[i].addr + delta = at[i] + (ib + delta)
    <2>1. PICK v \in Nat : v = at[i]
      BY <1>5
    <2> QED
      BY <1>10, <2>1
  <1>12. InsertRows(ExportInserts(bin, prefix, delta), prefix, ib + delta, n, at, name)
    BY <1>10, <1>11 DEF ExportInserts, InsertRows
  <1>13. NamesByAddress(ExportNames(file), n, at, name)
    <2>1. ASSUME NEW r \in Nat
          PROVE  {file.exports[i].name : i \in {k \in DOMAIN file.exports :
                                                  file.has_exports /\ file.exports[k].address = r}}
                   = {name[i] : i \in {k \in 1 .. n : at[k] = r}}
      <3>1. CASE file.has_exports
        BY <1>1, <1>3, <1>4, <3>1
      <3>2. CASE ~file.has_exports
        BY <1>2, <3>2
      <3> QED
        BY <3>1, <3>2
    <2> QED
      BY <2>1 DEF NamesByAddress, ExportNames
  <1> QED
    BY <1>5, <1>6, <1>12, <1>13, RowsList

\* The imports of every library.
LEMMA ImportsListed ==
  ASSUME NEW file, IsFile(file), NEW bin, bin = parse_file(file), NEW delta \in Int,
         NEW Str, Strings \subseteq Str, NEW prefix \in Str
  PROVE  Lists(Str, ImportInserts(bin, prefix, delta), prefix, file.imagebase + delta, ImportNames(file))
  <1> DEFINE Thunk == [name : Strings, iat_address : Nat]
             Table == [name : Strings, entries : Seq(Thunk)]
             Row == [name : Strings, library : Strings, iat_addr : Nat]
  <1>1. PICK tables : tables = file.imports /\ tables \in Seq(Table)
    BY DEF IsFile, ImportTable, Strings
  <1>2. PICK m \in Nat : m = Len(tables)
    BY <1>1
  <1>3. PICK lists : lists = [i \in 1 .. m |-> tables[i].entries]
    OBVIOUS
  <1>4. /\ DOMAIN tables = 1 .. m
        /\ \A i \in 1 .. m : lists[i] \in Seq(Thunk) /\ tables[i].name \in Strings
    <2>1. PICK S : S = Table
      OBVIOUS
    <2>2. tables \in Seq(S)
      BY <1>1, <2>1
    <2>3. DOMAIN tables = 1 .. m /\ \A i \in 1 .. m : tables[i] \in S
      BY <1>2, <2>2, Elements
    <2> QED
      BY <1>3, <2>1, <2>3
  <1>5. PICK seqs : seqs = [i \in 1 .. m |-> [k \in DOMAIN lists[i] |->
                              [name |-> lists[i][k].name, library |-> tables[i].name,
                               iat_addr |-> lists[i][k].iat_address]]]
    OBVIOUS
  <1>6. PICK c : c = collect_imports(file)
    OBVIOUS
  <1>7. c = FlattenSeq(seqs)
    <2>1. [i \in DOMAIN file.imports |->
             [k \in DOMAIN file.imports[i].entries |->
                [name |-> file.imports[i].entries[k].name, library |-> file.imports[i].name,
                 iat_addr |-> file.imports[i].entries[k].iat_address]]] = seqs
      BY <1>1, <1>3, <1>4, <1>5
    <2> QED
      BY <1>6, <2>1, Zenon DEF collect_imports
  <1>8. ASSUME NEW i \in 1 .. m, NEW k \in DOMAIN lists[i]
        PROVE  /\ k \in 1 .. Len(lists[i]) /\ lists[i][k] \in Thunk
               /\ seqs[i][k] = [name |-> lists[i][k].name, library |-> tables[i].name,
                                iat_addr |-> lists[i][k].iat_address]
               /\ seqs[i][k].name = lists[i][k].name
               /\ seqs[i][k].iat_addr = lists[i][k].iat_address
               /\ seqs[i][k] \in Row
    <2>1. PICK S : S = Thunk
      OBVIOUS
    <2>2. k \in 1 .. Len(lists[i]) /\ lists[i][k] \in S
      <3>1. PICK l : l = lists[i] /\ l \in Seq(S)
        BY <1>4, <2>1
      <3>2. k \in 1 .. Len(l) /\ l[k] \in S
        BY <3>1, Elements
      <3> QED
        BY <3>1, <3>2
    <2>3. seqs[i][k] = [name |-> lists[i][k].name, library |-> tables[i].name,
                        iat_addr |-> lists[i][k].iat_address]
      BY <1>5
    <2>4. seqs[i][k] \in Row
      BY <1>4, <2>1, <2>2, <2>3
    <2> QED
      BY <2>1, <2>2, <2>3, <2>4
  <1> HIDE DEF Thunk, Table, Row
  <1>9. ASSUME NEW i \in 1 .. m PROVE seqs[i] \in Seq(Row) /\ DOMAIN seqs[i] = DOMAIN lists[i]
    <2>1. DOMAIN lists[i] = 1 .. Len(lists[i]) /\ Len(lists[i]) \in Nat
      BY <1>4
    <2>2. seqs[i] = [k \in DOMAIN lists[i] |-> seqs[i][k]]
      BY <1>5
    <2>3. PICK l \in Nat : l = Len(lists[i])
      BY <2>1
    <2>6. PICK s : s = seqs[i]
      OBVIOUS
    <2>4. DOMAIN s = 1 .. l /\ s = [k \in 1 .. l |-> s[k]] /\ \A k \in 1 .. l : s[k] \in Row
      BY <1>8, <2>1, <2>2, <2>3, <2>6
    <2>5. s \in Seq(Row)
      BY <2>4
    <2> QED
      BY <2>1, <2>3, <2>4, <2>5, <2>6
  <1>10. PICK R : R = Row
    OBVIOUS
  <1>11. seqs \in [1 .. m -> Seq(R)]
    BY <1>5, <1>9, <1>10
  <1>12. c \in Seq(R) /\ Range(c) = UNION {Range(seqs[i]) : i \in 1 .. m}
    BY <1>7, <1>11, Flattened DEF Gathers
  <1>13. PICK n \in Nat : n = Len(c)
    BY <1>12
  <1>14. DOMAIN c = 1 .. n /\ \A i \in 1 .. n : c[i] \in Row
    BY <1>10, <1>12, <1>13
  <1>15. PICK at, name : at = [i \in 1 .. n |-> c[i].iat_addr] /\ name = [i \in 1 .. n |-> c[i].name]
    OBVIOUS
  <1>16. at \in [1 .. n -> Nat] /\ name \in [1 .. n -> Str]
    BY <1>14, <1>15 DEF Row
  <1>17. PICK ib \in Int : ib = file.imagebase
    BY DEF IsFile
  <1>18. bin.imports = [i \in DOMAIN c |-> [c[i] EXCEPT !.iat_addr = @ + file.imagebase]]
    BY <1>6 DEF parse_file
  <1>19. /\ DOMAIN bin.imports = 1 .. n
         /\ \A i \in 1 .. n : bin.imports[i].iat_addr = at[i] + ib /\ bin.imports[i].name = name[i]
    BY <1>14, <1>15, <1>17, <1>18 DEF Row
  <1>20. ASSUME NEW i \in 1 .. n PROVE bin.imports[i].iat_addr + delta = at[i] + (ib + delta)
    <2>1. PICK v \in Nat : v = at[i]
      BY <1>16
    <2> QED
      BY <1>19, <2>1
  <1>21. InsertRows(ImportInserts(bin, prefix, delta), prefix, ib + delta, n, at, name)
    BY <1>19, <1>20 DEF ImportInserts, InsertRows
  <1>22. ASSUME NEW x
         PROVE  x \in UNION {Range(t.entries) : t \in Range(file.imports)}
                  <=> \E i \in 1 .. m : \E k \in DOMAIN lists[i] : x = lists[i][k]
    <2>1. ASSUME NEW t \in Range(file.imports), x \in Range(t.entries)
          PROVE  \E i \in 1 .. m : \E k \in DOMAIN lists[i] : x = lists[i][k]
      <3>1. PICK i \in 1 .. m : t = tables[i]
        BY <1>1, <1>4 DEF Range
      <3>2. t.entries = lists[i]
        BY <1>3, <3>1
      <3> QED
        BY <2>1, <3>2 DEF Range
    <2>2. ASSUME NEW i \in 1 .. m, NEW k \in DOMAIN lists[i], x = lists[i][k]
          PROVE  \E t \in Range(file.imports) : x \in Range(t.entries)
      <3>1. tables[i] \in Range(file.imports)
        BY <1>1, <1>4 DEF Range
      <3>2. tables[i].entries = lists[i]
        BY <1>3
      <3>3. x \in Range(tables[i].entries)
        BY <2>2, <3>2 DEF Range
      <3> QED
        BY <3>1, <3>3
    <2> QED
      BY <2>1, <2>2
  <1>23. ASSUME NEW x
         PROVE  (\E i \in 1 .. n : x = c[i])
                  <=> \E i \in 1 .. m : \E k \in DOMAIN lists[i] : x = seqs[i][k]
    <2>1. x \in Range(c) <=> \E i \in 1 .. n : x = c[i]
      BY <1>14 DEF Range
    <2>2. x \in UNION {Range(seqs[i]) : i \in 1 .. m}
            <=> \E i \in 1 .. m : \E k \in DOMAIN lists[i] : x = seqs[i][k]
      BY <1>9 DEF Range
    <2> QED
      BY <1>12, <2>1, <2>2
  <1>24. NamesByAddress(ImportNames(file), n, at, name)
    <2>1. ASSUME NEW r \in Nat, NEW s
          PROVE  s \in {e.name : e \in {x \in UNION {Range(t.entries) : t \in Range(file.imports)} :
                                          x.iat_address = r}}
                   <=> s \in {name[i] : i \in {k \in 1 .. n : at[k] = r}}
      <3>1. ASSUME NEW x \in UNION {Range(t.entries) : t \in Range(file.imports)},
                   x.iat_address = r, s = x.name
            PROVE  \E j \in 1 .. n : at[j] = r /\ s = name[j]
        <4>1. PICK i \in 1 .. m : \E k \in DOMAIN lists[i] : x = lists[i][k]
          BY <1>22
        <4>2. PICK k \in DOMAIN lists[i] : x = lists[i][k]
          BY <4>1
        <4>3. PICK j \in 1 .. n : seqs[i][k] = c[j]
          BY <1>23, <4>2
        <4>4. c[j].iat_addr = r /\ c[j].name = s
          <5>1. seqs[i][k].iat_addr = lists[i][k].iat_address /\ seqs[i][k].name = lists[i][k].name
            BY <1>8, Zenon
          <5> QED
            BY <3>1, <4>2, <4>3, <5>1
        <4> QED
          BY <1>15, <4>4
      <3>2. ASSUME NEW j \in 1 .. n, at[j] = r, s = name[j]
            PROVE  \E x \in UNION {Range(t.entries) : t \in Range(file.imports)} :
                     x.iat_address = r /\ s = x.name
        <4>1. PICK i \in 1 .. m : \E k \in DOMAIN lists[i] : c[j] = seqs[i][k]
          BY <1>23
        <4>2. PICK k \in DOMAIN lists[i] : c[j] = seqs[i][k]
          BY <4>1
        <4>3. lists[i][k] \in UNION {Range(t.entries) : t \in Range(file.imports)}
          BY <1>22
        <4>4. lists[i][k].iat_address = r /\ lists[i][k].name = s
          <5>1. seqs[i][k].iat_addr = lists[i][k].iat_address /\ seqs[i][k].name = lists[i][k].name
            BY <1>8, Zenon
          <5>2. c[j].iat_addr = r /\ c[j].name = s
            BY <1>15, <3>2
          <5> QED
            BY <4>2, <5>1, <5>2
        <4> QED
          BY <4>3, <4>4
      <3> QED
        BY <3>1, <3>2
    <2>2. ASSUME NEW r \in Nat
          PROVE  {e.name : e \in {x \in UNION {Range(t.entries) : t \in Range(file.imports)} :
                                    x.iat_address = r}}
                   = {name[i] : i \in {k \in 1 .. n : at[k] = r}}
      BY <2>1
    <2> QED
      BY <2>2 DEF NamesByAddress, ImportNames
  <1> QED
    BY <1>16, <1>17, <1>21, <1>24, RowsList

\* NamesAt over prefixes pa, pb and pc: the last row at each address.
Inserts(bin, delta, pa, pb, pc) ==
  SymbolInserts(bin, pa, delta) \o ExportInserts(bin, pb, delta) \o ImportInserts(bin, pc, delta)
LastNames(all) ==
  [a \in {all[i][1] : i \in DOMAIN all} |-> Tail(all[Max({i \in DOMAIN all : all[i][1] = a})])]

\* A row without its address.
LEMMA RowTail ==
  ASSUME NEW Str, NEW x \in Entry(Str)
  PROVE  Tail(x) = <<x[2], x[3]>>
  <1>1. PICK a, b, c : a = x[1] /\ b = x[2] /\ c = x[3] /\ x = <<a, b, c>>
    BY DEF Entry
  <1>2. PICK S : S = {a, b, c}
    OBVIOUS
  <1>3. <<a, b, c>> \in Seq(S) /\ <<a, b, c>> # << >> /\ Len(<<a, b, c>>) = 3
    BY <1>2
  <1>4. PICK t : t = Tail(<<a, b, c>>)
    OBVIOUS
  <1>5. t \in Seq(S) /\ Len(t) = 2 /\ t[1] = b /\ t[2] = c
    BY <1>3, <1>4, HeadTailProperties
  <1>6. t = <<b, c>>
    BY <1>5
  <1> QED
    BY <1>1, <1>4, <1>6

\* The display names a file gives a relative address, with these prefixes.
DisplayNames(file, r, pa, pb, pc) ==
  IF ImportNames(file)[r] # {} THEN {<<pc, s>> : s \in ImportNames(file)[r]}
  ELSE IF ExportNames(file)[r] # {} THEN {<<pb, s>> : s \in ExportNames(file)[r]}
  ELSE {<<pa, s>> : s \in SymbolNames(file)[r]}

\* The symbol map has, at each named address, one of its display names.
LEMMA NamesMapped ==
  ASSUME NEW file, IsFile(file), NEW bin, bin = parse_file(file), NEW delta \in Int,
         NEW pa, NEW pb, NEW pc, NEW r \in Nat, DisplayNames(file, r, pa, pb, pc) # {},
         NEW names, names = LastNames(Inserts(bin, delta, pa, pb, pc))
  PROVE  /\ file.imagebase + delta + r \in DOMAIN names
         /\ names[file.imagebase + delta + r] \in DisplayNames(file, r, pa, pb, pc)
  <1>1. PICK Str : Strings \subseteq Str /\ pa \in Str /\ pb \in Str /\ pc \in Str
    <2>1. Strings \subseteq Strings \cup {pa, pb, pc}
      OBVIOUS
    <2> QED
      BY <2>1
  <1>2. PICK start \in Int : start = file.imagebase + delta
    BY DEF IsFile
  <1>3. PICK A, B, C : /\ A = SymbolInserts(bin, pa, delta)
                       /\ B = ExportInserts(bin, pb, delta)
                       /\ C = ImportInserts(bin, pc, delta)
    OBVIOUS
  <1>4. PICK na, nb, nc : na = SymbolNames(file) /\ nb = ExportNames(file) /\ nc = ImportNames(file)
    OBVIOUS
  <1>5. Lists(Str, A, pa, start, na)
    BY <1>1, <1>2, <1>3, <1>4, SymbolsListed
  <1>6. Lists(Str, B, pb, start, nb)
    BY <1>1, <1>2, <1>3, <1>4, ExportsListed
  <1>7. Lists(Str, C, pc, start, nc)
    BY <1>1, <1>2, <1>3, <1>4, ImportsListed
  <1>8. A \in Seq(Entry(Str)) /\ B \in Seq(Entry(Str)) /\ C \in Seq(Entry(Str))
    BY <1>5, <1>6, <1>7 DEF Lists
  <1>9. PICK all : all = A \o B \o C
    OBVIOUS
  <1>10. PICK p \in Nat, q \in Nat, s \in Nat : Joined(Entry(Str), A, B, C, p, q, s, all)
    BY <1>8, <1>9, Concatenated
  <1>11. PICK a : a = start + r
    OBVIOUS
  <1>12. na[r] # {} \/ nb[r] # {} \/ nc[r] # {}
    BY <1>4 DEF DisplayNames
  <1>13. \E i \in DOMAIN all : all[i][1] = a
    <2>1. CASE nc[r] # {}
      <3>1. PICK i \in 1 .. s : C[i][1] = start + r
        BY <1>7, <1>10, <2>1 DEF Lists, Joined
      <3>2. p + q + i \in 1 .. p + q + s
        OBVIOUS
      <3> QED
        BY <1>10, <1>11, <3>1, <3>2 DEF Joined
    <2>2. CASE nb[r] # {}
      <3>1. PICK i \in 1 .. q : B[i][1] = start + r
        BY <1>6, <1>10, <2>2 DEF Lists, Joined
      <3>2. p + i \in 1 .. p + q + s
        OBVIOUS
      <3>3. p + i \in DOMAIN all /\ all[p + i] = B[i]
        BY <1>10, <3>2 DEF Joined
      <3>4. all[p + i][1] = a
        BY <1>11, <3>1, <3>3
      <3> QED
        BY <3>3, <3>4, Zenon
    <2>3. CASE na[r] # {}
      <3>1. PICK i \in 1 .. p : A[i][1] = start + r
        BY <1>5, <1>10, <2>3 DEF Lists, Joined
      <3>2. i \in 1 .. p + q + s
        OBVIOUS
      <3> QED
        BY <1>10, <1>11, <3>1, <3>2 DEF Joined
    <2> QED
      BY <1>12, <2>1, <2>2, <2>3
  <1>14. all \in Seq(Entry(Str))
    BY <1>10 DEF Joined
  <1>15. PICK last : last = Max({i \in DOMAIN all : all[i][1] = a})
    OBVIOUS
  <1>16. IsLast(all, a, last)
    BY <1>13, <1>14, <1>15, LastIndex
  <1>17. PICK x : x = all[last]
    OBVIOUS
  <1>18. x \in Entry(Str)
    BY <1>14, <1>16, <1>17 DEF IsLast
  <1>24. IsLast(all, start + r, last)
    BY <1>11, <1>16
  <1>19. Wins(x, r, pa, na, pb, nb, pc, nc)
    <2>1. Tables(Str, start, A, pa, na, B, pb, nb, C, pc, nc, p, q, s, all)
      BY <1>5, <1>6, <1>7, <1>10 DEF Tables
    <2> QED
      BY <1>17, <1>24, <2>1, LastWins
  <1>20. names = LastNames(all)
    BY <1>3, <1>9 DEF Inserts
  <1>21. a \in DOMAIN names /\ names[a] = Tail(x)
    <2>1. a \in {all[i][1] : i \in DOMAIN all}
      BY <1>13
    <2> QED
      BY <1>15, <1>17, <1>20, <2>1, Zenon DEF LastNames
  <1>22. names[a] = <<x[2], x[3]>>
    BY <1>18, <1>21, RowTail
  <1>23. names[a] \in DisplayNames(file, r, pa, pb, pc)
    BY <1>4, <1>19, <1>22 DEF DisplayNames, Wins
  <1> QED
    BY <1>2, <1>11, <1>21, <1>23

\* NamesAt inserts with its three prefixes.
LEMMA NamesAtLast ==
  ASSUME NEW bin, NEW delta
  PROVE  NamesAt(bin, delta) = LastNames(Inserts(bin, delta, "", "sym.", "sym.imp."))
  BY Zenon DEF NamesAt, LastNames, Inserts, SymbolInserts, ExportInserts, ImportInserts

\* NamesFor of a file, with these prefixes.
NamesIn(file, r, pa, pb, pc) ==
  LET imports == {<<pc, e.name>> :
                    e \in {x \in UNION {Range(t.entries) : t \in Range(file.imports)} : x.iat_address = r}}
      exports == {<<pb, e.name>> : e \in {x \in Range(file.exports) : file.has_exports /\ x.address = r}}
      symbols == {<<pa, e.name>> : e \in {x \in Range(file.symbols) : x.value = r}}
  IN  IF imports # {} THEN imports ELSE IF exports # {} THEN exports ELSE symbols

\* It is what the tables name.
LEMMA NamesDisplayed ==
  ASSUME NEW file, NEW r \in Nat, NEW pa, NEW pb, NEW pc
  PROVE  NamesIn(file, r, pa, pb, pc) = DisplayNames(file, r, pa, pb, pc)
  <1> DEFINE imports == {<<pc, e.name>> :
                    e \in {x \in UNION {Range(t.entries) : t \in Range(file.imports)} : x.iat_address = r}}
             exports == {<<pb, e.name>> :
                           e \in {x \in Range(file.exports) : file.has_exports /\ x.address = r}}
             symbols == {<<pa, e.name>> : e \in {x \in Range(file.symbols) : x.value = r}}
  <1>1. imports = {<<pc, s>> : s \in ImportNames(file)[r]}
    <2>1. PICK S : S = {x \in UNION {Range(t.entries) : t \in Range(file.imports)} : x.iat_address = r}
      OBVIOUS
    <2>2. ImportNames(file)[r] = {e.name : e \in S}
      BY <2>1 DEF ImportNames
    <2>3. imports = {<<pc, e.name>> : e \in S}
      BY <2>1
    <2> QED
      BY <2>2, <2>3
  <1>2. exports = {<<pb, s>> : s \in ExportNames(file)[r]}
    <2>1. PICK f, K : /\ f = file.exports
                      /\ K = {k \in DOMAIN file.exports : file.has_exports /\ file.exports[k].address = r}
      OBVIOUS
    <2>2. ExportNames(file)[r] = {f[i].name : i \in K}
      BY <2>1 DEF ExportNames
    <2>3. exports = {<<pb, f[i].name>> : i \in K}
      BY <2>1 DEF Range
    <2> QED
      BY <2>2, <2>3
  <1>3. symbols = {<<pa, s>> : s \in SymbolNames(file)[r]}
    <2>1. PICK f, K : f = file.symbols /\ K = {k \in DOMAIN file.symbols : file.symbols[k].value = r}
      OBVIOUS
    <2>2. SymbolNames(file)[r] = {f[i].name : i \in K}
      BY <2>1 DEF SymbolNames
    <2>3. symbols = {<<pa, f[i].name>> : i \in K}
      BY <2>1 DEF Range
    <2> QED
      BY <2>2, <2>3
  <1>4. NamesIn(file, r, pa, pb, pc)
          = IF imports # {} THEN imports ELSE IF exports # {} THEN exports ELSE symbols
    BY DEF NamesIn
  <1> HIDE DEF imports, exports, symbols
  <1>5. imports # {} <=> ImportNames(file)[r] # {}
    BY <1>1
  <1>6. exports # {} <=> ExportNames(file)[r] # {}
    BY <1>2
  <1> QED
    BY <1>1, <1>2, <1>3, <1>4, <1>5, <1>6 DEF DisplayNames

\* NamesFor asks the file on disk.
LEMMA NamesForFile ==
  ASSUME NEW r
  PROVE  NamesFor(r) = NamesIn(disk, r, "", "sym.", "sym.imp.")
  BY Zenon DEF NamesFor, NamesIn

\* The symbol map names each place as the file does.
LEMMA NamesKept ==
  ASSUME IsFile(disk), NEW delta \in Int, NEW r \in Nat, NamesFor(r) # {}
  PROVE  /\ disk.imagebase + delta + r \in DOMAIN NamesAt(parse_file(disk), delta)
         /\ NamesAt(parse_file(disk), delta)[disk.imagebase + delta + r] \in NamesFor(r)
  <1>1. PICK pa, pb, pc, file, bin : /\ pa = "" /\ pb = "sym." /\ pc = "sym.imp."
                                     /\ file = disk /\ bin = parse_file(disk)
    BY Zenon
  <1>2. NamesFor(r) = NamesIn(file, r, pa, pb, pc)
    BY <1>1, NamesForFile, Zenon
  <1>3. NamesAt(bin, delta) = LastNames(Inserts(bin, delta, pa, pb, pc))
    BY <1>1, NamesAtLast, Zenon
  <1>4. file = disk /\ bin = parse_file(file) /\ IsFile(file)
    BY <1>1, Zenon
  <1>5. NamesFor(r) = DisplayNames(file, r, pa, pb, pc)
    BY <1>2, NamesDisplayed
  <1>6. /\ file.imagebase + delta + r \in DOMAIN NamesAt(bin, delta)
        /\ NamesAt(bin, delta)[file.imagebase + delta + r] \in DisplayNames(file, r, pa, pb, pc)
    BY <1>3, <1>4, <1>5, NamesMapped
  <1> QED
    BY <1>4, <1>5, <1>6

-----------------------------------------------------------------------------
(* One binary                                                                *)

\* The session knows the binary, or does not and never said otherwise.
Parsed ==
  /\ binary_parsed = TRUE /\ main_bin = parse_file(disk)
  /\ symbol_map = NamesAt(parse_file(disk), Start - disk.imagebase)
  /\ "none" \notin told
Unparsed ==
  /\ main_bin = NoBinary /\ symbol_map = NoNames
  /\ "some" \notin told
  /\ binary_parsed = FALSE => told = {}

\* An analysis names every symbol, and is made after the binary was asked for.
Covered ==
  analysis # NoAnalysis =>
    /\ binary_parsed = TRUE
    /\ \A a \in DOMAIN symbol_map : a \in DOMAIN analysis.functions /\ analysis.functions[a] = symbol_map[a]

BinaryOK ==
  /\ binary_parsed \in BOOLEAN
  /\ kind \in {"none", "null"} => Unparsed /\ binary_parsed = FALSE /\ analysis = NoAnalysis
  /\ kind = "Static" => Parsed
  /\ kind = "Native" => Parsed \/ Unparsed
  /\ Covered

\* The empty binary has no rows.
LEMMA NoRows ==
  ASSUME NEW op \in {"sections", "imports", "exports", "symbols"}
  PROVE  BinaryRows(NoBinary)[op] = << >>
  <1>1. /\ NoBinary.sections = << >> /\ NoBinary.imports = << >>
        /\ NoBinary.exports = << >> /\ NoBinary.symbols = << >>
    BY Zenon DEF NoBinary
  <1>2. SectionRows(NoBinary) = << >>
    BY <1>1 DEF SectionRows
  <1>3. ImportRows(NoBinary) = << >>
    BY <1>1 DEF ImportRows
  <1>4. ExportRows(NoBinary) = << >> /\ SymbolRows(NoBinary) = << >>
    BY <1>1 DEF ExportRows, SymbolRows
  <1> QED
    BY <1>2, <1>3, <1>4 DEF BinaryRows

\* What asking for the binary leaves behind.
LEMMA Ensured ==
  ASSUME BinaryOK, kind = "Native", NEW modules \in ModuleLists, ensure_binary_parsed(modules),
         UNCHANGED <<kind, disk, base>>
  PROVE  /\ binary_parsed' = TRUE
         /\ \/ /\ main_bin' = parse_file(disk) /\ symbol_map' = NamesAt(parse_file(disk), base - disk.imagebase)
               /\ "none" \notin told
            \/ main_bin' = NoBinary /\ symbol_map' = NoNames /\ "some" \notin told
         /\ \/ UNCHANGED <<main_bin, binary_parsed, symbol_map>>
            \/ analysis = NoAnalysis
  <1>1. Parsed \/ Unparsed
    BY DEF BinaryOK
  <1>2. Start = base
    BY DEF Start
  <1>3. CASE binary_parsed = TRUE
    <2>1. UNCHANGED <<main_bin, binary_parsed, symbol_map>>
      BY <1>3 DEF ensure_binary_parsed
    <2> QED
      BY <1>1, <1>2, <1>3, <2>1 DEF Parsed, Unparsed
  <1>4. CASE binary_parsed = FALSE
    <2>1. told = {} /\ main_bin = NoBinary /\ symbol_map = NoNames
      BY <1>1, <1>4 DEF Parsed, Unparsed
    <2>2. analysis = NoAnalysis
      BY <1>4 DEF BinaryOK, Covered
    <2>3. CASE modules.list = << >> \/ ~disk.readable
      BY <1>4, <2>1, <2>2, <2>3 DEF ensure_binary_parsed
    <2>4. CASE ~(modules.list = << >> \/ ~disk.readable)
      <3>1. modules.list[1].base = base
        BY <2>4 DEF ModuleLists, Module
      <3>2. parse_file(disk).image_base = disk.imagebase
        BY DEF parse_file
      <3>3. main_bin' = parse_file(disk) /\ binary_parsed' = TRUE
            /\ symbol_map' = build_symbol_map(main_bin', modules.list[1].base, main_bin'.image_base)
        BY <1>4, <2>4 DEF ensure_binary_parsed
      <3>4. symbol_map' = NamesAt(parse_file(disk), base - disk.imagebase)
        BY <3>1, <3>2, <3>3 DEF build_symbol_map
      <3> QED
        BY <2>1, <2>2, <3>3, <3>4
    <2> QED
      BY <2>3, <2>4
  <1> QED
    BY <1>3, <1>4 DEF BinaryOK

\* What a listing of the binary adds to what was told.
LEMMA ToldRight ==
  ASSUME NEW op \in {"sections", "imports", "exports", "symbols"}, NEW bin
  PROVE  /\ bin = parse_file(disk) /\ "none" \notin told =>
              "none" \notin Told(op, BinaryRows(bin)[op])
         /\ bin = NoBinary /\ "some" \notin told => "some" \notin Told(op, BinaryRows(bin)[op])
  <1>1. ASSUME bin = parse_file(disk), "none" \notin told
        PROVE  "none" \notin Told(op, BinaryRows(bin)[op])
    BY <1>1 DEF Told
  <1>2. ASSUME bin = NoBinary, "some" \notin told
        PROVE  "some" \notin Told(op, BinaryRows(bin)[op])
    BY <1>2, NoRows DEF Told
  <1> QED
    BY <1>1, <1>2

\* The functions of an analysis name every symbol it was given.
LEMMA ResultCovers ==
  ASSUME NEW roots, NEW names, DOMAIN names \subseteq roots
  PROVE  \A a \in DOMAIN names :
           /\ a \in DOMAIN ResultOf(roots, names).functions
           /\ ResultOf(roots, names).functions[a] = names[a]
  <1>1. ResultOf(roots, names).functions
          = [a \in roots |-> IF a \in DOMAIN names THEN names[a] ELSE <<"fcn.", a>>]
    BY DEF ResultOf
  <1> QED
    BY <1>1, Zenon

\* A session starts with no binary.
LEMMA BinaryCreated ==
  ASSUME BinaryOK, create_file
  PROVE  BinaryOK'
  <1>1. /\ kind = "none" /\ Unparsed /\ binary_parsed = FALSE /\ analysis = NoAnalysis
        /\ UNCHANGED <<disk, base, analysis, told>>
    BY DEF create_file, BinaryOK, live
  <1>2. told = {} /\ main_bin = NoBinary /\ symbol_map = NoNames
    BY <1>1 DEF Unparsed
  <1>3. CASE disk.readable /\ disk.bytes # << >> /\ disk.parses
    <2>1. /\ kind' = "Static" /\ main_bin' = parse_file(disk) /\ binary_parsed' = TRUE
          /\ symbol_map' = static_symbol_map(main_bin')
      BY <1>3 DEF create_file
    <2>2. parse_file(disk).image_base = disk.imagebase
      BY DEF parse_file
    <2>3. symbol_map' = NamesAt(parse_file(disk), disk.imagebase - disk.imagebase)
      BY <2>1, <2>2 DEF static_symbol_map, build_symbol_map
    <2>4. Start' = disk.imagebase
      BY <1>1, <2>1 DEF Start
    <2>5. Parsed'
      BY <1>1, <1>2, <2>1, <2>3, <2>4 DEF Parsed
    <2> QED
      BY <1>1, <2>1, <2>5 DEF BinaryOK, Covered
  <1>4. CASE ~(disk.readable /\ disk.bytes # << >> /\ disk.parses)
    <2>1. kind' = "null" /\ UNCHANGED <<main_bin, binary_parsed, symbol_map>>
      BY <1>4 DEF create_file
    <2> QED
      BY <1>1, <1>2, <2>1 DEF BinaryOK, Covered, Unparsed
  <1> QED
    BY <1>3, <1>4

\* A step that touches neither the binary nor what was told of it.
LEMMA BinaryKept ==
  ASSUME BinaryOK, UNCHANGED <<kind, disk, base, ctx, told>>
  PROVE  BinaryOK'
  <1>1. Start' = Start
    BY DEF Start
  <1>2. UNCHANGED <<main_bin, binary_parsed, symbol_map, analysis>>
    BY DEF ctx
  <1>3. Parsed' <=> Parsed
    BY <1>1, <1>2 DEF Parsed
  <1>4. Unparsed' <=> Unparsed
    BY <1>2 DEF Unparsed
  <1>5. Covered' <=> Covered
    BY <1>2 DEF Covered
  <1> QED
    BY <1>2, <1>3, <1>4, <1>5 DEF BinaryOK

\* What a live session knows after it asked for the binary and told some more.
LEMMA BinaryAsked ==
  ASSUME kind' = "Native", binary_parsed' = TRUE, UNCHANGED <<disk, base>>,
         \/ /\ main_bin' = parse_file(disk) /\ symbol_map' = NamesAt(parse_file(disk), base - disk.imagebase)
            /\ "none" \notin told'
         \/ main_bin' = NoBinary /\ symbol_map' = NoNames /\ "some" \notin told',
         Covered'
  PROVE  BinaryOK'
  <1>1. Start' = base
    BY DEF Start
  <1>2. Parsed' \/ Unparsed'
    BY <1>1 DEF Parsed, Unparsed
  <1> QED
    BY <1>2 DEF BinaryOK

\* The four listings of the binary.
Listed == {"sections", "imports", "exports", "symbols"}

\* Every step keeps what the session knows of its binary.
LEMMA BinaryStep ==
  ASSUME BinaryOK, LiveOK, [Next]_vars
  PROVE  BinaryOK'
  <1>1. CASE create_file
    BY <1>1, BinaryCreated
  <1>2. CASE create_native
    <2>1. kind = "none" /\ kind' = "Native" /\ UNCHANGED <<disk, base, ctx, told>>
      BY <1>2 DEF create_native
    <2>2. UNCHANGED <<main_bin, binary_parsed, symbol_map, analysis, told>>
      BY <2>1 DEF ctx
    <2>3. Unparsed' /\ Covered'
      BY <2>1, <2>2 DEF BinaryOK, Unparsed, Covered
    <2> QED
      BY <2>1, <2>2, <2>3 DEF BinaryOK
  <1>3. CASE destroy
    BY <1>3 DEF destroy, BinaryOK, Unparsed, Covered
  <1>4. CASE core_disasm
    <2>1. kind = "Native" /\ UNCHANGED <<kind, disk, base, analysis, told>>
      BY <1>4 DEF core_disasm, live
    <2>2. CASE UNCHANGED <<main_bin, binary_parsed, symbol_map>>
      <3>1. UNCHANGED <<kind, disk, base, ctx, told>>
        BY <2>1, <2>2 DEF ctx
      <3> QED
        BY <3>1, BinaryKept
    <2>3. ASSUME NEW modules \in ModuleLists, ensure_binary_parsed(modules) PROVE BinaryOK'
      <3>1. /\ binary_parsed' = TRUE
            /\ \/ /\ main_bin' = parse_file(disk) /\ symbol_map' = NamesAt(parse_file(disk), base - disk.imagebase)
                  /\ "none" \notin told
               \/ main_bin' = NoBinary /\ symbol_map' = NoNames /\ "some" \notin told
            /\ \/ UNCHANGED <<main_bin, binary_parsed, symbol_map>>
               \/ analysis = NoAnalysis
        BY <2>1, <2>3, Ensured
      <3>2. Covered'
        BY <2>1, <3>1 DEF BinaryOK, Covered
      <3> QED
        BY <2>1, <3>1, <3>2, BinaryAsked
    <2>4. \/ UNCHANGED <<main_bin, binary_parsed, symbol_map>>
          \/ \E modules \in ModuleLists : ensure_binary_parsed(modules)
      BY <1>4, Zenon DEF core_disasm
    <2> QED
      BY <2>2, <2>3, <2>4
  <1>5. CASE core_binary
    <2>1. PICK modules \in ModuleLists, op \in Listed :
            /\ ensure_binary_parsed(modules)
            /\ answer' = [op |-> op, arg |-> 0, rows |-> BinaryRows(main_bin')[op]]
            /\ told' = Told(op, answer'.rows)
      BY <1>5, Zenon DEF core_binary, Replied, Listed
    <2>2. kind = "Native" /\ UNCHANGED <<kind, disk, base, analysis>>
      BY <1>5 DEF core_binary, live
    <2>3. /\ binary_parsed' = TRUE
          /\ \/ /\ main_bin' = parse_file(disk) /\ symbol_map' = NamesAt(parse_file(disk), base - disk.imagebase)
                /\ "none" \notin told
             \/ main_bin' = NoBinary /\ symbol_map' = NoNames /\ "some" \notin told
          /\ \/ UNCHANGED <<main_bin, binary_parsed, symbol_map>>
             \/ analysis = NoAnalysis
      BY <2>1, <2>2, Ensured
    <2>4. PICK bin : bin = main_bin'
      OBVIOUS
    <2>5. told' = Told(op, BinaryRows(bin)[op])
      BY <2>1, <2>4
    <2>6. /\ bin = parse_file(disk) /\ "none" \notin told => "none" \notin told'
          /\ bin = NoBinary /\ "some" \notin told => "some" \notin told'
      BY <2>5, ToldRight DEF Listed
    <2>7. \/ /\ main_bin' = parse_file(disk) /\ symbol_map' = NamesAt(parse_file(disk), base - disk.imagebase)
             /\ "none" \notin told'
          \/ main_bin' = NoBinary /\ symbol_map' = NoNames /\ "some" \notin told'
      BY <2>3, <2>4, <2>6
    <2>8. Covered'
      BY <2>2, <2>3 DEF BinaryOK, Covered
    <2> QED
      BY <2>2, <2>3, <2>7, <2>8, BinaryAsked
  <1>6. CASE static_binary
    <2>1. PICK op \in Listed :
            /\ answer' = [op |-> op, arg |-> 0, rows |-> BinaryRows(main_bin)[op]]
            /\ told' = Told(op, answer'.rows)
      BY <1>6, Zenon DEF static_binary, Replied, Listed
    <2>2. kind = "Static" /\ UNCHANGED <<kind, disk, base, main_bin, binary_parsed, symbol_map, analysis>>
      BY <1>6 DEF static_binary, live, ctx
    <2>3. Parsed
      BY <2>2 DEF BinaryOK
    <2>4. told' = Told(op, BinaryRows(main_bin)[op])
      BY <2>1
    <2>5. PICK bin : bin = main_bin
      OBVIOUS
    <2>6. bin = parse_file(disk) /\ "none" \notin told
      BY <2>3, <2>5 DEF Parsed
    <2>7. "none" \notin told'
      BY <2>4, <2>5, <2>6, ToldRight DEF Listed
    <2>8. Start' = Start
      BY <2>2 DEF Start
    <2>9. Parsed' /\ Covered'
      BY <2>2, <2>3, <2>7, <2>8 DEF Parsed, BinaryOK, Covered
    <2> QED
      BY <2>2, <2>9 DEF BinaryOK, Parsed
  <1>7. CASE core_analyze
    <2>1. PICK modules \in ModuleLists :
            /\ ensure_binary_parsed(modules)
            /\ analysis' = ResultOf({rip} \cup DOMAIN symbol_map', symbol_map')
      BY <1>7, Zenon DEF core_analyze
    <2>2. kind = "Native" /\ UNCHANGED <<kind, disk, base, told>>
      BY <1>7 DEF core_analyze, live
    <2>3. /\ binary_parsed' = TRUE
          /\ \/ /\ main_bin' = parse_file(disk) /\ symbol_map' = NamesAt(parse_file(disk), base - disk.imagebase)
                /\ "none" \notin told
             \/ main_bin' = NoBinary /\ symbol_map' = NoNames /\ "some" \notin told
      BY <2>1, <2>2, Ensured
    <2>4. PICK names, roots : names = symbol_map' /\ roots = {rip} \cup DOMAIN symbol_map'
      OBVIOUS
    <2>5. DOMAIN names \subseteq roots
      BY <2>4
    <2>6. Covered'
      BY <2>1, <2>3, <2>4, <2>5, ResultCovers DEF Covered
    <2> QED
      BY <2>2, <2>3, <2>6, BinaryAsked
  <1>8. CASE static_analyze
    <2>1. analysis' = ResultOf(({main_bin.entry_point} \ {0}) \cup DOMAIN symbol_map, symbol_map)
      BY <1>8 DEF static_analyze
    <2>2. kind = "Static" /\ UNCHANGED <<kind, disk, base, main_bin, binary_parsed, symbol_map, told>>
      BY <1>8 DEF static_analyze, live
    <2>3. Parsed
      BY <2>2 DEF BinaryOK
    <2>4. PICK names, roots : /\ names = symbol_map
                              /\ roots = ({main_bin.entry_point} \ {0}) \cup DOMAIN symbol_map
      OBVIOUS
    <2>5. DOMAIN names \subseteq roots
      BY <2>4
    <2>6. Covered'
      BY <2>1, <2>2, <2>3, <2>4, <2>5, ResultCovers DEF Covered, Parsed
    <2>7. Start' = Start
      BY <2>2 DEF Start
    <2>8. Parsed'
      BY <2>2, <2>3, <2>7 DEF Parsed
    <2> QED
      BY <2>2, <2>6, <2>8 DEF BinaryOK, Parsed
  <1>9. CASE UNCHANGED <<kind, disk, base, ctx, told>>
    BY <1>9, BinaryKept
  <1>10. \/ create_file \/ create_native \/ destroy \/ core_disasm \/ core_binary \/ static_binary
         \/ core_analyze \/ static_analyze
         \/ UNCHANGED <<kind, disk, base, ctx, told>>
    <2>1. CASE UNCHANGED vars
      BY <2>1 DEF vars, live
    <2>2. CASE used
      BY <2>2 DEF used, live
    <2>3. CASE Call
      <3>1. CASE scan_buffer \/ core_flow \/ core_registers \/ core_listing \/ core_backtrace
        BY <3>1 DEF scan_buffer, core_flow, core_registers, core_listing, core_backtrace, live
      <3>2. CASE core_breakpoints \/ core_strings \/ static_disasm \/ static_modules \/ static_strings
        BY <3>2 DEF core_breakpoints, core_strings, static_disasm, static_modules, static_strings, live
      <3>3. CASE read_memory \/ functions \/ function_blocks \/ xrefs_to \/ inert \/ null_handle
        BY <3>3 DEF read_memory, functions, function_blocks, xrefs_to, inert, null_handle, live
      <3> QED
        BY <2>3, <3>1, <3>2, <3>3 DEF Call
    <2> QED
      BY <2>1, <2>2, <2>3 DEF Next
  <1> QED
    BY <1>1, <1>2, <1>3, <1>4, <1>5, <1>6, <1>7, <1>8, <1>9, <1>10

\* The session knows its binary, or says nothing of it.
LEMMA BinaryInvariant == Spec => []BinaryOK
  <1>1. Init => BinaryOK
    BY DEF Init, BinaryOK, Unparsed, Covered
  <1> QED
    BY <1>1, BinaryStep, LiveInvariant, PTL DEF Spec

\* A row for each function: its address and name.
FunctionRows == [a \in DOMAIN analysis.functions |-> [addr |-> a, name |-> analysis.functions[a]]]

\* Once the functions are analysed, each name of the binary is among their rows.
LEMMA FunctionsNamed ==
  ASSUME BinaryOK, LiveOK, kind \in {"Native", "Static"}, FunctionRows # << >>, main_bin # NoBinary,
         NEW r \in Nat, NamesFor(r) # {}
  PROVE  \E row \in Range(FunctionRows) : row.addr = Start + r /\ row.name \in NamesFor(r)
  <1>1. Parsed
    BY DEF BinaryOK, Unparsed
  <1>2. analysis # NoAnalysis
    <2>1. SUFFICES ASSUME analysis = NoAnalysis PROVE FALSE
      OBVIOUS
    <2>2. analysis.functions = << >>
      BY <2>1 DEF NoAnalysis
    <2>3. FunctionRows = << >>
      BY <2>2 DEF FunctionRows
    <2> QED
      BY <2>3
  <1>3. IsFile(disk) /\ disk.imagebase \in Nat /\ base \in Nat
    BY ListingsAssumption DEF LiveOK, IsFile
  <1>4. PICK delta \in Int : delta = Start - disk.imagebase /\ disk.imagebase + delta + r = Start + r
    BY <1>3 DEF Start
  <1>5. PICK names : names = NamesAt(parse_file(disk), delta) /\ names = symbol_map
    BY <1>1, <1>4 DEF Parsed
  <1>6. PICK a : a = Start + r
    OBVIOUS
  <1>7. a \in DOMAIN names /\ names[a] \in NamesFor(r)
    BY <1>3, <1>4, <1>5, <1>6, NamesKept
  <1>8. a \in DOMAIN analysis.functions /\ analysis.functions[a] \in NamesFor(r)
    BY <1>2, <1>5, <1>7 DEF BinaryOK, Covered
  <1>9. PICK row : row = FunctionRows[a]
    OBVIOUS
  <1>10. row = [addr |-> a, name |-> analysis.functions[a]]
    BY <1>8, <1>9 DEF FunctionRows
  <1>11. row \in Range(FunctionRows)
    <2>1. a \in DOMAIN FunctionRows
      BY <1>8 DEF FunctionRows
    <2> QED
      BY <1>9, <2>1 DEF Range
  <1>12. row.addr = Start + r /\ row.name \in NamesFor(r)
    BY <1>6, <1>8, <1>10
  <1> QED
    BY <1>11, <1>12

(***************************************************************************)
(* The session speaks of one binary for its whole life: a listing that     *)
(* shows the file's rows never meets one that shows none, and an analysis  *)
(* lists each name of the file where it was loaded; for any files, load    *)
(* addresses and failures.  (ensure_binary_parsed, build_symbol_map,       *)
(* irida_functions)                                                        *)
(***************************************************************************)
THEOREM ListingsOneBinary == Spec => []OneBinary
  <1> DEFINE NamesListed ==
               answer.op = "functions" /\ answer.rows # << >> /\ main_bin # NoBinary =>
                 \A r \in 0 .. ImageSize(disk) :
                   NamesFor(r) # {} => \E row \in Range(answer.rows) :
                                         row.addr = Start + r /\ row.name \in NamesFor(r)
  <1>1. Init => NamesListed
    BY DEF Init, NoAnswer
  <1>2. ASSUME BinaryOK, LiveOK, NamesListed, [Next]_vars PROVE NamesListed'
    <2>1. CASE functions
      <3>1. answer' = [op |-> "functions", arg |-> 0, rows |-> FunctionRows]
        BY <2>1 DEF functions, Replied, FunctionRows
      <3>2. kind \in {"Native", "Static"} /\ UNCHANGED <<kind, disk, base, main_bin>>
        BY <2>1 DEF functions, live, ctx
      <3>3. Start' = Start /\ \A r : NamesFor(r)' = NamesFor(r)
        BY <3>2, Zenon DEF Start, NamesFor
      <3>4. answer'.rows = FunctionRows
        BY <3>1
      <3>5. SUFFICES ASSUME FunctionRows # << >>, main_bin # NoBinary,
                            NEW r \in 0 .. ImageSize(disk), NamesFor(r) # {}
                     PROVE  \E row \in Range(FunctionRows) : row.addr = Start + r /\ row.name \in NamesFor(r)
        BY <3>2, <3>3, <3>4
      <3>6. r \in Nat
        BY <3>5
      <3> QED
        BY <1>2, <3>2, <3>5, <3>6, FunctionsNamed
    <2>2. CASE answer' = NoAnswer
      BY <2>2 DEF NoAnswer
    <2>3. CASE UNCHANGED vars
      <3>1. UNCHANGED <<kind, disk, base, main_bin, answer>>
        BY <2>3 DEF vars, live, ctx
      <3>2. Start' = Start /\ \A r : NamesFor(r)' = NamesFor(r)
        BY <3>1, Zenon DEF Start, NamesFor
      <3> QED
        BY <1>2, <3>1, <3>2
    <2>4. ASSUME answer'.op # "functions" PROVE NamesListed'
      BY <2>4
    <2>5. CASE core_disasm \/ static_disasm \/ core_backtrace \/ read_memory \/ core_strings
               \/ static_strings \/ scan_buffer
      <3>1. answer'.op # "functions"
        BY <2>5 DEF core_disasm, static_disasm, core_backtrace, read_memory, core_strings,
           static_strings, scan_buffer, Replied
      <3> QED
        BY <2>4, <3>1
    <2>6. CASE \/ answer'.op \in {"registers", "modules", "maps", "threads", "breakpoints", "sections",
                                  "imports", "exports", "symbols", "analyze", "function_blocks",
                                  "xrefs_to", "null"}
               \/ answer'.op = "backtrace"
      <3>1. answer'.op # "functions"
        BY <2>6
      <3> QED
        BY <2>4, <3>1
    <2> QED
      BY <1>2, <2>1, <2>2, <2>3, <2>5, <2>6, AnswerStep
  <1>3. BinaryOK /\ LiveOK /\ NamesListed => OneBinary
    <2>1. BinaryOK /\ LiveOK => told # {"some", "none"}
      BY DEF BinaryOK, LiveOK, Parsed, Unparsed
    <2> QED
      BY <2>1 DEF OneBinary
  <1> QED
    BY <1>1, <1>2, <1>3, LiveInvariant, BinaryInvariant, PTL DEF Spec

-----------------------------------------------------------------------------
(* Scans                                                                     *)

\* Induction from the end of a range: a set that holds each position all the
\* later ones of which it holds is the whole range.
LEMMA Downward ==
  ASSUME NEW m \in Nat, NEW T \in SUBSET (1 .. m),
         \A i \in 1 .. m : (\A j \in i + 1 .. m : j \in T) => i \in T
  PROVE  T = 1 .. m
  <1> SUFFICES ASSUME (1 .. m) \ T # {} PROVE FALSE
    OBVIOUS
  <1> DEFINE D == {d \in Nat : m - d \in 1 .. m /\ m - d \notin T}
  <1>1. D # {}
    <2>1. PICK i \in 1 .. m : i \notin T
      OBVIOUS
    <2>2. m - i \in Nat /\ m - (m - i) = i
      BY <2>1
    <2> QED
      BY <2>1, <2>2
  <1>2. PICK d \in D : \A k \in D : d <= k
    BY <1>1, LeastNatural
  <1>3. \A j \in (m - d) + 1 .. m : j \in T
    <2> SUFFICES ASSUME NEW j \in (m - d) + 1 .. m, j \notin T PROVE FALSE
      OBVIOUS
    <2>1. m - j \in Nat /\ m - (m - j) = j /\ m - j < d /\ j \in 1 .. m
      BY <1>2
    <2> QED
      BY <1>2, <2>1
  <1> QED
    BY <1>2, <1>3

\* A function defined at each position from its value at a later one.
Descends(f, S, m, Go, next, turn, out) ==
  /\ f \in [1 .. m -> S]
  /\ \A i \in 1 .. m : f[i] = IF i \in Go THEN turn[<<i, f[next[i]]>>] ELSE out[i]

\* There is such a function.
LEMMA Descent ==
  ASSUME NEW S, NEW m \in Nat, NEW Go \in SUBSET (1 .. m), NEW next,
         \A i \in Go : next[i] \in i + 1 .. m,
         NEW turn \in [(1 .. m) \X S -> S], NEW out \in [1 .. m -> S]
  PROVE  \E f : Descends(f, S, m, Go, next, turn, out)
  <1> DEFINE Holds(f, a) == /\ f \in [a .. m -> S]
                            /\ \A i \in a .. m : f[i] = IF i \in Go THEN turn[<<i, f[next[i]]>>] ELSE out[i]
             T == {i \in 1 .. m : \E f : Holds(f, i)}
  <1>1. ASSUME NEW i \in 1 .. m, \A j \in i + 1 .. m : j \in T PROVE i \in T
    <2>1. PICK f : Holds(f, i + 1)
      <3>1. CASE i = m
        <4>1. Holds([k \in m + 1 .. m |-> out[k]], m + 1)
          BY SMT
        <4> QED
          BY <3>1, <4>1
      <3>2. CASE i # m
        <4>1. i + 1 \in i + 1 .. m
          BY <3>2
        <4>2. i + 1 \in T
          BY ONLY <1>1, <4>1
        <4> QED
          BY <4>2
      <3> QED
        BY <3>1, <3>2
    <2>2. PICK v \in S : v = IF i \in Go THEN turn[<<i, f[next[i]]>>] ELSE out[i]
      <3>1. i \in Go => f[next[i]] \in S
        BY <2>1
      <3> QED
        BY <3>1
    <2>3. PICK g : g = [k \in i .. m |-> IF k = i THEN v ELSE f[k]]
      OBVIOUS
    <2>4. g \in [i .. m -> S]
      BY <2>1, <2>2, <2>3
    <2>5. ASSUME NEW k \in i .. m PROVE g[k] = IF k \in Go THEN turn[<<k, g[next[k]]>>] ELSE out[k]
      <3>1. k \in Go => next[k] \in i + 1 .. m
        BY <1>1
      <3>2. k \in Go => g[next[k]] = f[next[k]]
        BY <2>3, <3>1
      <3>3. CASE k = i
        BY <2>2, <2>3, <3>2, <3>3
      <3>4. CASE k # i
        <4>1. k \in i + 1 .. m
          BY <3>4
        <4>2. g[k] = f[k]
          BY <2>3, <4>1
        <4> QED
          BY <2>1, <3>2, <4>1, <4>2
      <3> QED
        BY <3>3, <3>4
    <2> QED
      BY <2>4, <2>5
  <1> HIDE DEF T
  <1>2. T \in SUBSET (1 .. m)
    BY DEF T
  <1>3. T = 1 .. m
    BY <1>1, <1>2, Downward
  <1>4. CASE m = 0
    <2>1. Holds([k \in 1 .. m |-> out[k]], 1)
      BY <1>4, SMT
    <2> QED
      BY <2>1, SMT DEF Descends
  <1>5. CASE m # 0
    <2>1. 1 \in T
      BY <1>3, <1>5
    <2>2. PICK f : Holds(f, 1)
      BY <2>1 DEF T
    <2> QED
      BY <2>2 DEF Descends
  <1> QED
    BY <1>4, <1>5

\* Where the units from each position end: a unit is followed by the next one.
IsEnd(f, U, m, step) ==
  \A i \in 1 .. m : f[i] = IF i \in U THEN f[i + step] ELSE i

\* q units follow each other from i on, and no more.
UnitsFrom(U, step, i, q) ==
  /\ \A k \in 0 .. q - 1 : i + step * k \in U
  /\ i + step * q \notin U

\* The end of the units from a position, one or two bytes wide.
LEMMA EndOfUnits ==
  ASSUME NEW m \in Nat, NEW step \in {1, 2}, NEW U \in SUBSET (1 .. m - step), NEW f, IsEnd(f, U, m, step)
  PROVE  \A i \in 1 .. m : \E q \in Nat : f[i] = i + step * q /\ UnitsFrom(U, step, i, q)
  <1> DEFINE Right(i) == \E q \in Nat : f[i] = i + step * q /\ UnitsFrom(U, step, i, q)
             T == {i \in 1 .. m : Right(i)}
  <1>1. ASSUME NEW i \in 1 .. m, \A j \in i + 1 .. m : j \in T PROVE Right(i)
    <2>1. CASE i \notin U
      <3>1. f[i] = i + step * 0 /\ UnitsFrom(U, step, i, 0)
        BY <2>1 DEF IsEnd, UnitsFrom
      <3> QED
        BY <3>1
    <2>2. CASE i \in U
      <3>1. i + step \in i + 1 .. m /\ f[i] = f[i + step]
        BY <2>2 DEF IsEnd
      <3>2. PICK p \in Nat : f[i + step] = (i + step) + step * p /\ UnitsFrom(U, step, i + step, p)
        BY <1>1, <3>1
      <3>3. i + step * (p + 1) = (i + step) + step * p
        BY <3>2
      <3>4. ASSUME NEW k \in 0 .. p PROVE i + step * k \in U
        <4>1. CASE k = 0
          BY <2>2, <4>1
        <4>2. CASE k # 0
          <5>1. k - 1 \in 0 .. p - 1 /\ i + step * k = (i + step) + step * (k - 1)
            BY <4>2
          <5> QED
            BY <3>2, <5>1 DEF UnitsFrom
        <4> QED
          BY <4>1, <4>2
      <3>5. UnitsFrom(U, step, i, p + 1)
        BY <3>2, <3>3, <3>4 DEF UnitsFrom
      <3> QED
        BY <3>1, <3>2, <3>3, <3>5
    <2> QED
      BY <2>1, <2>2
  <1> HIDE DEF Right
  <1>2. T = 1 .. m
    BY <1>1, Downward
  <1> QED
    BY <1>2 DEF Right

\* The strings of at least MinLen units, one after the other and no longer.
RunsOf(U, step, L) ==
  {r \in [from : 1 .. L, len : MinLen .. L] :
     UnitsFrom(U, step, r.from, r.len) /\ r.from - step \notin U}

\* There is at most one string from a position: all of its units.
LEMMA OneLength ==
  ASSUME NEW step \in {1, 2}, NEW U, NEW i \in Nat, NEW p \in Nat, NEW q \in Nat,
         UnitsFrom(U, step, i, p), UnitsFrom(U, step, i, q)
  PROVE  p = q
  <1>1. ~(p < q)
    <2> SUFFICES ASSUME p < q PROVE FALSE
      OBVIOUS
    <2>1. p \in 0 .. q - 1
      OBVIOUS
    <2> QED
      BY <2>1 DEF UnitsFrom
  <1>2. ~(q < p)
    <2> SUFFICES ASSUME q < p PROVE FALSE
      OBVIOUS
    <2>1. q \in 0 .. p - 1
      OBVIOUS
    <2> QED
      BY <2>1 DEF UnitsFrom
  <1> QED
    BY <1>1, <1>2

\* What a pass finds that starts at i, where no string is under way.
FreshStart(U, step, i) ==
  IF step = 1 THEN i - 1 \notin U ELSE i - 1 \notin U /\ (i \in U => i - 2 \notin U)

\* Where a pass goes on after the units from i.
Following(step, i, q) ==
  IF step = 1 THEN i + q + 1 ELSE IF q = 0 THEN i + 1 ELSE i + 2 * q

\* Two wide characters do not overlap.
Apart(U, step) == step = 2 => \A i \in U : i + 1 \notin U

\* A string starts in the stretch a pass takes in one turn exactly when the
\* units it starts with are long enough, and then there; the next turn again has
\* a fresh start.
LEMMA OneTurn ==
  ASSUME NEW step \in {1, 2}, NEW L \in Nat, NEW U \in SUBSET (1 .. L), Apart(U, step),
         NEW i \in 1 .. L, FreshStart(U, step, i), NEW q \in Nat, UnitsFrom(U, step, i, q),
         NEW r \in RunsOf(U, step, L), i <= r.from, r.from < Following(step, i, q)
  PROVE  r = [from |-> i, len |-> q] /\ q >= MinLen
  <1>1. r.from \in 1 .. L /\ r.len \in MinLen .. L /\ r = [from |-> r.from, len |-> r.len]
    BY DEF RunsOf
  <1>2. MinLen \in Nat \ {0}
    BY ImageAssumption
  <1>3. r.from \in U
    <2>1. 0 \in 0 .. r.len - 1 /\ r.from + step * 0 = r.from
      BY <1>1, <1>2
    <2> QED
      BY <2>1 DEF RunsOf, UnitsFrom
  <1>4. r.from - step \notin U
    BY DEF RunsOf
  <1>5. r.from = i
    <2> SUFFICES ASSUME r.from # i PROVE FALSE
      OBVIOUS
    <2>1. CASE step = 1
      <3>1. CASE r.from = i + q
        BY <1>3, <2>1, <3>1 DEF UnitsFrom
      <3>2. CASE r.from # i + q
        <4>1. r.from - i - 1 \in 0 .. q - 1 /\ i + 1 * (r.from - i - 1) = r.from - 1
          BY <1>1, <2>1, <3>2 DEF Following
        <4> QED
          BY <1>4, <2>1, <4>1 DEF UnitsFrom
      <3> QED
        BY <3>1, <3>2
    <2>2. CASE step = 2
      <3>1. q # 0 /\ i < r.from /\ r.from < i + 2 * q
        BY <1>1, <2>2 DEF Following
      <3>2. PICK k \in 0 .. q - 1 : r.from = i + 2 * k \/ r.from = (i + 2 * k) + 1
        <4>1. (r.from - i) \div 2 \in 0 .. q - 1
          BY <1>1, <3>1
        <4>2. r.from = i + 2 * ((r.from - i) \div 2) \/ r.from = (i + 2 * ((r.from - i) \div 2)) + 1
          BY <1>1, <3>1
        <4> QED
          BY <4>1, <4>2
      <3>3. CASE r.from = i + 2 * k
        <4>1. k - 1 \in 0 .. q - 1 /\ i + 2 * (k - 1) = r.from - 2
          BY <1>1, <3>1, <3>2, <3>3
        <4> QED
          BY <1>4, <2>2, <4>1 DEF UnitsFrom
      <3>4. CASE r.from = (i + 2 * k) + 1
        BY <1>3, <2>2, <3>2, <3>4 DEF UnitsFrom, Apart
      <3> QED
        BY <3>2, <3>3, <3>4
    <2> QED
      BY <2>1, <2>2
  <1>6. r.len = q
    <2>1. UnitsFrom(U, step, i, r.len) /\ r.len \in Nat
      BY <1>1, <1>2, <1>5 DEF RunsOf
    <2> QED
      BY <2>1, OneLength
  <1> QED
    BY <1>1, <1>5, <1>6

\* The units from a fresh start are a string when there are enough of them.
LEMMA RunFound ==
  ASSUME NEW step \in {1, 2}, NEW L \in Nat, NEW U \in SUBSET (1 .. L),
         NEW i \in 1 .. L, FreshStart(U, step, i), NEW q \in Nat, UnitsFrom(U, step, i, q), q >= MinLen
  PROVE  [from |-> i, len |-> q] \in RunsOf(U, step, L)
  <1>1. q - 1 \in 0 .. q - 1 /\ 0 \in 0 .. q - 1 /\ MinLen \in Nat
    BY ImageAssumption
  <1>2. i + step * (q - 1) \in U /\ i + step * 0 \in U
    BY <1>1 DEF UnitsFrom
  <1>3. q \in MinLen .. L
    BY <1>1, <1>2
  <1>4. i - step \notin U
    BY <1>2 DEF FreshStart
  <1> QED
    BY <1>3, <1>4 DEF RunsOf

\* The turn after a fresh start has one too, and lies ahead.
LEMMA FreshAgain ==
  ASSUME NEW step \in {1, 2}, NEW L \in Nat, NEW U \in SUBSET (1 .. L), Apart(U, step),
         NEW i \in 1 .. L, FreshStart(U, step, i), NEW q \in Nat, UnitsFrom(U, step, i, q)
  PROVE  FreshStart(U, step, Following(step, i, q)) /\ i < Following(step, i, q)
  <1>1. CASE step = 1
    BY <1>1 DEF FreshStart, Following, UnitsFrom
  <1>2. CASE step = 2 /\ q = 0
    BY <1>2 DEF FreshStart, Following, UnitsFrom
  <1>3. CASE step = 2 /\ q # 0
    <2>1. q - 1 \in 0 .. q - 1 /\ (i + 2 * (q - 1)) + 1 = (i + 2 * q) - 1
      BY <1>3
    <2>2. i + 2 * (q - 1) \in U
      BY <1>3, <2>1 DEF UnitsFrom
    <2>3. (i + 2 * q) - 1 \notin U
      BY <1>3, <2>1, <2>2 DEF Apart
    <2> QED
      BY <1>3, <2>3 DEF FreshStart, Following, UnitsFrom
  <1> QED
    BY <1>1, <1>2, <1>3

\* A listed string, and where it lies.
Strung(D) == [addr : Int, text : Seq(D), utf16 : BOOLEAN]
Place(x, start) == [from |-> x.addr - start + 1, len |-> Len(x.text)]

\* These rows are the strings of R from i on, each once.
Finds(rows, R, i, start, wide) ==
  /\ \A k \in DOMAIN rows :
       Place(rows[k], start) \in R /\ rows[k].utf16 = wide /\ i <= Place(rows[k], start).from
  /\ \A r \in R : i <= r.from => \E k \in DOMAIN rows : Place(rows[k], start) = r
  /\ \A k, l \in DOMAIN rows : rows[k] = rows[l] => k = l

\* What one turn puts before the strings found later.
IsPiece(piece, i, q, start, wide) ==
  IF q >= MinLen THEN /\ Len(piece) = 1 /\ piece[1].utf16 = wide
                      /\ Place(piece[1], start) = [from |-> i, len |-> q]
  ELSE piece = << >>

\* A string, if any, before the ones found from j on.
LEMMA FindsMore ==
  ASSUME NEW S, NEW piece \in Seq(S), NEW rest \in Seq(S), NEW start \in Int, NEW wide,
         NEW i \in Nat, NEW q \in Nat, NEW j \in Nat, i < j, IsPiece(piece, i, q, start, wide),
         NEW R, \A r \in R : r.from \in Nat, Finds(rest, R, j, start, wide),
         q >= MinLen => [from |-> i, len |-> q] \in R,
         \A r \in R : i <= r.from /\ r.from < j => r = [from |-> i, len |-> q] /\ q >= MinLen
  PROVE  Finds(piece \o rest, R, i, start, wide)
  <1> DEFINE all == piece \o rest
  <1>1. CASE q >= MinLen
    <2>1. Len(piece) = 1 /\ Len(all) = Len(rest) + 1 /\ DOMAIN all = 1 .. Len(rest) + 1
      <3>1. Len(piece) = 1
        BY ONLY <1>1, IsPiece(piece, i, q, start, wide) DEF IsPiece
      <3>2. piece \o rest \in Seq(S) /\ Len(piece \o rest) = Len(piece) + Len(rest)
        OBVIOUS
      <3> QED
        BY <3>1, <3>2
    <2>2. all[1] = piece[1] /\ \A k \in 2 .. Len(rest) + 1 : all[k] = rest[k - 1] /\ k - 1 \in DOMAIN rest
      BY <2>1
    <2>3. Place(all[1], start) = [from |-> i, len |-> q] /\ all[1].utf16 = wide
      BY <1>1, <2>2 DEF IsPiece
    <2> HIDE DEF all
    <2>4. \A k \in 2 .. Len(rest) + 1 :
            /\ Place(all[k], start) \in R /\ all[k].utf16 = wide
            /\ j <= Place(all[k], start).from /\ Place(all[k], start).from \in Nat
      BY <2>2 DEF Finds
    <2>5. \A k \in DOMAIN all :
            Place(all[k], start) \in R /\ all[k].utf16 = wide /\ i <= Place(all[k], start).from
      <3> SUFFICES ASSUME NEW k \in DOMAIN all
                   PROVE  Place(all[k], start) \in R /\ all[k].utf16 = wide /\ i <= Place(all[k], start).from
        OBVIOUS
      <3>1. CASE k = 1
        BY <1>1, <2>3, <3>1
      <3>2. CASE k # 1
        BY <2>1, <2>4, <3>2
      <3> QED
        BY <3>1, <3>2
    <2>6. ASSUME NEW r \in R, i <= r.from PROVE \E k \in DOMAIN all : Place(all[k], start) = r
      <3>1. CASE r.from < j
        BY <2>1, <2>3, <2>6, <3>1
      <3>2. CASE ~(r.from < j)
        <4>1. PICK k \in DOMAIN rest : Place(rest[k], start) = r
          BY <3>2 DEF Finds
        <4>2. k + 1 \in 2 .. Len(rest) + 1 /\ all[k + 1] = rest[k]
          BY <2>2, <4>1
        <4> QED
          BY <2>1, <4>1, <4>2
      <3> QED
        BY <3>1, <3>2
    <2>7. ASSUME NEW k \in DOMAIN all, NEW l \in DOMAIN all, all[k] = all[l] PROVE k = l
      <3>1. \A n \in 2 .. Len(rest) + 1 : all[n] # all[1]
        <4> SUFFICES ASSUME NEW n \in 2 .. Len(rest) + 1, all[n] = all[1] PROVE FALSE
          OBVIOUS
        <4>1. j <= Place(all[1], start).from
          BY <2>4
        <4>2. Place(all[1], start).from = i
          BY <2>3
        <4> QED
          BY <4>1, <4>2
      <3>2. CASE k = 1 \/ l = 1
        BY <2>1, <2>7, <3>1, <3>2
      <3>3. CASE k # 1 /\ l # 1
        <4>1. k - 1 \in DOMAIN rest /\ l - 1 \in DOMAIN rest /\ rest[k - 1] = rest[l - 1]
          BY <2>1, <2>2, <2>7, <3>3
        <4>2. k - 1 = l - 1
          BY <4>1 DEF Finds
        <4> QED
          BY <2>1, <4>2
      <3> QED
        BY <3>2, <3>3
    <2> QED
      BY <2>5, <2>6, <2>7 DEF Finds, all
  <1>2. CASE ~(q >= MinLen)
    <2>1. piece = << >> /\ piece \o rest = rest
      BY <1>2 DEF IsPiece
    <2>2. \A k \in DOMAIN rest : i <= Place(rest[k], start).from
      <3> SUFFICES ASSUME NEW k \in DOMAIN rest PROVE i <= Place(rest[k], start).from
        OBVIOUS
      <3>1. Place(rest[k], start) \in R /\ j <= Place(rest[k], start).from
        BY DEF Finds
      <3> QED
        BY <3>1
    <2>3. \A r \in R : i <= r.from => j <= r.from
      BY <1>2
    <2> QED
      BY <2>1, <2>2, <2>3 DEF Finds
  <1> QED
    BY <1>1, <1>2

\* One turn of a pass over units of one or two bytes: at `last` it is over, before
\* it takes the units at i.
IsTurn(scan, S, m, last, U, step, start, wide, i) ==
  IF i > last THEN scan[i] = << >>
  ELSE \E q \in Nat : \E piece \in Seq(S) :
         /\ UnitsFrom(U, step, i, q) /\ Following(step, i, q) \in 1 .. m
         /\ IsPiece(piece, i, q, start, wide)
         /\ scan[i] = piece \o scan[Following(step, i, q)]

\* A pass finds the strings, each once.
LEMMA PassFinds ==
  ASSUME NEW S, NEW L \in Nat, NEW m \in Nat \ {0}, NEW last \in Nat, last <= L, NEW step \in {1, 2},
         NEW U \in SUBSET (1 .. last), Apart(U, step), NEW start \in Int, NEW wide,
         NEW scan,
         \A i \in 1 .. m : IsTurn(scan, S, m, last, U, step, start, wide, i)
  PROVE  scan[1] \in Seq(S) /\ Finds(scan[1], RunsOf(U, step, L), 1, start, wide)
  <1> DEFINE R == RunsOf(U, step, L)
             Right(i) == scan[i] \in Seq(S) /\ (FreshStart(U, step, i) => Finds(scan[i], R, i, start, wide))
             T == {i \in 1 .. m : Right(i)}
  <1>1. \A r \in R : r.from \in Nat /\ r.from \in U
    <2> SUFFICES ASSUME NEW r \in R PROVE r.from \in Nat /\ r.from \in U
      OBVIOUS
    <2>1. r.len \in Nat \ {0} /\ r.from \in 1 .. L
      BY ImageAssumption DEF RunsOf
    <2>2. 0 \in 0 .. r.len - 1 /\ r.from + step * 0 = r.from
      BY <2>1
    <2> QED
      BY <2>1, <2>2 DEF RunsOf, UnitsFrom
  <1>2. ASSUME NEW i \in 1 .. m, \A j \in i + 1 .. m : j \in T PROVE Right(i)
    <2>1. IsTurn(scan, S, m, last, U, step, start, wide, i)
      OBVIOUS
    <2>2. CASE i > last
      <3>1. scan[i] = << >> /\ \A r \in R : ~(i <= r.from)
        BY <1>1, <2>1, <2>2 DEF IsTurn
      <3> QED
        BY <3>1 DEF Finds
    <2>3. CASE ~(i > last)
      <3> HIDE DEF R
      <3>1. PICK q \in Nat, piece \in Seq(S) :
              /\ UnitsFrom(U, step, i, q) /\ Following(step, i, q) \in 1 .. m
              /\ IsPiece(piece, i, q, start, wide)
              /\ scan[i] = piece \o scan[Following(step, i, q)]
        BY <2>1, <2>3 DEF IsTurn
      <3>2. i \in 1 .. L /\ U \in SUBSET (1 .. L)
        BY <2>3
      <3>3. /\ i < Following(step, i, q)
            /\ FreshStart(U, step, i) => FreshStart(U, step, Following(step, i, q))
        <4>1. i < Following(step, i, q)
          BY <3>1 DEF Following
        <4> QED
          BY <3>1, <3>2, <4>1, FreshAgain
      <3>4. PICK j \in 1 .. m : j = Following(step, i, q)
        BY <3>1
      <3>5. j \in T
        BY <1>2, <3>3, <3>4
      <3>6. scan[j] \in Seq(S) /\ i \in Nat /\ j \in Nat /\ i < j /\ scan[i] = piece \o scan[j]
        BY <3>1, <3>3, <3>4, <3>5
      <3>7. ASSUME FreshStart(U, step, i) PROVE Finds(piece \o scan[j], R, i, start, wide)
        <4>1. Finds(scan[j], R, j, start, wide)
          BY <3>3, <3>4, <3>5, <3>7
        <4>2. q >= MinLen => [from |-> i, len |-> q] \in R
          BY <3>1, <3>2, <3>7, RunFound DEF R
        <4>3. \A r \in R : i <= r.from /\ r.from < j => r = [from |-> i, len |-> q] /\ q >= MinLen
          BY <3>1, <3>2, <3>4, <3>7, OneTurn DEF R
        <4> QED
          BY <1>1, <3>1, <3>6, <4>1, <4>2, <4>3, FindsMore
      <3>8. piece \o scan[j] \in Seq(S)
        BY <3>1, <3>6
      <3> QED
        BY <3>6, <3>7, <3>8
    <2> QED
      BY <2>2, <2>3
  <1>3. FreshStart(U, step, 1)
    BY DEF FreshStart
  <1> HIDE DEF Right
  <1>4. \A i \in 1 .. m : (\A j \in i + 1 .. m : j \in T) => i \in T
    BY <1>2
  <1>5. T \in SUBSET (1 .. m) /\ m \in Nat
    OBVIOUS
  <1> HIDE DEF T
  <1>6. T = 1 .. m
    BY <1>4, <1>5, Downward
  <1> QED
    BY <1>3, <1>6 DEF Right, T

\* Where the units of each encoding begin in the data.
Units(data, step) ==
  {i \in 1 .. Len(data) : /\ i + step - 1 <= Len(data) /\ is_printable(data[i])
                          /\ step = 2 => data[i + 1] = 0}

\* The functions the two passes are defined with.
IsAsciiEnd(data, f) ==
  f = [i \in 1 .. Len(data) + 1 |-> IF i <= Len(data) /\ is_printable(data[i]) THEN f[i + 1] ELSE i]
AsciiEnd(data) == CHOOSE f : IsAsciiEnd(data, f)

IsAsciiScan(data, start, end, f) ==
  f = [i \in 1 .. Len(data) + 2 |->
         IF i > Len(data) THEN << >>
         ELSE (IF end[i] - i >= MinLen
               THEN <<[addr |-> start + i - 1, text |-> SubSeq(data, i, end[i] - 1), utf16 |-> FALSE]>>
               ELSE << >>) \o f[end[i] + 1]]
AsciiScan(data, start, end) == CHOOSE f : IsAsciiScan(data, start, end, f)

\* The first pass, by the two functions it is defined with.
LEMMA AsciiIs ==
  ASSUME NEW data, NEW start
  PROVE  AsciiPass(data, start) = AsciiScan(data, start, AsciiEnd(data))[1]
  BY Zenon DEF AsciiPass, AsciiScan, IsAsciiScan, AsciiEnd, IsAsciiEnd

IsUtf16End(data, f) ==
  f = [j \in 1 .. Len(data) + 2 |->
         IF j + 1 <= Len(data) /\ data[j + 1] = 0 /\ is_printable(data[j]) THEN f[j + 2] ELSE j]
Utf16End(data) == CHOOSE f : IsUtf16End(data, f)
Utf16Text(data, end, i) == [k \in 1 .. (end[i] - i) \div 2 |-> data[i + 2 * (k - 1)]]
IsUtf16Scan(data, start, end, f) ==
  f = [i \in 1 .. Len(data) + 2 |->
         IF i + 1 > Len(data) THEN << >>
         ELSE (IF Len(Utf16Text(data, end, i)) >= MinLen
               THEN <<[addr |-> start + i - 1, text |-> Utf16Text(data, end, i), utf16 |-> TRUE]>>
               ELSE << >>)
              \o f[IF end[i] > i THEN end[i] ELSE i + 1]]
Utf16Scan(data, start, end) == CHOOSE f : IsUtf16Scan(data, start, end, f)

\* The second pass, by its two functions.
LEMMA Utf16Is ==
  ASSUME NEW data, NEW start
  PROVE  Utf16Pass(data, start) = Utf16Scan(data, start, Utf16End(data))[1]
  BY Zenon DEF Utf16Pass, Utf16Scan, IsUtf16Scan, Utf16End, IsUtf16End, Utf16Text

\* There is a function that says where the units end.
LEMMA EndsExist ==
  ASSUME NEW m \in Nat, NEW step \in {1, 2}, NEW U \in SUBSET (1 .. m - step)
  PROVE  \E f : /\ DOMAIN f = 1 .. m /\ f = [i \in 1 .. m |-> f[i]]
                /\ \A i \in 1 .. m : f[i] = IF i \in U THEN f[i + step] ELSE i
  <1> DEFINE next == [i \in 1 .. m |-> i + step]
             turn == [p \in (1 .. m) \X (1 .. m) |-> p[2]]
             out == [i \in 1 .. m |-> i]
  <1>1. U \in SUBSET (1 .. m) /\ \A i \in U : next[i] \in i + 1 .. m /\ next[i] = i + step
    OBVIOUS
  <1>2. turn \in [(1 .. m) \X (1 .. m) -> 1 .. m] /\ out \in [1 .. m -> 1 .. m]
    OBVIOUS
  <1>3. PICK f : Descends(f, 1 .. m, m, U, next, turn, out)
    <2> HIDE DEF next, turn, out
    <2> QED
      BY <1>1, <1>2, Descent
  <1>4. ASSUME NEW i \in 1 .. m, i \in U PROVE f[i] = f[i + step]
    <2>1. i + step \in 1 .. m /\ next[i] = i + step
      BY <1>4
    <2>2. f[i] = turn[<<i, f[i + step]>>] /\ f[i + step] \in 1 .. m
      BY <1>3, <1>4, <2>1 DEF Descends
    <2> QED
      BY <2>2
  <1>5. ASSUME NEW i \in 1 .. m, i \notin U PROVE f[i] = i
    <2>1. f[i] = out[i]
      BY <1>3, <1>5 DEF Descends
    <2> QED
      BY <2>1
  <1>6. DOMAIN f = 1 .. m /\ f = [i \in 1 .. m |-> f[i]]
    BY <1>3 DEF Descends
  <1> QED
    BY <1>4, <1>5, <1>6

\* A function that puts each turn's piece before what the later turns found.
Gathered(f, m, last, next, piece) ==
  /\ DOMAIN f = 1 .. m /\ f = [i \in 1 .. m |-> f[i]]
  /\ \A i \in 1 .. m : f[i] = IF i > last THEN << >> ELSE piece[i] \o f[next[i]]

\* There is such a function.
LEMMA PiecesExist ==
  ASSUME NEW S, NEW m \in Nat, NEW last \in Nat, last <= m, NEW next,
         \A i \in 1 .. last : next[i] \in i + 1 .. m,
         NEW piece, \A i \in 1 .. last : piece[i] \in Seq(S)
  PROVE  \E f : Gathered(f, m, last, next, piece)
  <1> DEFINE Go == 1 .. last
             turn == [p \in (1 .. m) \X Seq(S) |-> IF p[1] \in Go THEN piece[p[1]] \o p[2] ELSE << >>]
             out == [i \in 1 .. m |-> << >>]
  <1>1. Go \in SUBSET (1 .. m)
    OBVIOUS
  <1>2. out \in [1 .. m -> Seq(S)]
    OBVIOUS
  <1>3. turn \in [(1 .. m) \X Seq(S) -> Seq(S)]
    <2>1. ASSUME NEW p \in (1 .. m) \X Seq(S)
          PROVE  (IF p[1] \in Go THEN piece[p[1]] \o p[2] ELSE << >>) \in Seq(S)
      <3>1. CASE p[1] \in Go
        <4>1. piece[p[1]] \in Seq(S) /\ p[2] \in Seq(S)
          BY <3>1
        <4> QED
          BY <3>1, <4>1
      <3>2. CASE p[1] \notin Go
        BY <3>2
      <3> QED
        BY <3>1, <3>2
    <2> QED
      BY <2>1
  <1>4. PICK f : Descends(f, Seq(S), m, Go, next, turn, out)
    <2> HIDE DEF turn, out
    <2> QED
      BY <1>1, <1>2, <1>3, Descent
  <1>5. ASSUME NEW i \in 1 .. m, ~(i > last) PROVE f[i] = piece[i] \o f[next[i]]
    <2>1. i \in Go /\ next[i] \in 1 .. m
      BY <1>5
    <2>2. f[i] = turn[<<i, f[next[i]]>>] /\ f[next[i]] \in Seq(S)
      BY <1>4, <2>1 DEF Descends
    <2>3. PICK v \in Seq(S) : v = f[next[i]]
      BY <2>2
    <2>4. turn[<<i, v>>] = piece[i] \o v
      BY <2>1
    <2> QED
      BY <2>2, <2>3, <2>4
  <1>6. ASSUME NEW i \in 1 .. m, i > last PROVE f[i] = << >>
    <2>1. i \notin Go
      BY <1>6
    <2>2. f[i] = out[i]
      BY <1>4, <2>1 DEF Descends
    <2> QED
      BY <2>2
  <1>7. DOMAIN f = 1 .. m /\ f = [i \in 1 .. m |-> f[i]]
    BY <1>4 DEF Descends
  <1> QED
    BY <1>5, <1>6, <1>7 DEF Gathered

\* The runs of printable bytes end where the pass says.
LEMMA AsciiEnds ==
  ASSUME NEW D, NEW data \in Seq(D)
  PROVE  IsEnd(AsciiEnd(data), Units(data, 1), Len(data) + 1, 1)
  <1> DEFINE m == Len(data) + 1
             U == Units(data, 1)
  <1>1. m \in Nat /\ U \in SUBSET (1 .. m - 1)
    BY DEF Units
  <1>2. \A i \in 1 .. m : i \in U <=> i <= Len(data) /\ is_printable(data[i])
    BY DEF Units
  <1> HIDE DEF U
  <1>3. PICK f : /\ DOMAIN f = 1 .. m /\ f = [i \in 1 .. m |-> f[i]]
                 /\ \A i \in 1 .. m : f[i] = IF i \in U THEN f[i + 1] ELSE i
    BY <1>1, EndsExist
  <1>4. f = [i \in 1 .. m |-> IF i <= Len(data) /\ is_printable(data[i]) THEN f[i + 1] ELSE i]
    BY <1>2, <1>3
  <1>5. IsAsciiEnd(data, f)
    BY <1>4 DEF IsAsciiEnd
  <1>6. PICK g : g = AsciiEnd(data) /\ IsAsciiEnd(data, g)
    BY <1>5, Zenon DEF AsciiEnd
  <1>7. \A i \in 1 .. m : g[i] = IF i \in U THEN g[i + 1] ELSE i
    BY <1>2, <1>6 DEF IsAsciiEnd
  <1> QED
    BY <1>6, <1>7 DEF IsEnd, U

\* The runs of wide characters end where the pass says.
LEMMA Utf16Ends ==
  ASSUME NEW D, NEW data \in Seq(D)
  PROVE  IsEnd(Utf16End(data), Units(data, 2), Len(data) + 2, 2)
  <1> DEFINE m == Len(data) + 2
             U == Units(data, 2)
  <1>1. m \in Nat /\ U \in SUBSET (1 .. m - 2)
    BY DEF Units
  <1>2. \A j \in 1 .. m : j \in U <=> j + 1 <= Len(data) /\ data[j + 1] = 0 /\ is_printable(data[j])
    BY DEF Units
  <1> HIDE DEF U
  <1>3. PICK f : /\ DOMAIN f = 1 .. m /\ f = [i \in 1 .. m |-> f[i]]
                 /\ \A i \in 1 .. m : f[i] = IF i \in U THEN f[i + 2] ELSE i
    <2>1. 2 \in {1, 2}
      OBVIOUS
    <2> HIDE DEF m
    <2> QED
      BY <1>1, <2>1, EndsExist, Zenon
  <1>4. f = [j \in 1 .. m |->
               IF j + 1 <= Len(data) /\ data[j + 1] = 0 /\ is_printable(data[j]) THEN f[j + 2] ELSE j]
    BY <1>2, <1>3
  <1>5. IsUtf16End(data, f)
    BY <1>4 DEF IsUtf16End
  <1>6. PICK g : g = Utf16End(data) /\ IsUtf16End(data, g)
    BY <1>5, Zenon DEF Utf16End
  <1>7. \A i \in 1 .. m : g[i] = IF i \in U THEN g[i + 2] ELSE i
    BY <1>2, <1>6 DEF IsUtf16End
  <1> QED
    BY <1>6, <1>7 DEF IsEnd, U

\* The row of one string.
Row(at, text, wide) == [addr |-> at, text |-> text, utf16 |-> wide]
Piece(at, text, wide) == IF Len(text) >= MinLen THEN <<Row(at, text, wide)>> ELSE << >>

\* A string that is long enough is a row, a shorter one none.
LEMMA PieceIs ==
  ASSUME NEW D, NEW start \in Int, NEW i \in Nat, NEW text \in Seq(D), NEW wide \in BOOLEAN, NEW q \in Nat,
         Len(text) = q
  PROVE  /\ Piece(start + i - 1, text, wide) \in Seq(Strung(D))
         /\ IsPiece(Piece(start + i - 1, text, wide), i, q, start, wide)
  <1>1. Row(start + i - 1, text, wide) \in Strung(D)
    BY DEF Row, Strung
  <1>2. PICK row \in Strung(D) : row = Row(start + i - 1, text, wide)
    BY <1>1
  <1>3. Place(row, start) = [from |-> i, len |-> q] /\ row.utf16 = wide
    BY <1>2 DEF Row, Place
  <1>4. <<row>> \in Seq(Strung(D)) /\ Len(<<row>>) = 1 /\ <<row>>[1] = row
    OBVIOUS
  <1> QED
    BY <1>2, <1>3, <1>4 DEF Piece, IsPiece

\* The first pass finds the runs of printable bytes, each once.
LEMMA AsciiFinds ==
  ASSUME NEW D, NEW data \in Seq(D), NEW start \in Int
  PROVE  /\ AsciiPass(data, start) \in Seq(Strung(D))
         /\ Finds(AsciiPass(data, start), RunsOf(Units(data, 1), 1, Len(data)), 1, start, FALSE)
  <1> DEFINE L == Len(data)
             m == L + 2
             U == Units(data, 1)
             S == Strung(D)
  <1>1. PICK end : end = AsciiEnd(data) /\ IsEnd(end, U, L + 1, 1)
    BY AsciiEnds
  <1>2. L \in Nat /\ U \in SUBSET (1 .. L) /\ m \in Nat \ {0} /\ Apart(U, 1)
    BY DEF Units, Apart
  <1> HIDE DEF U
  <1>3. ASSUME NEW i \in 1 .. L
        PROVE  \E q \in Nat : end[i] = i + q /\ UnitsFrom(U, 1, i, q) /\ i + q <= L + 1
    <2>1. U \in SUBSET (1 .. (L + 1) - 1) /\ L + 1 \in Nat /\ 1 \in {1, 2} /\ i \in 1 .. L + 1
      BY <1>2
    <2>2. PICK q \in Nat : end[i] = i + 1 * q /\ UnitsFrom(U, 1, i, q)
      BY <1>1, <2>1, EndOfUnits
    <2>3. i + q <= L + 1
      <3>1. CASE q = 0
        BY <3>1
      <3>2. CASE q # 0
        <4>1. q - 1 \in 0 .. q - 1 /\ i + 1 * (q - 1) = i + q - 1
          BY <3>2
        <4> QED
          BY <1>2, <2>2, <4>1 DEF UnitsFrom
      <3> QED
        BY <3>1, <3>2
    <2> QED
      BY <2>2, <2>3
  <1> DEFINE text(i) == SubSeq(data, i, end[i] - 1)
             piece == [i \in 1 .. L |-> Piece(start + i - 1, text(i), FALSE)]
             next == [i \in 1 .. L |-> end[i] + 1]
             shown(i) == IF end[i] - i >= MinLen THEN <<Row(start + i - 1, text(i), FALSE)>> ELSE << >>
  <1>4. ASSUME NEW i \in 1 .. L, NEW q \in Nat, end[i] = i + q, i + q <= L + 1
        PROVE  text(i) \in Seq(D) /\ Len(text(i)) = q
    <2>1. text(i) = SubSeq(data, i, i + q - 1)
      BY <1>4
    <2>2. SubSeq(data, i, i + q - 1) \in Seq(D) /\ Len(SubSeq(data, i, i + q - 1)) = q
      BY <1>2, <1>4
    <2> QED
      BY <2>1, <2>2
  <1> HIDE DEF text, L, S
  <1>5. ASSUME NEW i \in 1 .. L, NEW q \in Nat, end[i] = i + q, UnitsFrom(U, 1, i, q), i + q <= L + 1
        PROVE  /\ piece[i] \in Seq(S) /\ IsPiece(piece[i], i, q, start, FALSE)
               /\ next[i] = Following(1, i, q) /\ next[i] \in i + 1 .. m
    <2>1. text(i) \in Seq(D) /\ Len(text(i)) = q /\ FALSE \in BOOLEAN /\ i \in Nat
      BY <1>2, <1>4, <1>5
    <2>2. /\ Piece(start + i - 1, text(i), FALSE) \in Seq(S)
          /\ IsPiece(Piece(start + i - 1, text(i), FALSE), i, q, start, FALSE)
      BY <2>1, PieceIs DEF S
    <2>3. piece[i] = Piece(start + i - 1, text(i), FALSE)
      OBVIOUS
    <2>4. next[i] = i + q + 1
      BY <1>5
    <2>5. next[i] = Following(1, i, q)
      BY <2>4 DEF Following
    <2>6. next[i] \in i + 1 .. m
      <3> HIDE DEF next
      <3> QED
        BY <1>2, <1>5, <2>4
    <2> HIDE DEF piece, next
    <2> QED
      BY <2>2, <2>3, <2>5, <2>6
  <1>6. \A i \in 1 .. L : piece[i] \in Seq(S) /\ next[i] \in i + 1 .. m
    BY <1>3, <1>5
  <1>7. \A i \in 1 .. L : piece[i] = shown(i)
    <2> SUFFICES ASSUME NEW i \in 1 .. L PROVE piece[i] = shown(i)
      OBVIOUS
    <2>1. PICK q \in Nat : end[i] = i + q /\ i + q <= L + 1
      BY <1>3
    <2>2. Len(text(i)) = q /\ end[i] - i = q
      BY <1>2, <1>4, <2>1
    <2>3. piece[i] = Piece(start + i - 1, text(i), FALSE)
      OBVIOUS
    <2> HIDE DEF piece
    <2> QED
      BY <2>2, <2>3 DEF Piece
  <1>8. \A i \in 1 .. L : next[i] = end[i] + 1
    OBVIOUS
  <1>9. PICK p : p = piece
    OBVIOUS
  <1>10. PICK n : n = next
    OBVIOUS
  <1> HIDE DEF piece, next, shown
  <1>11. PICK f : Gathered(f, m, L, n, p)
    <2>1. L <= m /\ L \in Nat /\ m \in Nat
      BY <1>2
    <2>2. /\ \A i \in 1 .. L : n[i] \in i + 1 .. m
          /\ \A i \in 1 .. L : p[i] \in Seq(S)
      BY <1>6, <1>9, <1>10
    <2> HIDE DEF m
    <2> QED
      BY <2>1, <2>2, PiecesExist
  <1>12. \A i \in 1 .. m : f[i] = IF i > L THEN << >>
             ELSE shown(i) \o f[end[i] + 1]
    <2> SUFFICES ASSUME NEW i \in 1 .. m
                 PROVE  f[i] = IF i > L THEN << >> ELSE shown(i) \o f[end[i] + 1]
      OBVIOUS
    <2>1. CASE i > L
      BY <1>11, <2>1 DEF Gathered
    <2>2. CASE ~(i > L)
      <3>1. p[i] = shown(i) /\ n[i] = end[i] + 1
        BY <1>2, <1>7, <1>8, <1>9, <1>10, <2>2
      <3> QED
        BY <1>11, <2>2, <3>1 DEF Gathered
    <2> QED
      BY <2>1, <2>2
  <1>13. f = [i \in 1 .. m |-> IF i > L THEN << >>
             ELSE shown(i) \o f[end[i] + 1]]
    BY <1>11, <1>12 DEF Gathered
  <1>14. IsAsciiScan(data, start, end, f)
    BY <1>13, Zenon DEF IsAsciiScan, shown, text, L, Row
  <1>15. PICK g : g = AsciiScan(data, start, end) /\ IsAsciiScan(data, start, end, g)
    BY <1>14, Zenon DEF AsciiScan
  <1>16. g = [i \in 1 .. m |-> IF i > L THEN << >>
             ELSE shown(i) \o g[end[i] + 1]]
    BY <1>15, Zenon DEF IsAsciiScan, shown, text, L, Row
  <1>17. \A i \in 1 .. m : g[i] = IF i > L THEN << >> ELSE p[i] \o g[n[i]]
    <2> SUFFICES ASSUME NEW i \in 1 .. m PROVE g[i] = IF i > L THEN << >> ELSE p[i] \o g[n[i]]
      OBVIOUS
    <2>1. CASE i > L
      BY <1>16, <2>1
    <2>2. CASE ~(i > L)
      <3>1. p[i] = shown(i) /\ n[i] = end[i] + 1
        BY <1>2, <1>7, <1>8, <1>9, <1>10, <2>2
      <3>2. g[i] = shown(i) \o g[end[i] + 1]
        BY <1>16, <2>2
      <3> QED
        BY <2>2, <3>1, <3>2
    <2> QED
      BY <2>1, <2>2
  <1>18. ASSUME NEW i \in 1 .. m PROVE IsTurn(g, S, m, L, U, 1, start, FALSE, i)
    <2>1. CASE i > L
      BY <1>17, <2>1 DEF IsTurn
    <2>2. CASE ~(i > L)
      <3>1. i \in 1 .. L
        BY <1>2, <2>2
      <3>2. PICK q \in Nat : end[i] = i + q /\ UnitsFrom(U, 1, i, q) /\ i + q <= L + 1
        BY <1>3, <3>1
      <3>3. /\ p[i] \in Seq(S) /\ IsPiece(p[i], i, q, start, FALSE)
            /\ n[i] = Following(1, i, q) /\ Following(1, i, q) \in 1 .. m
        BY <1>5, <1>9, <1>10, <3>1, <3>2, i + 1 .. m \subseteq 1 .. m
      <3>4. g[i] = p[i] \o g[Following(1, i, q)]
        BY <1>17, <2>2, <3>3
      <3> QED
        BY <2>2, <3>2, <3>3, <3>4 DEF IsTurn
    <2> QED
      BY <2>1, <2>2
  <1>19. g[1] \in Seq(S) /\ Finds(g[1], RunsOf(U, 1, L), 1, start, FALSE)
    <2>1. L <= L /\ 1 \in {1, 2}
      BY <1>2
    <2> HIDE DEF m
    <2> QED
      BY <1>2, <1>18, <2>1, PassFinds
  <1>20. g[1] = AsciiPass(data, start)
    BY <1>1, <1>15, AsciiIs
  <1> QED
    BY <1>19, <1>20 DEF L, U, S

\* The second pass finds the runs of wide characters, each once.
LEMMA Utf16Finds ==
  ASSUME NEW D, NEW data \in Seq(D), NEW start \in Int
  PROVE  /\ Utf16Pass(data, start) \in Seq(Strung(D))
         /\ Finds(Utf16Pass(data, start), RunsOf(Units(data, 2), 2, Len(data)), 1, start, TRUE)
  <1> DEFINE L == Len(data)
             m == L + 2
             U == Units(data, 2)
             last == IF L = 0 THEN 0 ELSE L - 1
             S == Strung(D)
  <1>1. PICK end : end = Utf16End(data) /\ IsEnd(end, U, L + 2, 2)
    BY Utf16Ends
  <1>2. L \in Nat /\ last \in Nat /\ last <= L /\ U \in SUBSET (1 .. last) /\ m \in Nat \ {0}
    BY DEF Units
  <1>21. Apart(U, 2)
    <2> SUFFICES ASSUME NEW i \in U PROVE i + 1 \notin U
      BY DEF Apart
    <2>1. data[i + 1] = 0
      BY DEF Units
    <2>2. ~is_printable(0)
      BY DEF is_printable
    <2> QED
      BY <2>1, <2>2 DEF Units
  <1>22. \A i \in 1 .. m : i + 1 > L <=> i > last
    BY <1>2
  <1> HIDE DEF U
  <1> HIDE DEF last
  <1>3. ASSUME NEW i \in 1 .. last
        PROVE  \E q \in Nat : end[i] = i + 2 * q /\ UnitsFrom(U, 2, i, q) /\ i + 2 * q <= L + 1
    <2>1. U \in SUBSET (1 .. (L + 2) - 2) /\ L + 2 \in Nat /\ 2 \in {1, 2} /\ i \in 1 .. L + 2
      BY <1>2
    <2>2. PICK q \in Nat : end[i] = i + 2 * q /\ UnitsFrom(U, 2, i, q)
      BY <1>1, <2>1, EndOfUnits
    <2>3. i + 2 * q <= L + 1
      <3>1. CASE q = 0
        BY <1>2, <3>1
      <3>2. CASE q # 0
        <4>1. q - 1 \in 0 .. q - 1 /\ i + 2 * (q - 1) = i + 2 * q - 2
          BY <3>2
        <4>2. i + 2 * q - 2 \in U /\ \A j \in U : j + 1 <= L
          BY <2>2, <4>1 DEF UnitsFrom, U, Units, L
        <4> QED
          BY <1>2, <4>2
      <3> QED
        BY <3>1, <3>2
    <2> QED
      BY <2>2, <2>3
  <1> DEFINE text(i) == Utf16Text(data, end, i)
             piece == [i \in 1 .. last |-> Piece(start + i - 1, text(i), TRUE)]
             next == [i \in 1 .. last |-> IF end[i] > i THEN end[i] ELSE i + 1]
             shown(i) == IF Len(text(i)) >= MinLen THEN <<Row(start + i - 1, text(i), TRUE)>> ELSE << >>
  <1>4. ASSUME NEW i \in 1 .. last, NEW q \in Nat, end[i] = i + 2 * q, i + 2 * q <= L + 1
        PROVE  text(i) \in Seq(D) /\ Len(text(i)) = q
    <2>1. (end[i] - i) \div 2 = q
      BY <1>4
    <2>2. text(i) = [k \in 1 .. q |-> data[i + 2 * (k - 1)]]
      BY <2>1, Zenon DEF Utf16Text
    <2>3. \A k \in 1 .. q : data[i + 2 * (k - 1)] \in D
      <3> SUFFICES ASSUME NEW k \in 1 .. q PROVE data[i + 2 * (k - 1)] \in D
        OBVIOUS
      <3>1. i + 2 * (k - 1) \in 1 .. L
        BY <1>2, <1>4
      <3>2. \A j \in 1 .. Len(data) : data[j] \in D
        OBVIOUS
      <3> QED
        BY ONLY <3>1, <3>2 DEF L
    <2>4. [k \in 1 .. q |-> data[i + 2 * (k - 1)]] \in [1 .. q -> D]
      BY <2>3
    <2> QED
      BY <2>2, <2>4
  <1> HIDE DEF text, L, S
  <1>5. ASSUME NEW i \in 1 .. last, NEW q \in Nat, end[i] = i + 2 * q, UnitsFrom(U, 2, i, q), i + 2 * q <= L + 1
        PROVE  /\ piece[i] \in Seq(S) /\ IsPiece(piece[i], i, q, start, TRUE)
               /\ next[i] = Following(2, i, q) /\ next[i] \in i + 1 .. m
    <2>1. text(i) \in Seq(D) /\ Len(text(i)) = q /\ TRUE \in BOOLEAN /\ i \in Nat
      BY <1>2, <1>4, <1>5
    <2>2. /\ Piece(start + i - 1, text(i), TRUE) \in Seq(S)
          /\ IsPiece(Piece(start + i - 1, text(i), TRUE), i, q, start, TRUE)
      BY <2>1, PieceIs DEF S
    <2>3. piece[i] = Piece(start + i - 1, text(i), TRUE)
      OBVIOUS
    <2>4. next[i] = IF q = 0 THEN i + 1 ELSE i + 2 * q
      BY <1>2, <1>5
    <2>5. next[i] = Following(2, i, q)
      BY <2>4 DEF Following
    <2>6. next[i] \in i + 1 .. m
      <3> HIDE DEF next
      <3> QED
        BY <1>2, <1>5, <2>4
    <2> HIDE DEF piece, next
    <2> QED
      BY <2>2, <2>3, <2>5, <2>6
  <1>6. \A i \in 1 .. last : piece[i] \in Seq(S) /\ next[i] \in i + 1 .. m
    BY <1>3, <1>5
  <1>7. \A i \in 1 .. last : piece[i] = shown(i)
    <2> SUFFICES ASSUME NEW i \in 1 .. last PROVE piece[i] = shown(i)
      OBVIOUS
    <2>1. PICK q \in Nat : end[i] = i + 2 * q /\ i + 2 * q <= L + 1
      BY <1>3
    <2>2. Len(text(i)) = q
      BY <1>2, <1>4, <2>1
    <2>3. piece[i] = Piece(start + i - 1, text(i), TRUE)
      OBVIOUS
    <2> HIDE DEF piece
    <2> QED
      BY <2>2, <2>3 DEF Piece
  <1>8. \A i \in 1 .. last : next[i] = IF end[i] > i THEN end[i] ELSE i + 1
    OBVIOUS
  <1>9. PICK p : p = piece
    OBVIOUS
  <1>10. PICK n : n = next
    OBVIOUS
  <1> HIDE DEF piece, next, shown
  <1>11. PICK f : Gathered(f, m, last, n, p)
    <2>1. last <= m /\ last \in Nat /\ m \in Nat
      BY <1>2
    <2>2. /\ \A i \in 1 .. last : n[i] \in i + 1 .. m
          /\ \A i \in 1 .. last : p[i] \in Seq(S)
      BY <1>6, <1>9, <1>10
    <2> HIDE DEF m
    <2> QED
      BY <2>1, <2>2, PiecesExist
  <1>12. \A i \in 1 .. m : f[i] = IF i > last THEN << >>
             ELSE shown(i) \o f[IF end[i] > i THEN end[i] ELSE i + 1]
    <2> SUFFICES ASSUME NEW i \in 1 .. m
                 PROVE  f[i] = IF i > last THEN << >> ELSE shown(i) \o f[IF end[i] > i THEN end[i] ELSE i + 1]
      OBVIOUS
    <2>1. CASE i > last
      BY <1>11, <2>1 DEF Gathered
    <2>2. CASE ~(i > last)
      <3>1. p[i] = shown(i) /\ n[i] = IF end[i] > i THEN end[i] ELSE i + 1
        BY <1>2, <1>7, <1>8, <1>9, <1>10, <2>2
      <3> QED
        BY <1>11, <2>2, <3>1 DEF Gathered
    <2> QED
      BY <2>1, <2>2
  <1>13. f = [i \in 1 .. m |-> IF i > last THEN << >>
             ELSE shown(i) \o f[IF end[i] > i THEN end[i] ELSE i + 1]]
    BY <1>11, <1>12 DEF Gathered
  <1>131. f = [i \in 1 .. m |-> IF i + 1 > L THEN << >>
             ELSE shown(i) \o f[IF end[i] > i THEN end[i] ELSE i + 1]]
    BY <1>13, <1>22
  <1>14. IsUtf16Scan(data, start, end, f)
    BY <1>131, Zenon DEF IsUtf16Scan, shown, text, L, Row
  <1>15. PICK g : g = Utf16Scan(data, start, end) /\ IsUtf16Scan(data, start, end, g)
    BY <1>14, Zenon DEF Utf16Scan
  <1>16. g = [i \in 1 .. m |-> IF i + 1 > L THEN << >>
             ELSE shown(i) \o g[IF end[i] > i THEN end[i] ELSE i + 1]]
    BY <1>15, Zenon DEF IsUtf16Scan, shown, text, L, Row
  <1>17. \A i \in 1 .. m : g[i] = IF i > last THEN << >> ELSE p[i] \o g[n[i]]
    <2> SUFFICES ASSUME NEW i \in 1 .. m PROVE g[i] = IF i > last THEN << >> ELSE p[i] \o g[n[i]]
      OBVIOUS
    <2>1. CASE i > last
      BY <1>16, <1>22, <2>1
    <2>2. CASE ~(i > last)
      <3>1. p[i] = shown(i) /\ n[i] = IF end[i] > i THEN end[i] ELSE i + 1
        BY <1>2, <1>7, <1>8, <1>9, <1>10, <2>2
      <3>2. g[i] = shown(i) \o g[IF end[i] > i THEN end[i] ELSE i + 1]
        BY <1>16, <1>22, <2>2
      <3> QED
        BY <2>2, <3>1, <3>2
    <2> QED
      BY <2>1, <2>2
  <1>18. ASSUME NEW i \in 1 .. m PROVE IsTurn(g, S, m, last, U, 2, start, TRUE, i)
    <2>1. CASE i > last
      BY <1>17, <2>1 DEF IsTurn
    <2>2. CASE ~(i > last)
      <3>1. i \in 1 .. last
        BY <1>2, <2>2
      <3>2. PICK q \in Nat : end[i] = i + 2 * q /\ UnitsFrom(U, 2, i, q) /\ i + 2 * q <= L + 1
        BY <1>3, <3>1
      <3>3. /\ p[i] \in Seq(S) /\ IsPiece(p[i], i, q, start, TRUE)
            /\ n[i] = Following(2, i, q) /\ Following(2, i, q) \in 1 .. m
        BY <1>5, <1>9, <1>10, <3>1, <3>2, i + 1 .. m \subseteq 1 .. m
      <3>4. g[i] = p[i] \o g[Following(2, i, q)]
        BY <1>17, <2>2, <3>3
      <3> QED
        BY <2>2, <3>2, <3>3, <3>4 DEF IsTurn
    <2> QED
      BY <2>1, <2>2
  <1>19. g[1] \in Seq(S) /\ Finds(g[1], RunsOf(U, 2, L), 1, start, TRUE)
    <2>1. last <= L /\ 2 \in {1, 2}
      BY <1>2
    <2> HIDE DEF m
    <2> QED
      BY <1>2, <1>18, <1>21, <2>1, PassFinds
  <1>20. g[1] = Utf16Pass(data, start)
    BY <1>1, <1>15, Utf16Is
  <1> QED
    BY <1>19, <1>20 DEF L, U, S

\* The strings of one encoding among the rows.
Found(rows, start, wide) ==
  {[from |-> s.addr - start + 1, len |-> Len(s.text)] : s \in {x \in Range(rows) : x.utf16 = wide}}

\* Both passes' rows together.
LEMMA BothFound ==
  ASSUME NEW S, NEW a \in Seq(S), NEW b \in Seq(S), NEW start \in Int, NEW A, NEW B,
         \A r \in A : r.from \in Nat \ {0}, \A r \in B : r.from \in Nat \ {0},
         Finds(a, A, 1, start, FALSE), Finds(b, B, 1, start, TRUE)
  PROVE  Found(a \o b, start, FALSE) = A /\ Found(a \o b, start, TRUE) = B /\ IsInjective(a \o b)
  <1> DEFINE all == a \o b
  <1>1. /\ DOMAIN all = 1 .. Len(a) + Len(b)
        /\ \A k \in DOMAIN a : all[k] = a[k] /\ k \in DOMAIN all
        /\ \A k \in DOMAIN b : all[k + Len(a)] = b[k] /\ k + Len(a) \in DOMAIN all
        /\ \A k \in DOMAIN all : k \in DOMAIN a \/ k - Len(a) \in DOMAIN b
    OBVIOUS
  <1> HIDE DEF all
  <1>2. \A k \in DOMAIN all : k \in DOMAIN a \/ (k - Len(a) \in DOMAIN b /\ all[k] = b[k - Len(a)])
    <2> SUFFICES ASSUME NEW k \in DOMAIN all, k \notin DOMAIN a
                 PROVE  k - Len(a) \in DOMAIN b /\ all[k] = b[k - Len(a)]
      OBVIOUS
    <2>1. k - Len(a) \in DOMAIN b /\ (k - Len(a)) + Len(a) = k
      BY <1>1
    <2> QED
      BY <1>1, <2>1
  <1>3. Found(all, start, FALSE) = A
    <2>1. ASSUME NEW r \in A PROVE r \in Found(all, start, FALSE)
      <3>1. PICK k \in DOMAIN a : Place(a[k], start) = r
        BY <2>1 DEF Finds
      <3>2. all[k] \in Range(all) /\ all[k].utf16 = FALSE /\ Place(all[k], start) = r
        BY <1>1, <3>1 DEF Finds, Range
      <3> QED
        BY <3>2 DEF Found, Place
    <2>2. ASSUME NEW r \in Found(all, start, FALSE) PROVE r \in A
      <3>1. PICK k \in DOMAIN all : all[k].utf16 = FALSE /\ r = Place(all[k], start)
        BY DEF Found, Place, Range
      <3>2. k \in DOMAIN a
        BY <1>2, <3>1 DEF Finds
      <3> QED
        BY <1>1, <3>1, <3>2 DEF Finds
    <2> QED
      BY <2>1, <2>2
  <1>4. Found(all, start, TRUE) = B
    <2>1. ASSUME NEW r \in B PROVE r \in Found(all, start, TRUE)
      <3>1. PICK k \in DOMAIN b : Place(b[k], start) = r
        BY <2>1 DEF Finds
      <3>2. all[k + Len(a)] \in Range(all) /\ all[k + Len(a)].utf16 = TRUE /\ Place(all[k + Len(a)], start) = r
        BY <1>1, <3>1 DEF Finds, Range
      <3> QED
        BY <3>2 DEF Found, Place
    <2>2. ASSUME NEW r \in Found(all, start, TRUE) PROVE r \in B
      <3>1. PICK k \in DOMAIN all : all[k].utf16 = TRUE /\ r = Place(all[k], start)
        BY DEF Found, Place, Range
      <3>2. k - Len(a) \in DOMAIN b /\ all[k] = b[k - Len(a)]
        BY <1>1, <1>2, <3>1 DEF Finds
      <3> QED
        BY <3>1, <3>2 DEF Finds
    <2> QED
      BY <2>1, <2>2
  <1>5. ASSUME NEW k \in DOMAIN all, NEW l \in DOMAIN all, all[k] = all[l] PROVE k = l
    <2>1. CASE k \in DOMAIN a /\ l \in DOMAIN a
      BY <1>1, <1>5, <2>1 DEF Finds
    <2>2. CASE k \notin DOMAIN a /\ l \notin DOMAIN a
      <3>1. k - Len(a) \in DOMAIN b /\ l - Len(a) \in DOMAIN b /\ b[k - Len(a)] = b[l - Len(a)]
        BY <1>2, <1>5, <2>2
      <3>2. k - Len(a) = l - Len(a)
        BY <3>1 DEF Finds
      <3> QED
        BY <1>1, <3>2
    <2>3. ASSUME NEW x \in DOMAIN all, NEW y \in DOMAIN all, x \in DOMAIN a, y \notin DOMAIN a
          PROVE  all[x] # all[y]
      <3>1. all[x].utf16 = FALSE
        BY <1>1, <2>3 DEF Finds
      <3>2. y - Len(a) \in DOMAIN b /\ all[y] = b[y - Len(a)]
        BY <1>2, <2>3
      <3>3. all[y].utf16 = TRUE
        BY <3>2 DEF Finds
      <3> QED
        BY <3>1, <3>3
    <2> QED
      BY <1>5, <2>1, <2>2, <2>3
  <1>6. IsInjective(all)
    BY <1>5 DEF IsInjective
  <1> QED
    BY <1>3, <1>4, <1>6 DEF all

\* The reference's runs are those of the units.
LEMMA RunsAre ==
  ASSUME NEW D, NEW data \in Seq(D), NEW step \in {1, 2}
  PROVE  Runs(data, step) = RunsOf(Units(data, step), step, Len(data))
  <1> DEFINE unit(i) == /\ i >= 1 /\ i + step - 1 <= Len(data)
                        /\ is_printable(data[i]) /\ (step = 2 => data[i + 1] = 0)
             U == Units(data, step)
  <1>1. \A i \in Int : unit(i) <=> i \in U
    BY DEF Units
  <1>2. Runs(data, step) = {r \in [from : 1 .. Len(data), len : MinLen .. Len(data)] :
                              /\ \A k \in 0 .. r.len - 1 : unit(r.from + step * k)
                              /\ ~unit(r.from - step) /\ ~unit(r.from + step * r.len)}
    BY Zenon DEF Runs
  <1> HIDE DEF unit, U
  <1>3. ASSUME NEW r \in [from : 1 .. Len(data), len : MinLen .. Len(data)]
        PROVE  /\ (\A k \in 0 .. r.len - 1 : unit(r.from + step * k))
                    <=> \A k \in 0 .. r.len - 1 : r.from + step * k \in U
               /\ unit(r.from - step) <=> r.from - step \in U
               /\ unit(r.from + step * r.len) <=> r.from + step * r.len \in U
    <2>1. r.from \in Int /\ r.len \in Int /\ step \in Int
      BY ImageAssumption
    <2>2. \A k \in Int : r.from + step * k \in Int /\ r.from - step \in Int
      BY <2>1
    <2> QED
      BY <1>1, <2>1, <2>2
  <1> QED
    BY <1>2, <1>3 DEF RunsOf, UnitsFrom, U

\* A scan of any bytes lists their strings, each once.
LEMMA ScanExact ==
  ASSUME NEW D, NEW data \in Seq(D), NEW start \in Int
  PROVE  LET rows == scan_strings(data, start)
         IN  /\ Found(rows, start, FALSE) = Runs(data, 1)
             /\ Found(rows, start, TRUE) = Runs(data, 2)
             /\ IsInjective(rows)
  <1>1. PICK a \in Seq(Strung(D)) :
          a = AsciiPass(data, start) /\ Finds(a, RunsOf(Units(data, 1), 1, Len(data)), 1, start, FALSE)
    BY AsciiFinds
  <1>2. PICK b \in Seq(Strung(D)) :
          b = Utf16Pass(data, start) /\ Finds(b, RunsOf(Units(data, 2), 2, Len(data)), 1, start, TRUE)
    BY Utf16Finds
  <1>3. PICK A : A = Runs(data, 1) /\ A = RunsOf(Units(data, 1), 1, Len(data))
    BY RunsAre
  <1>4. PICK B : B = Runs(data, 2) /\ B = RunsOf(Units(data, 2), 2, Len(data))
    BY RunsAre
  <1>5. (\A r \in A : r.from \in Nat \ {0}) /\ (\A r \in B : r.from \in Nat \ {0})
    BY <1>3, <1>4 DEF RunsOf
  <1>6. Found(a \o b, start, FALSE) = A /\ Found(a \o b, start, TRUE) = B /\ IsInjective(a \o b)
    <2>1. PICK S : S = Strung(D)
      OBVIOUS
    <2>2. a \in Seq(S) /\ b \in Seq(S)
      BY <2>1
    <2>3. Finds(a, A, 1, start, FALSE) /\ Finds(b, B, 1, start, TRUE)
      BY <1>1, <1>2, <1>3, <1>4
    <2> QED
      BY <1>5, <2>2, <2>3, BothFound
  <1>7. scan_strings(data, start) = a \o b
    BY <1>1, <1>2 DEF scan_strings
  <1> QED
    BY <1>3, <1>4, <1>6, <1>7

\* The image has a size.
LEMMA ImageSizeNatural ==
  ASSUME NEW file, IsFile(file), Loadable(file)
  PROVE  ImageSize(file) \in Nat
  <1>1. PICK q : q = file.sections /\ q \in Seq(SectionHeader)
    BY DEF IsFile
  <1> DEFINE end(i) == PagesEnd(q[i])
             ends == {0} \cup {end(i) : i \in DOMAIN q}
  <1>2. \A i \in DOMAIN q : end(i) \in Nat /\ q[i].virtual_address \in Nat /\ q[i].virtual_address <= end(i)
    BY <1>1, SectionEnds
  <1>3. \A i, j \in DOMAIN q : i < j => end(i) <= q[j].virtual_address
    BY <1>1 DEF Loadable
  <1>4. ImageSize(file) = Max(ends)
    <2>1. {PagesEnd(s) : s \in Range(file.sections)} = {end(i) : i \in DOMAIN q}
      BY <1>1, Zenon DEF Range
    <2> QED
      BY <2>1, Zenon DEF ImageSize
  <1> HIDE DEF end
  <1>5. \E b \in Nat : \A i \in DOMAIN q : end(i) <= b
    <2>1. CASE q = << >>
      BY <2>1
    <2>2. CASE q # << >>
      <3>1. Len(q) \in DOMAIN q /\ \A i \in DOMAIN q : i = Len(q) \/ i < Len(q)
        BY <1>1, <2>2
      <3>2. \A i \in DOMAIN q : end(i) <= end(Len(q))
        BY <1>2, <1>3, <3>1
      <3> QED
        BY <1>2, <3>1, <3>2
    <2> QED
      BY <2>1, <2>2
  <1>6. PICK b \in Nat : \A i \in DOMAIN q : end(i) <= b
    BY <1>5
  <1>7. ends \in SUBSET Nat /\ ends # {} /\ \A k \in ends : k <= b
    BY <1>2, <1>6
  <1> HIDE DEF ends
  <1> QED
    BY <1>4, <1>7, MaxOfSet

\* The bytes of a process the scan takes.
LEMMA ScannedBytes ==
  ASSUME LiveOK, kind = "Native"
  PROVE  \E D : Scanned \in Seq(D)
  <1>1. disk \in Files /\ IsFile(disk) /\ Loadable(disk)
    BY ListingsAssumption DEF LiveOK
  <1>2. PICK m \in Nat : m = ImageSize(disk)
    BY <1>1, ImageSizeNatural
  <1>3. {m, StringsScanCap} \in SUBSET Nat /\ {m, StringsScanCap} # {}
    BY ListingsAssumption
  <1>4. PICK n \in Nat : n = Min({ImageSize(disk), StringsScanCap})
    BY <1>2, <1>3, MinOfSet
  <1> DEFINE byte(i) == LoadedByte(disk, base + i - 1 - base)
             D == {byte(i) : i \in 1 .. n}
  <1>5. Scanned = << >> \/ Scanned = [i \in 1 .. n |-> byte(i)]
    BY <1>4, Zenon DEF Scanned, LiveBytes
  <1> HIDE DEF byte
  <1>6. [i \in 1 .. n |-> byte(i)] \in [1 .. n -> D]
    OBVIOUS
  <1>7. [i \in 1 .. n |-> byte(i)] \in Seq(D) /\ << >> \in Seq(D)
    BY <1>6
  <1> QED
    BY <1>5, <1>7

\* What a listing of strings promises of its rows.
Exact(rows, data, start) ==
  Found(rows, start, FALSE) = Runs(data, 1) /\ Found(rows, start, TRUE) = Runs(data, 2) /\ IsInjective(rows)

(***************************************************************************)
(* The strings listed are the maximal runs of at least MinLen characters   *)
(* in either encoding, each once, at their place in the scanned bytes, for *)
(* any bytes, cap and minimum.  (scan_strings, core_strings,               *)
(* static_strings)                                                         *)
(***************************************************************************)
THEOREM ListingsStringsExact == Spec => []StringsExact
  <1>1. Init => StringsExact
    BY DEF Init, StringsExact, NoAnswer
  <1>2. ASSUME LiveOK, StaticBin, StringsExact, [Next]_vars PROVE StringsExact'
    <2>1. CASE scan_buffer
      <3>1. PICK data \in ScanData :
              answer' = [op |-> "scan", arg |-> data, rows |-> scan_strings(data, Start)]
        BY <2>1 DEF scan_buffer, Replied
      <3>2. UNCHANGED <<kind, disk, base>> /\ Start \in Int
        BY <1>2, <2>1, ListingsAssumption DEF scan_buffer, live, Start, LiveOK, IsFile
      <3>3. PICK s \in Int : s = Start
        BY <3>2
      <3>4. data \in Seq(Nat)
        BY ListingsAssumption
      <3>5. Exact(scan_strings(data, s), data, s)
        BY <3>4, ScanExact DEF Exact
      <3>6. answer'.op = "scan" /\ answer'.arg = data /\ answer'.rows = scan_strings(data, s) /\ Start' = s
        BY <3>1, <3>2, <3>3 DEF Start
      <3>7. (Exact(answer.rows, answer.arg, Start))'
        BY <3>5, <3>6 DEF Exact
      <3> QED
        BY <3>6, <3>7 DEF StringsExact, Exact, Found
    <2>6. CASE core_strings
      <3>1. kind = "Native" /\ kind' = kind /\ UNCHANGED <<disk, base>>
        BY <2>6 DEF core_strings, live
      <3>2. PICK modules :
              answer' = [op |-> "strings", arg |-> <<"bytes", base>>,
                         rows |-> IF modules.list = << >> \/ ImageSize(disk) = 0 THEN << >>
                                  ELSE scan_strings(Scanned, base)]
        BY <2>6 DEF core_strings, Replied
      <3>3. answer'.op = "strings" /\ (answer'.rows = << >> \/ answer'.rows = scan_strings(Scanned, base))
        BY <3>2
      <3>4. Scanned' = Scanned /\ Start' = base
        BY <3>1 DEF Scanned, LiveBytes, Start
      <3>5. PICK data, D : data = Scanned /\ data \in Seq(D)
        BY <1>2, <3>1, ScannedBytes
      <3>6. PICK s \in Int : s = base
        BY <1>2, ListingsAssumption DEF LiveOK
      <3>7. Exact(scan_strings(data, s), data, s)
        BY <3>5, ScanExact DEF Exact
      <3>8. answer'.rows = << >> \/ (Exact(answer.rows, Scanned, Start))'
        BY <3>3, <3>4, <3>5, <3>6, <3>7 DEF Exact
      <3> QED
        BY <3>1, <3>3, <3>8 DEF StringsExact, Exact, Found
    <2>7. CASE static_strings
      <3>1. kind = "Static" /\ kind' = kind /\ UNCHANGED <<disk, base>>
        BY <2>7 DEF static_strings, live
      <3>2. disk \in Files /\ IsFile(disk) /\ Start = disk.imagebase
        BY <1>2, <3>1, ListingsAssumption DEF LiveOK, Start
      <3>3. PICK s \in Int : s = Start /\ s = main_bin.image_base
        BY <1>2, <3>1, <3>2 DEF StaticBin, parse_file, IsFile
      <3>4. PICK data \in Seq(Nat) : data = disk.bytes
        BY <3>2 DEF IsFile
      <3>5. answer' = [op |-> "strings", arg |-> <<"bytes", main_bin.image_base>>, rows |-> scan_strings(data, s)]
        BY <2>7, <3>3, <3>4 DEF static_strings, Replied
      <3>6. answer'.op = "strings" /\ answer'.rows = scan_strings(data, s)
        BY <3>5
      <3>7. Exact(scan_strings(data, s), data, s)
        BY <3>4, ScanExact DEF Exact
      <3>8. (Exact(answer.rows, disk.bytes, Start))'
        BY <3>1, <3>3, <3>4, <3>6, <3>7 DEF Exact, Start
      <3> QED
        BY <3>1, <3>6, <3>8 DEF StringsExact, Exact, Found
    <2>2. CASE answer' = NoAnswer
      BY <2>2 DEF StringsExact, NoAnswer
    <2>3. CASE UNCHANGED vars
      <3>1. UNCHANGED <<kind, disk, base, answer>>
        BY <2>3 DEF vars, live
      <3>2. Start' = Start /\ Scanned' = Scanned
        BY <3>1 DEF Start, Scanned, LiveBytes, live
      <3> QED
        BY <1>2, <3>1, <3>2 DEF StringsExact
    <2>4. ASSUME answer'.op \notin {"strings", "scan"} PROVE StringsExact'
      BY <2>4 DEF StringsExact
    <2>5. CASE core_disasm \/ static_disasm \/ core_backtrace \/ functions \/ read_memory
      <3>1. answer'.op \notin {"strings", "scan"}
        BY <2>5 DEF core_disasm, static_disasm, core_backtrace, functions, read_memory, Replied
      <3> QED
        BY <2>4, <3>1
    <2> QED
      BY <1>2, <2>1, <2>2, <2>3, <2>4, <2>5, <2>6, <2>7, AnswerStep
  <1> QED
    BY <1>1, <1>2, LiveInvariant, StaticBinInvariant, PTL DEF Spec

-----------------------------------------------------------------------------
(* Disassembly                                                               *)

\* No instruction begins these bytes.
Undecodable(b) == b = << >> \/ b[1] \notin DOMAIN Opcodes \/ Len(b) < Opcodes[b[1]].length

\* What decode_one makes of bytes it can decode.
LEMMA DecodeOne ==
  ASSUME NEW b, NEW a
  PROVE  /\ Undecodable(b) => decode_one(b, a) = NoInsn
         /\ ~Undecodable(b) =>
              /\ decode_one(b, a).address = a
              /\ decode_one(b, a).length = Opcodes[b[1]].length
              /\ decode_one(b, a).length \in 1 .. MaxInsnBytes
              /\ decode_one(b, a).operands = OperandsOf(Opcodes[b[1]].operands, b)
              /\ decode_one(b, a) # NoInsn
  <1>1. Undecodable(b) => decode_one(b, a) = NoInsn
    BY DEF Undecodable, decode_one
  <1>2. ASSUME ~Undecodable(b)
        PROVE  /\ decode_one(b, a).address = a
               /\ decode_one(b, a).length = Opcodes[b[1]].length
               /\ decode_one(b, a).operands = OperandsOf(Opcodes[b[1]].operands, b)
    <2>1. PICK op, flow, ops, target :
            decode_one(b, a) = [address |-> a, length |-> op.length, flow |-> flow,
                                operands |-> ops, branch_target |-> target]
            /\ op = Opcodes[b[1]] /\ ops = OperandsOf(op.operands, b)
      BY <1>2, Zenon DEF decode_one, Undecodable
    <2> QED
      BY <2>1
  <1>3. ~Undecodable(b) => Opcodes[b[1]].length \in 1 .. MaxInsnBytes
    BY ImageAssumption DEF Undecodable
  <1>4. NoInsn.length = 0 /\ \A n \in 1 .. MaxInsnBytes : n # 0
    BY ImageAssumption DEF NoInsn
  <1> QED
    BY <1>1, <1>2, <1>3, <1>4

\* The instruction at offset o of the bytes.
At(bytes, address, o) == decode_one(SubSeq(bytes, o + 1, Len(bytes)), address + o)

\* Nothing decodes there.
NoneAt(bytes, o) ==
  bytes[o + 1] \notin DOMAIN Opcodes \/ o + Opcodes[bytes[o + 1]].length > Len(bytes)

\* An instruction decoded in the middle of the bytes depends on those it covers.
LEMMA DecodeAt ==
  ASSUME NEW D, NEW bytes \in Seq(D), NEW address \in Int, NEW o \in 0 .. Len(bytes)
  PROVE  /\ o = Len(bytes) \/ NoneAt(bytes, o) => At(bytes, address, o) = NoInsn
         /\ o < Len(bytes) /\ ~NoneAt(bytes, o) =>
              /\ At(bytes, address, o).address = address + o
              /\ At(bytes, address, o).length = Opcodes[bytes[o + 1]].length
              /\ At(bytes, address, o).length \in 1 .. MaxInsnBytes
              /\ o + At(bytes, address, o).length <= Len(bytes)
              /\ At(bytes, address, o).operands
                   = OperandsOf(Opcodes[bytes[o + 1]].operands, SubSeq(bytes, o + 1, Len(bytes)))
              /\ At(bytes, address, o) # NoInsn
  <1>1. PICK b : b = SubSeq(bytes, o + 1, Len(bytes))
    OBVIOUS
  <1>2. b \in Seq(D) /\ Len(b) = Len(bytes) - o /\ \A k \in 1 .. Len(bytes) - o : b[k] = bytes[o + k]
    BY <1>1
  <1>3. At(bytes, address, o) = decode_one(b, address + o)
    BY <1>1 DEF At
  <1>4. o = Len(bytes) => b = << >>
    BY <1>2
  <1>5. o < Len(bytes) => b # << >> /\ b[1] = bytes[o + 1]
    BY <1>2
  <1>6. CASE o = Len(bytes)
    BY <1>3, <1>4, <1>6, DecodeOne DEF Undecodable
  <1>7. CASE o < Len(bytes)
    <2>1. b[1] \in DOMAIN Opcodes => Opcodes[b[1]].length \in 1 .. MaxInsnBytes
      BY ImageAssumption
    <2>2. Undecodable(b) <=> NoneAt(bytes, o)
      BY <1>2, <1>5, <1>7, <2>1, ImageAssumption DEF Undecodable, NoneAt
    <2>3. CASE NoneAt(bytes, o)
      BY <1>3, <1>7, <2>2, <2>3, DecodeOne
    <2>4. CASE ~NoneAt(bytes, o)
      <3>1. /\ At(bytes, address, o).address = address + o
            /\ At(bytes, address, o).length = Opcodes[b[1]].length
            /\ At(bytes, address, o).length \in 1 .. MaxInsnBytes
            /\ At(bytes, address, o).operands = OperandsOf(Opcodes[b[1]].operands, b)
            /\ At(bytes, address, o) # NoInsn
        BY <1>3, <2>2, <2>4, DecodeOne
      <3>2. PICK n \in 1 .. MaxInsnBytes : n = Opcodes[bytes[o + 1]].length
        BY <1>5, <1>7, <3>1
      <3>3. o + n <= Len(bytes) /\ n \in 1 .. Len(bytes) - o
        <4>1. ~(o + n > Len(bytes))
          BY <2>4, <3>2 DEF NoneAt
        <4> QED
          BY <4>1, ImageAssumption
      <3> QED
        BY <1>1, <1>5, <1>7, <2>4, <3>1, <3>2, <3>3
    <2> QED
      BY <2>3, <2>4
  <1> QED
    BY <1>6, <1>7

\* What can be decoded from these bytes.
Insns(bytes, address) == {At(bytes, address, o) : o \in 0 .. Len(bytes)}

\* Where the instruction after the i-th begins.
EndOf(out, address, i) == IF i = 0 THEN address ELSE out[i].address + out[i].length

\* These instructions walk the bytes from the start.
Walks(bytes, address, out) ==
  /\ out \in Seq(Insns(bytes, address))
  /\ \A i \in 1 .. Len(out) : \E o \in 0 .. Len(bytes) - 1 :
       /\ out[i] = At(bytes, address, o) /\ ~NoneAt(bytes, o)
       /\ address + o = EndOf(out, address, i - 1)
  /\ \A i \in 0 .. Len(out) :
       EndOf(out, address, i) \in address .. address + Len(bytes)
       /\ EndOf(out, address, i) <= address + i * MaxInsnBytes

\* After n turns there are n instructions, or the next one cannot be decoded.
Turned(bytes, address, out, n) ==
  /\ Walks(bytes, address, out) /\ Len(out) <= n
  /\ Len(out) < n => decode_next(bytes, address, out) = << >>

\* The offset of the next instruction.
LEMMA NextOffset ==
  ASSUME NEW D, NEW bytes \in Seq(D), NEW address \in Int, NEW out, Walks(bytes, address, out)
  PROVE  \E o \in 0 .. Len(bytes) :
           /\ EndOf(out, address, Len(out)) = address + o
           /\ decode_next(bytes, address, out) =
                IF At(bytes, address, o) = NoInsn THEN << >> ELSE <<At(bytes, address, o)>>
  <1>1. PICK L \in Nat : L = Len(out) /\ L \in 0 .. Len(out)
    BY DEF Walks
  <1>2. PICK e : e = EndOf(out, address, L)
    OBVIOUS
  <1>3. e \in address .. address + Len(bytes)
    BY <1>1, <1>2 DEF Walks
  <1>4. PICK o \in 0 .. Len(bytes) : o = e - address
    BY <1>3
  <1>5. e = address + o
    BY <1>3, <1>4
  <1>6. o = IF out = << >> THEN 0 ELSE Last(out).address + Last(out).length - address
    <2>1. out = << >> <=> L = 0
      BY <1>1 DEF Walks
    <2>2. CASE L = 0
      BY <1>2, <1>4, <2>1, <2>2 DEF EndOf
    <2>3. CASE L # 0
      <3>1. out # << >> /\ Last(out) = out[L]
        BY <1>1, <2>1, <2>3 DEF Last
      <3>2. e = out[L].address + out[L].length
        BY <1>2, <2>3 DEF EndOf
      <3> QED
        <4>1. PICK p \in 0 .. Len(bytes) - 1 : out[L] = At(bytes, address, p) /\ ~NoneAt(bytes, p)
          BY <1>1, <2>3 DEF Walks
        <4>2. PICK x \in Int, n \in Int : x = out[L].address /\ n = out[L].length
          BY <4>1, DecodeAt, ImageAssumption
        <4>3. e = x + n
          BY <3>2, <4>2, Zenon
        <4>4. o = x + n - address
          <5>1. o = e - address
            BY <1>4
          <5>2. e - address = x + n - address
            BY <4>3
          <5> QED
            BY <5>1, <5>2
        <4> QED
          BY <3>1, <4>2, <4>4
    <2> QED
      BY <2>2, <2>3
  <1>7. decode_next(bytes, address, out) =
          IF At(bytes, address, o) = NoInsn THEN << >> ELSE <<At(bytes, address, o)>>
    BY <1>6, Zenon DEF decode_next, At
  <1> QED
    BY <1>1, <1>2, <1>5, <1>7

\* One turn.
LEMMA DecodeTurn ==
  ASSUME NEW D, NEW bytes \in Seq(D), NEW address \in Int, NEW n \in Nat, NEW out,
         Turned(bytes, address, out, n)
  PROVE  Turned(bytes, address, out \o decode_next(bytes, address, out), n + 1)
  <1>1. Walks(bytes, address, out) /\ Len(out) <= n /\ out \in Seq(Insns(bytes, address))
    BY DEF Turned, Walks
  <1>2. PICK o \in 0 .. Len(bytes) :
          /\ EndOf(out, address, Len(out)) = address + o
          /\ decode_next(bytes, address, out) =
               IF At(bytes, address, o) = NoInsn THEN << >> ELSE <<At(bytes, address, o)>>
    BY <1>1, NextOffset
  <1>3. CASE At(bytes, address, o) = NoInsn
    <2>1. decode_next(bytes, address, out) = << >> /\ out \o << >> = out
      BY <1>1, <1>2, <1>3
    <2> QED
      BY <1>1, <2>1 DEF Turned
  <1>4. CASE At(bytes, address, o) # NoInsn
    <2>1. o < Len(bytes) /\ ~NoneAt(bytes, o)
      BY <1>4, DecodeAt
    <2>2. PICK x : x = At(bytes, address, o)
      OBVIOUS
    <2>3. /\ x.address = address + o /\ x.length \in 1 .. MaxInsnBytes /\ o + x.length <= Len(bytes)
          /\ x \in Insns(bytes, address)
      BY <2>1, <2>2, DecodeAt DEF Insns
    <2>4. PICK L \in Nat : L = Len(out)
      BY <1>1
    <2>5. PICK all : all = out \o <<x>>
      OBVIOUS
    <2>6. /\ all \in Seq(Insns(bytes, address)) /\ Len(all) = L + 1
          /\ all[L + 1] = x /\ \A i \in 1 .. L : all[i] = out[i]
      BY <1>1, <2>3, <2>4, <2>5
    <2>7. \A i \in 0 .. L : EndOf(all, address, i) = EndOf(out, address, i)
      BY <2>6 DEF EndOf
    <2>8. EndOf(all, address, L + 1) = (address + o) + x.length
      BY <2>3, <2>6 DEF EndOf
    <2>9. ASSUME NEW i \in 1 .. L + 1
          PROVE  \E p \in 0 .. Len(bytes) - 1 :
                   /\ all[i] = At(bytes, address, p) /\ ~NoneAt(bytes, p)
                   /\ address + p = EndOf(all, address, i - 1)
      <3>1. CASE i = L + 1
        BY <1>2, <2>1, <2>2, <2>4, <2>6, <2>7, <3>1
      <3>2. CASE i # L + 1
        <4>1. i \in 1 .. L /\ i - 1 \in 0 .. L
          BY <3>2
        <4>2. PICK p \in 0 .. Len(bytes) - 1 :
                /\ out[i] = At(bytes, address, p) /\ ~NoneAt(bytes, p)
                /\ address + p = EndOf(out, address, i - 1)
          BY <1>1, <2>4, <4>1 DEF Walks
        <4> QED
          BY <2>6, <2>7, <4>1, <4>2
      <3> QED
        BY <3>1, <3>2
    <2>10. ASSUME NEW i \in 0 .. L + 1
           PROVE  /\ EndOf(all, address, i) \in address .. address + Len(bytes)
                  /\ EndOf(all, address, i) <= address + i * MaxInsnBytes
      <3>1. CASE i = L + 1
        <4>1. address + o <= address + L * MaxInsnBytes
          BY <1>1, <1>2, <2>4 DEF Walks
        <4>2. (L + 1) * MaxInsnBytes = L * MaxInsnBytes + MaxInsnBytes /\ MaxInsnBytes \in Nat
              /\ L * MaxInsnBytes \in Nat
          BY ImageAssumption
        <4> QED
          BY <2>3, <2>8, <3>1, <4>1, <4>2
      <3>2. CASE i # L + 1
        <4>1. i \in 0 .. L
          BY <3>2
        <4> QED
          BY <1>1, <2>4, <2>7, <4>1 DEF Walks
      <3> QED
        BY <3>1, <3>2
    <2>11. Walks(bytes, address, all)
      BY <2>6, <2>9, <2>10 DEF Walks
    <2>12. L = n
      BY <1>2, <1>4, <2>4 DEF Turned
    <2> QED
      BY <1>2, <1>4, <2>2, <2>5, <2>6, <2>11, <2>12 DEF Turned
  <1> QED
    BY <1>3, <1>4

\* The loop decode_linear is defined with.
IsDecoding(bytes, address, max, f) ==
  f = [n \in 0 .. max |-> IF n = 0 THEN << >> ELSE f[n - 1] \o decode_next(bytes, address, f[n - 1])]
Decoding(bytes, address, max) == CHOOSE f : IsDecoding(bytes, address, max, f)

\* decode_linear returns what the loop has after its last turn.
LEMMA DecodeLinearIs ==
  ASSUME NEW bytes, NEW address, NEW max
  PROVE  decode_linear(bytes, address, max) = Decoding(bytes, address, max)[max]
  BY Zenon DEF decode_linear, Decoding, IsDecoding

\* The states of that loop exist.
LEMMA DecodingExists ==
  ASSUME NEW D, NEW bytes \in Seq(D), NEW address \in Int, NEW max \in Nat
  PROVE  \E f : IsDecoding(bytes, address, max, f)
  <1> DEFINE S == {out \in Seq(Insns(bytes, address)) : Walks(bytes, address, out)}
             turn == [p \in Nat \X S |-> p[2] \o decode_next(bytes, address, p[2])]
  <1>1. << >> \in S
    <2>1. /\ << >> \in Seq(Insns(bytes, address)) /\ Len(<< >>) = 0
          /\ EndOf(<< >>, address, 0) = address
      BY DEF EndOf
    <2> QED
      BY <2>1, ImageAssumption DEF Walks
  <1>2. turn \in [Nat \X S -> S]
    <2>1. ASSUME NEW p \in Nat \X S PROVE p[2] \o decode_next(bytes, address, p[2]) \in S
      <3>1. PICK out \in S : out = p[2]
        OBVIOUS
      <3>2. PICK o \in 0 .. Len(bytes) :
              decode_next(bytes, address, out) =
                IF At(bytes, address, o) = NoInsn THEN << >> ELSE <<At(bytes, address, o)>>
        BY NextOffset
      <3>3. PICK L \in Nat : L = Len(out)
        OBVIOUS
      <3>4. CASE decode_next(bytes, address, out) = << >>
        BY <3>1, <3>4
      <3>5. CASE decode_next(bytes, address, out) # << >>
        <4>1. Turned(bytes, address, out, L)
          BY <3>3 DEF Turned
        <4>2. Walks(bytes, address, out \o decode_next(bytes, address, out))
          BY <3>3, <4>1, DecodeTurn DEF Turned
        <4> QED
          BY <3>1, <4>2 DEF Walks
      <3> QED
        BY <3>4, <3>5
    <2> QED
      BY <2>1
  <1>3. PICK f : IsRun(f, S, << >>, turn, max)
    <2> HIDE DEF S, turn
    <2> QED
      BY <1>1, <1>2, LoopStates
  <1>4. f = [n \in 0 .. max |-> f[n]] /\ f[0] = << >>
    BY <1>3 DEF IsRun
  <1>5. ASSUME NEW n \in 1 .. max PROVE f[n] = f[n - 1] \o decode_next(bytes, address, f[n - 1])
    <2>1. f[n] = turn[<<n, f[n - 1]>>] /\ f[n - 1] \in S /\ n \in Nat
      <3> HIDE DEF S, turn
      <3>1. n - 1 \in 0 .. max /\ n \in Nat
        OBVIOUS
      <3> QED
        BY <1>3, <3>1 DEF IsRun
    <2>2. PICK out \in S : out = f[n - 1]
      BY <2>1
    <2>3. turn[<<n, out>>] = out \o decode_next(bytes, address, out)
      BY <2>1
    <2> QED
      BY <2>1, <2>2, <2>3
  <1>6. \A n \in 0 .. max : f[n] = IF n = 0 THEN << >> ELSE f[n - 1] \o decode_next(bytes, address, f[n - 1])
    BY <1>4, <1>5
  <1>7. IsDecoding(bytes, address, max, f)
    <2> HIDE DEF S, turn
    <2> QED
      BY <1>4, <1>6, Zenon DEF IsDecoding
  <1> QED
    BY <1>7

\* What decode_linear returns walks the bytes, up to max instructions.
LEMMA DecodeLinear ==
  ASSUME NEW D, NEW bytes \in Seq(D), NEW address \in Int, NEW max \in Nat
  PROVE  Turned(bytes, address, decode_linear(bytes, address, max), max)
  <1>1. PICK f : f = Decoding(bytes, address, max) /\ IsDecoding(bytes, address, max, f)
    BY DecodingExists, Zenon DEF Decoding
  <1>2. \A n \in 0 .. max : f[n] = IF n = 0 THEN << >> ELSE f[n - 1] \o decode_next(bytes, address, f[n - 1])
    BY <1>1, Zenon DEF IsDecoding
  <1> DEFINE T == {n \in Nat : n <= max => Turned(bytes, address, f[n], n)}
  <1>3. 0 \in T
    <2>1. f[0] = << >>
      BY <1>2
    <2>2. /\ << >> \in Seq(Insns(bytes, address)) /\ Len(<< >>) = 0
          /\ EndOf(<< >>, address, 0) = address
      BY DEF EndOf
    <2>3. Turned(bytes, address, << >>, 0)
      BY <2>2, ImageAssumption DEF Walks, Turned
    <2> QED
      BY <2>1, <2>3
  <1>4. ASSUME NEW n \in T PROVE n + 1 \in T
    <2> SUFFICES ASSUME n + 1 <= max PROVE Turned(bytes, address, f[n + 1], n + 1)
      OBVIOUS
    <2>1. n \in Nat /\ Turned(bytes, address, f[n], n)
      BY <1>4
    <2>2. n + 1 \in 0 .. max /\ n + 1 # 0 /\ (n + 1) - 1 = n
      BY <2>1
    <2>3. f[n + 1] = f[n] \o decode_next(bytes, address, f[n])
      BY <1>2, <2>2
    <2> QED
      BY <2>1, <2>3, DecodeTurn
  <1> HIDE DEF T
  <1>5. T = Nat
    <2>1. T \in SUBSET Nat
      BY DEF T
    <2> QED
      BY <1>3, <1>4, <2>1, Counting
  <1>6. Turned(bytes, address, f[max], max)
    BY <1>5 DEF T
  <1> QED
    BY <1>1, <1>6, DecodeLinearIs

\* The loop Capacity is defined with.
IsRoom(reserved, n, f) ==
  f = [k \in 0 .. n |-> IF k = 0 THEN reserved
                        ELSE IF k <= f[k - 1] THEN f[k - 1] ELSE Max({1, 2 * f[k - 1]})]
Room(reserved, n) == CHOOSE f : IsRoom(reserved, n, f)

\* Capacity is that loop's last state.
LEMMA CapacityIs ==
  ASSUME NEW reserved, NEW n
  PROVE  Capacity(reserved, n) = Room(reserved, n)[n]
  BY Zenon DEF Capacity, Room, IsRoom

\* A vector does not grow while there is room.
LEMMA CapacityKept ==
  ASSUME NEW reserved \in Nat, NEW n \in 0 .. reserved
  PROVE  Capacity(reserved, n) = reserved
  <1> DEFINE more(k, v) == IF k <= v THEN v ELSE Max({1, 2 * v})
  <1>1. \A k \in 0 .. reserved : more(k, reserved) = reserved
    OBVIOUS
  <1> HIDE DEF more
  <1>2. PICK f : f = [k \in 0 .. n |-> reserved]
    OBVIOUS
  <1>3. \A k \in 0 .. n : f[k] = IF k = 0 THEN reserved ELSE more(k, f[k - 1])
    <2> SUFFICES ASSUME NEW k \in 0 .. n PROVE f[k] = IF k = 0 THEN reserved ELSE more(k, f[k - 1])
      OBVIOUS
    <2>1. k # 0 => k - 1 \in 0 .. n /\ k \in 0 .. reserved
      OBVIOUS
    <2> QED
      BY <1>1, <1>2, <2>1
  <1>4. f = [k \in 0 .. n |-> IF k = 0 THEN reserved ELSE more(k, f[k - 1])]
    BY <1>2, <1>3
  <1>5. IsRoom(reserved, n, f)
    BY <1>4, Zenon DEF IsRoom, more
  <1>6. PICK g : g = Room(reserved, n) /\ IsRoom(reserved, n, g)
    BY <1>5, Zenon DEF Room
  <1>7. g = [k \in 0 .. n |-> IF k = 0 THEN reserved ELSE more(k, g[k - 1])]
    BY <1>6, Zenon DEF IsRoom, more
  <1> DEFINE T == {k \in Nat : k <= n => g[k] = reserved}
  <1>8. 0 \in T
    BY <1>7
  <1>9. ASSUME NEW k \in T PROVE k + 1 \in T
    <2> SUFFICES ASSUME k + 1 <= n PROVE g[k + 1] = reserved
      OBVIOUS
    <2>1. k \in Nat /\ g[k] = reserved
      BY <1>9
    <2>2. k + 1 \in 0 .. n /\ k + 1 # 0 /\ (k + 1) - 1 = k /\ k + 1 \in 0 .. reserved
      BY <2>1
    <2> QED
      BY <1>1, <1>7, <2>1, <2>2
  <1> HIDE DEF T
  <1>10. T \in SUBSET Nat
    BY DEF T
  <1>11. T = Nat
    BY <1>8, <1>9, <1>10, Counting
  <1>12. g[n] = reserved
    BY <1>11 DEF T
  <1> QED
    BY <1>6, <1>12, CapacityIs

\* What a row shows of its instruction.
Labelled(insn, names) ==
  IF operand_target(insn) \in DOMAIN names THEN names[operand_target(insn)] ELSE << >>

\* The rows are those of the instructions, and no annotation has moved.
LEMMA RowsAlive ==
  ASSUME NEW S, NEW insns \in Seq(S), NEW names
  PROVE  /\ Len(RowsOf(insns, names)) = Len(insns)
         /\ DOMAIN RowsOf(insns, names) = 1 .. Len(insns)
         /\ \A i \in 1 .. Len(insns) :
              /\ RowsOf(insns, names)[i].address = insns[i].address
              /\ RowsOf(insns, names)[i].length = insns[i].length
              /\ RowsOf(insns, names)[i].annotation = Labelled(insns[i], names)
              /\ RowsOf(insns, names)[i].alive = TRUE
  <1> DEFINE named(i) == operand_target(insns[i]) \in DOMAIN names
             upto(i) == Cardinality({k \in 1 .. i : named(k)})
             L == Len(insns)
             alive(i) == named(i) => Capacity(L, upto(i)) = Capacity(L, upto(L))
             row(i) == [address |-> insns[i].address, length |-> insns[i].length,
                        annotation |-> Labelled(insns[i], names), alive |-> alive(i)]
  <1>1. L \in Nat /\ DOMAIN insns = 1 .. L
    OBVIOUS
  <1>2. RowsOf(insns, names) = [i \in DOMAIN insns |-> row(i)]
    BY Zenon DEF RowsOf, Labelled
  <1> HIDE DEF named
  <1>3. ASSUME NEW i \in 0 .. L PROVE upto(i) \in 0 .. L
    <2>1. PICK K : K = {k \in 1 .. i : named(k)} /\ K \subseteq 1 .. i
      OBVIOUS
    <2>2. i \in Nat /\ IsFiniteSet(1 .. i) /\ Cardinality(1 .. i) = IF 1 > i THEN 0 ELSE i - 1 + 1
      BY <1>1, FS_Interval
    <2>3. Cardinality(K) \in Nat /\ Cardinality(K) <= i
      BY <2>1, <2>2, FS_Subset, FS_CardinalityType
    <2> QED
      BY <1>1, <2>1, <2>3
  <1> HIDE DEF upto
  <1>4. ASSUME NEW i \in 1 .. L PROVE alive(i) = TRUE
    <2>1. Capacity(L, upto(i)) = L /\ Capacity(L, upto(L)) = L
      BY <1>1, <1>3, <1>4, CapacityKept
    <2> QED
      BY <2>1
  <1> HIDE DEF alive
  <1>5. PICK f : f = [i \in 1 .. L |-> row(i)]
    OBVIOUS
  <1>6. Len(f) = L /\ DOMAIN f = 1 .. L /\ \A i \in 1 .. L : f[i] = row(i)
    <2> HIDE DEF row
    <2>1. f \in Seq({row(i) : i \in 1 .. L})
      BY <1>1, <1>5
    <2> QED
      BY <1>1, <1>5, <2>1
  <1>7. RowsOf(insns, names) = f
    BY <1>1, <1>2, <1>5
  <1>8. ASSUME NEW i \in 1 .. L
        PROVE  /\ f[i].address = insns[i].address /\ f[i].length = insns[i].length
               /\ f[i].annotation = Labelled(insns[i], names) /\ f[i].alive = TRUE
    <2>1. PICK a, l, t, v : /\ a = insns[i].address /\ l = insns[i].length
                            /\ t = Labelled(insns[i], names) /\ v = alive(i)
      OBVIOUS
    <2>2. f[i] = [address |-> a, length |-> l, annotation |-> t, alive |-> v]
      BY <1>6, <2>1
    <2>3. v = TRUE
      BY <1>4, <2>1
    <2> QED
      BY <2>1, <2>2, <2>3
  <1> QED
    BY <1>6, <1>7, <1>8

\* A loaded byte is a number.
LEMMA LoadedNatural ==
  ASSUME NEW file, IsFile(file), NEW r \in Int
  PROVE  LoadedByte(file, r) \in Nat
  <1> DEFINE in == {s \in Range(file.sections) :
                      /\ s.virtual_address <= r /\ r < s.virtual_address + s.sizeof_raw_data
                      /\ r < PagesEnd(s)
                      /\ s.pointerto_raw_data + r - s.virtual_address < Len(file.bytes)}
  <1>1. CASE in = {}
    BY <1>1 DEF LoadedByte
  <1>2. CASE in # {}
    <2>1. PICK s : s \in in
                   /\ LoadedByte(file, r) = file.bytes[s.pointerto_raw_data + r - s.virtual_address + 1]
      BY <1>2, Zenon DEF LoadedByte
    <2>2. PICK i \in DOMAIN file.sections : s = file.sections[i]
      BY <2>1 DEF Range
    <2>3. PICK va \in Nat, ptr \in Nat : va = s.virtual_address /\ ptr = s.pointerto_raw_data
      BY <2>2, HeaderNumbers
    <2>4. va <= r /\ ptr + r - va < Len(file.bytes)
      BY <2>1, <2>3
    <2>5. PICK image : image = file.bytes /\ image \in Seq(Nat)
      BY DEF IsFile
    <2>6. ptr + r - va + 1 \in 1 .. Len(image)
      <3>1. PICK n \in Nat : n = Len(image)
        BY <2>5
      <3>2. ptr + r - va < n
        BY <2>4, <2>5, <3>1
      <3>3. va <= r
        BY <2>4
      <3> HIDE DEF in
      <3>4. ptr + r - va + 1 >= 1 /\ ptr + r - va + 1 <= n /\ ptr + r - va + 1 \in Int
        BY <3>2, <3>3
      <3> QED
        BY <3>1, <3>4
    <2>7. image[ptr + r - va + 1] \in Nat
      BY <2>5, <2>6
    <2> QED
      BY <2>1, <2>3, <2>5, <2>7
  <1> QED
    BY <1>1, <1>2

\* These bytes are the loaded ones from address r on.
IsImage(file, bytes, r) ==
  bytes \in Seq(Nat) /\ \A k \in 1 .. Len(bytes) : bytes[k] = LoadedByte(file, r + k - 1)

\* An element of a sequence, by its place in the domain.
LEMMA InSequence ==
  ASSUME NEW S, NEW q \in Seq(S), NEW k \in DOMAIN q
  PROVE  q[k] \in S /\ k \in Nat
  OBVIOUS

\* Operands as they lie in the first n bytes of an instruction.
LyingIn(operands, n) == operands \in Seq([type : STRING, at : 1 .. n])

\* Each of them has its place there.
LEMMA OperandPlace ==
  ASSUME NEW n \in Nat, NEW operands, LyingIn(operands, n), NEW k \in DOMAIN operands
  PROVE  k \in Nat /\ operands[k].at \in 1 .. n
  <1>1. operands[k] \in [type : STRING, at : 1 .. n] /\ k \in Nat
    BY InSequence, Zenon DEF LyingIn
  <1> QED
    BY <1>1

\* Operands are mapped from the bytes of their instruction.
LEMMA SameOperands ==
  ASSUME NEW c \in DOMAIN Opcodes, NEW b, NEW d, \A k \in 1 .. Opcodes[c].length : b[k] = d[k]
  PROVE  OperandsOf(Opcodes[c].operands, b) = OperandsOf(Opcodes[c].operands, d)
  <1>1. PICK n, ops : n = Opcodes[c].length /\ ops = Opcodes[c].operands
    OBVIOUS
  <1>2. LyingIn(ops, n) /\ n \in Nat
    BY <1>1, ImageAssumption DEF LyingIn
  <1>3. \A k \in DOMAIN ops : ops[k].at \in 1 .. n
    BY <1>2, OperandPlace
  <1>4. \A k \in DOMAIN ops : b[ops[k].at] = d[ops[k].at]
    BY <1>1, <1>3
  <1>5. OperandsOf(ops, b) = OperandsOf(ops, d)
    BY <1>4 DEF OperandsOf
  <1> QED
    BY <1>1, <1>5

\* The instruction decoded from a part of the image is the one the image has there.
LEMMA InsnInImage ==
  ASSUME IsFile(disk), NEW address \in Int, Start \in Int, NEW bytes, IsImage(disk, bytes, address - Start),
         NEW o \in 0 .. Len(bytes) - 1
  PROVE  /\ ~NoneAt(bytes, o) =>
              /\ InsnAt(address + o - Start).length = At(bytes, address, o).length
              /\ InsnAt(address + o - Start).operands = At(bytes, address, o).operands
              /\ InsnAt(address + o - Start).address = At(bytes, address, o).address
         /\ NoneAt(bytes, o) =>
              \/ InsnAt(address + o - Start) = NoInsn
              \/ o + InsnAt(address + o - Start).length > Len(bytes)
  <1>1. bytes \in Seq(Nat) /\ \A k \in 1 .. Len(bytes) : bytes[k] = LoadedByte(disk, address - Start + k - 1)
    BY DEF IsImage
  <1>2. PICK r \in Int : r = address + o - Start
    OBVIOUS
  <1>3. PICK m \in Nat \ {0} : m = MaxInsnBytes
    BY ImageAssumption
  <1>4. PICK b : b = [i \in 1 .. m |-> LoadedByte(disk, r + i - 1)]
    OBVIOUS
  <1>5. b \in Seq(Nat) /\ Len(b) = m /\ \A i \in 1 .. m : b[i] = LoadedByte(disk, r + i - 1)
    <2>1. \A i \in 1 .. m : LoadedByte(disk, r + i - 1) \in Nat
      BY LoadedNatural
    <2> QED
      BY <1>4, <2>1
  <1>6. InsnAt(r) = decode_one(b, Start + r)
    BY <1>3, <1>4, Zenon DEF InsnAt
  <1>7. \A i \in 1 .. m : o + i <= Len(bytes) => b[i] = bytes[o + i]
    <2> SUFFICES ASSUME NEW i \in 1 .. m, o + i <= Len(bytes) PROVE b[i] = bytes[o + i]
      OBVIOUS
    <2>1. o + i \in 1 .. Len(bytes) /\ address - Start + (o + i) - 1 = r + i - 1
      BY <1>1, <1>2
    <2>2. bytes[o + i] = LoadedByte(disk, address - Start + (o + i) - 1)
      BY <1>1, <2>1
    <2> QED
      BY <1>5, <2>1, <2>2
  <1>8. b[1] = bytes[o + 1] /\ b # << >>
    BY <1>1, <1>3, <1>5, <1>7
  <1>9. CASE b[1] \notin DOMAIN Opcodes
    <2>1. InsnAt(r) = NoInsn
      BY <1>6, <1>9, DecodeOne DEF Undecodable
    <2> QED
      BY <1>2, <1>8, <1>9, <2>1 DEF NoneAt
  <1>10. CASE b[1] \in DOMAIN Opcodes
    <2>1. PICK n \in 1 .. m : n = Opcodes[b[1]].length
      BY <1>3, <1>10, ImageAssumption
    <2>2. ~Undecodable(b)
      BY <1>5, <1>8, <1>10, <2>1 DEF Undecodable
    <2>3. /\ InsnAt(r).length = n /\ InsnAt(r).operands = OperandsOf(Opcodes[b[1]].operands, b)
          /\ InsnAt(r).address = Start + r
      BY <1>6, <2>1, <2>2, DecodeOne
    <2>4. CASE NoneAt(bytes, o)
      <3>1. o + n > Len(bytes)
        BY <1>8, <1>10, <2>1, <2>4 DEF NoneAt
      <3> QED
        BY <1>2, <2>3, <2>4, <3>1
    <2>5. CASE ~NoneAt(bytes, o)
      <3>1. o + n <= Len(bytes)
        <4>1. ~(o + n > Len(bytes))
          BY <1>8, <2>1, <2>5 DEF NoneAt
        <4> QED
          BY <1>1, <4>1
      <3>3. o \in 0 .. Len(bytes) /\ o < Len(bytes)
        BY <1>1
      <3>4. PICK d : d = SubSeq(bytes, o + 1, Len(bytes))
        OBVIOUS
      <3>5. /\ At(bytes, address, o).length = n /\ At(bytes, address, o).address = address + o
            /\ At(bytes, address, o).operands = OperandsOf(Opcodes[b[1]].operands, d)
        BY <1>1, <1>8, <2>1, <2>5, <3>3, <3>4, DecodeAt
      <3>6. \A k \in 1 .. n : b[k] = d[k]
        <4>1. \A k \in 1 .. Len(bytes) - o : d[k] = bytes[o + k]
          BY <1>1, <3>3, <3>4
        <4>2. \A k \in 1 .. n : k \in 1 .. Len(bytes) - o /\ k \in 1 .. m /\ o + k <= Len(bytes)
          BY <1>1, <3>1
        <4> QED
          BY <1>7, <4>1, <4>2
      <3>7. OperandsOf(Opcodes[b[1]].operands, b) = OperandsOf(Opcodes[b[1]].operands, d)
        <4>1. PICK c : c = b[1] /\ c \in DOMAIN Opcodes /\ n = Opcodes[c].length
          BY <1>10, <2>1
        <4> QED
          BY <3>6, <4>1, SameOperands
      <3> QED
        BY <1>2, <2>3, <2>5, <3>5, <3>7
    <2> QED
      BY <2>4, <2>5
  <1> QED
    BY <1>9, <1>10

\* The symbol map names no other place.
LEMMA MappedNamed ==
  ASSUME NEW file, IsFile(file), NEW bin, bin = parse_file(file), NEW delta \in Int,
         NEW pa, NEW pb, NEW pc, NEW r \in Nat,
         NEW names, names = LastNames(Inserts(bin, delta, pa, pb, pc)),
         file.imagebase + delta + r \in DOMAIN names
  PROVE  DisplayNames(file, r, pa, pb, pc) # {}
  <1>1. PICK Str : Strings \subseteq Str /\ pa \in Str /\ pb \in Str /\ pc \in Str
    <2>1. Strings \subseteq Strings \cup {pa, pb, pc}
      OBVIOUS
    <2> QED
      BY <2>1
  <1>2. PICK start \in Int : start = file.imagebase + delta
    BY DEF IsFile
  <1>3. PICK A, B, C : /\ A = SymbolInserts(bin, pa, delta)
                       /\ B = ExportInserts(bin, pb, delta)
                       /\ C = ImportInserts(bin, pc, delta)
    OBVIOUS
  <1>4. PICK na, nb, nc : na = SymbolNames(file) /\ nb = ExportNames(file) /\ nc = ImportNames(file)
    OBVIOUS
  <1>5. Lists(Str, A, pa, start, na)
    BY <1>1, <1>2, <1>3, <1>4, SymbolsListed
  <1>6. Lists(Str, B, pb, start, nb)
    BY <1>1, <1>2, <1>3, <1>4, ExportsListed
  <1>7. Lists(Str, C, pc, start, nc)
    BY <1>1, <1>2, <1>3, <1>4, ImportsListed
  <1>8. A \in Seq(Entry(Str)) /\ B \in Seq(Entry(Str)) /\ C \in Seq(Entry(Str))
    BY <1>5, <1>6, <1>7 DEF Lists
  <1>9. PICK all : all = A \o B \o C
    OBVIOUS
  <1>10. PICK p \in Nat, q \in Nat, s \in Nat : Joined(Entry(Str), A, B, C, p, q, s, all)
    BY <1>8, <1>9, Concatenated
  <1>11. PICK i \in DOMAIN all : all[i][1] = start + r
    <2>1. names = LastNames(all)
      BY <1>3, <1>9 DEF Inserts
    <2>2. DOMAIN names = {all[i][1] : i \in DOMAIN all}
      BY <2>1, Zenon DEF LastNames
    <2> QED
      BY <1>2, <2>2
  <1>12. na[r] # {} \/ nb[r] # {} \/ nc[r] # {}
    <2>1. i \in 1 .. p + q + s
      BY <1>10 DEF Joined
    <2>2. CASE i <= p
      <3>1. i \in 1 .. p
        BY <2>1, <2>2
      <3>2. i \in 1 .. Len(A) /\ A[i][1] = start + r
        BY <1>10, <1>11, <3>1 DEF Joined
      <3> QED
        BY <1>5, <3>2 DEF Lists
    <2>3. CASE ~(i <= p) /\ i <= p + q
      <3>1. PICK k \in 1 .. q : i = p + k
        <4>1. i - p \in 1 .. q /\ i = p + (i - p)
          BY <2>1, <2>3
        <4> QED
          BY <4>1
      <3>2. k \in 1 .. Len(B) /\ B[k][1] = start + r
        BY <1>10, <1>11, <3>1 DEF Joined
      <3> QED
        BY <1>6, <3>2 DEF Lists
    <2>4. CASE ~(i <= p + q)
      <3>1. PICK k \in 1 .. s : i = p + q + k
        <4>1. i - (p + q) \in 1 .. s /\ i = p + q + (i - (p + q))
          BY <2>1, <2>4
        <4> QED
          BY <4>1
      <3>2. k \in 1 .. Len(C) /\ C[k][1] = start + r
        BY <1>10, <1>11, <3>1 DEF Joined
      <3> QED
        BY <1>7, <3>2 DEF Lists
    <2> QED
      BY <2>2, <2>3, <2>4
  <1> QED
    BY <1>4, <1>12 DEF DisplayNames

\* The symbol map names no place that the file does not.
LEMMA NamesOnly ==
  ASSUME IsFile(disk), NEW delta \in Int, NEW r \in Nat,
         disk.imagebase + delta + r \in DOMAIN NamesAt(parse_file(disk), delta)
  PROVE  NamesFor(r) # {}
  <1>1. PICK pa, pb, pc, file, bin : /\ pa = "" /\ pb = "sym." /\ pc = "sym.imp."
                                     /\ file = disk /\ bin = parse_file(disk)
    BY Zenon
  <1>2. NamesFor(r) = NamesIn(file, r, pa, pb, pc)
    BY <1>1, NamesForFile, Zenon
  <1>3. NamesAt(bin, delta) = LastNames(Inserts(bin, delta, pa, pb, pc))
    BY <1>1, NamesAtLast, Zenon
  <1>4. file = disk /\ bin = parse_file(file) /\ IsFile(file)
    BY <1>1, Zenon
  <1>5. NamesFor(r) = DisplayNames(file, r, pa, pb, pc)
    BY <1>2, NamesDisplayed
  <1>6. file.imagebase + delta + r \in DOMAIN NamesAt(bin, delta)
    BY <1>4
  <1> QED
    BY <1>3, <1>4, <1>5, <1>6, MappedNamed

\* The displacement of a memory operand is the value it was encoded with.
LEMMA MappedMemory ==
  ASSUME NEW type, NEW value, NEW op, op = map_operand(type, value), op.kind = "Memory"
  PROVE  op.disp = value
  <1>1. CASE type = "IMMEDIATE"
    BY <1>1 DEF map_operand
  <1>2. CASE type = "POINTER"
    BY <1>2 DEF map_operand
  <1>3. CASE type = "RIP"
    BY <1>3 DEF map_operand
  <1>4. CASE type = "MEMORY"
    BY <1>4 DEF map_operand
  <1>5. CASE type = "REGISTER"
    BY <1>5 DEF map_operand
  <1>6. CASE type \notin {"IMMEDIATE", "POINTER", "RIP", "MEMORY", "REGISTER"}
    BY <1>6 DEF map_operand
  <1> QED
    BY <1>1, <1>2, <1>3, <1>4, <1>5, <1>6

\* Without an immediate, an instruction refers to the place its first rip-relative
\* operand points to.
LEMMA RipTarget ==
  ASSUME NEW n \in Nat, NEW operands, LyingIn(operands, n),
         NEW b, \A k \in 1 .. n : b[k] \in Nat,
         NEW insn, insn.operands = OperandsOf(operands, b), NoValue(insn), NEW a \in RipPlaces(insn)
  PROVE  operand_target(insn) = a /\ \E disp \in Nat : a = insn.address + insn.length + disp
  <1>1. PICK ops : ops = insn.operands /\ ops = OperandsOf(operands, b)
    OBVIOUS
  <1>2. PICK imms, rips :
          /\ imms = {i \in DOMAIN ops : ops[i].kind \in {"Immediate", "Pointer"} /\ ops[i].imm # 0}
          /\ rips = {i \in DOMAIN ops : ops[i].kind = "Memory" /\ ops[i].rip_relative}
    OBVIOUS
  <1>3. imms = {}
    BY <1>1, <1>2 DEF NoValue
  <1>4. rips # {} /\ a = insn.address + insn.length + ops[Min(rips)].disp
    <2>1. RipPlaces(insn) = IF rips = {} THEN {} ELSE {insn.address + insn.length + ops[Min(rips)].disp}
      BY <1>1, <1>2, Zenon DEF RipPlaces
    <2> QED
      BY <2>1
  <1>5. operand_target(insn) = IF imms # {} THEN ops[Min(imms)].imm
                               ELSE IF rips # {} THEN insn.address + insn.length + ops[Min(rips)].disp
                               ELSE NoTarget
    BY <1>1, <1>2, Zenon DEF operand_target
  <1>6. DOMAIN ops = DOMAIN operands
    BY <1>1 DEF OperandsOf
  <1>7. PICK k : k = Min(rips)
    OBVIOUS
  <1>8. k \in DOMAIN ops /\ ops[k].kind = "Memory"
    <2>1. rips \in SUBSET Nat
      <3>1. \A i \in DOMAIN ops : i \in Nat
        BY <1>6, OperandPlace
      <3> QED
        BY <1>2, <3>1
    <2>2. k \in rips
      BY <1>4, <1>7, <2>1, MinOfSet
    <2> QED
      BY <1>2, <2>2
  <1>9. ops[k].disp \in Nat
    <2>2. operands[k].at \in 1 .. n
      BY <1>6, <1>8, OperandPlace
    <2>3. PICK type, value : type = operands[k].type /\ value = b[operands[k].at]
      OBVIOUS
    <2>4. ops[k] = map_operand(type, value)
      BY <1>1, <1>6, <1>8, <2>3 DEF OperandsOf
    <2>5. PICK op : op = ops[k] /\ op.kind = "Memory"
      BY <1>8
    <2>6. op.disp = value
      BY <2>4, <2>5, MappedMemory
    <2> QED
      BY <2>2, <2>3, <2>5, <2>6
  <1> QED
    BY <1>3, <1>4, <1>5, <1>7, <1>9

\* The instructions of a listing, from the bytes it got.
InsnsOf(bytes, addr, count) ==
  IF count = 0 \/ bytes = << >> THEN << >> ELSE decode_linear(bytes, addr, count)

\* They walk the bytes, though none were decoded where there were none.
LEMMA InsnsTurned ==
  ASSUME NEW D, NEW bytes \in Seq(D), NEW addr \in Int, NEW count \in Nat
  PROVE  Turned(bytes, addr, InsnsOf(bytes, addr, count), count)
  <1>1. Walks(bytes, addr, << >>)
    <2>1. /\ << >> \in Seq(Insns(bytes, addr)) /\ Len(<< >>) = 0
          /\ EndOf(<< >>, addr, 0) = addr
      BY DEF EndOf
    <2> QED
      BY <2>1, ImageAssumption DEF Walks
  <1>2. CASE count = 0
    BY <1>1, <1>2 DEF Turned, InsnsOf
  <1>3. CASE count # 0 /\ bytes = << >>
    <2>1. PICK o \in 0 .. Len(bytes) :
            decode_next(bytes, addr, << >>) =
              IF At(bytes, addr, o) = NoInsn THEN << >> ELSE <<At(bytes, addr, o)>>
      BY <1>1, NextOffset
    <2>2. o = Len(bytes)
      BY <1>3
    <2>3. decode_next(bytes, addr, << >>) = << >>
      BY <2>1, <2>2, DecodeAt
    <2> QED
      BY <1>1, <1>3, <2>3 DEF Turned, InsnsOf
  <1>4. CASE count # 0 /\ bytes # << >>
    BY <1>4, DecodeLinear DEF InsnsOf
  <1> QED
    BY <1>2, <1>3, <1>4

\* Row i of a disassembly is the instruction the image has at its place, with the
\* name of what it refers to when the binary is known.
RowExact(rows, addr, i, known) ==
  LET insn == InsnAt(rows[i].address - Start)
  IN  /\ rows[i].address = EndOf(rows, addr, i - 1)
      /\ rows[i].length = insn.length
      /\ rows[i].alive
      /\ known /\ NoValue(insn) =>
           \A a \in RipPlaces(insn) :
             IF NamesFor(a - Start) = {} THEN rows[i].annotation = << >>
             ELSE rows[i].annotation \in NamesFor(a - Start)

\* The rows stop short only where no instruction of the n bytes follows.
StopsWell(rows, addr, count, n) ==
  LET end == EndOf(rows, addr, Len(rows))
      next == InsnAt(end - Start)
  IN  Len(rows) < count =>
        \/ next = NoInsn
        \/ (kind = "Static" \/ rows = << >>) /\ end + next.length > addr + n

\* What a disassembly promises.
RowsExact(rows, addr, count, n, known) ==
  /\ Len(rows) <= count
  /\ \A i \in DOMAIN rows : RowExact(rows, addr, i, known)
  /\ StopsWell(rows, addr, count, n)

\* The names the session has for its binary are the file's, moved to where it starts.
KnownNames(names, known) ==
  known => names = NamesAt(parse_file(disk), Start - disk.imagebase)

\* The row of an instruction decoded from the image.
LEMMA RowOfInsn ==
  ASSUME IsFile(disk), Start \in Int, NEW addr \in Int, Start - 1 <= addr,
         NEW bytes, IsImage(disk, bytes, addr - Start), NEW insns, Walks(bytes, addr, insns),
         NEW names, NEW known, KnownNames(names, known),
         NEW rows, rows = RowsOf(insns, names), NEW i \in 1 .. Len(insns)
  PROVE  RowExact(rows, addr, i, known)
  <1>1. bytes \in Seq(Nat)
    BY DEF IsImage
  <1>2. PICK o \in 0 .. Len(bytes) - 1 :
          insns[i] = At(bytes, addr, o) /\ ~NoneAt(bytes, o) /\ addr + o = EndOf(insns, addr, i - 1)
    BY DEF Walks
  <1>0. PICK S : insns \in Seq(S)
    BY DEF Walks
  <1>3. \A k \in 1 .. Len(insns) :
          /\ rows[k].address = insns[k].address /\ rows[k].length = insns[k].length
          /\ rows[k].annotation = Labelled(insns[k], names) /\ rows[k].alive = TRUE
    BY <1>0, RowsAlive
  <1>16. rows[i].address = insns[i].address /\ rows[i].length = insns[i].length
    BY <1>3
  <1>4. o \in 0 .. Len(bytes) /\ o < Len(bytes)
    BY <1>1
  <1>5. /\ insns[i].address = addr + o /\ insns[i].length \in 1 .. MaxInsnBytes
        /\ insns[i].operands
             = OperandsOf(Opcodes[bytes[o + 1]].operands, SubSeq(bytes, o + 1, Len(bytes)))
        /\ insns[i].length = Opcodes[bytes[o + 1]].length /\ o + insns[i].length <= Len(bytes)
    BY <1>1, <1>2, <1>4, DecodeAt
  <1>6. PICK x \in Int, n \in Nat \ {0} : x = insns[i].address /\ n = insns[i].length
    BY <1>5, ImageAssumption, SMTT(60)
  <1>13. PICK s \in Int : s = Start /\ s - 1 <= addr
    OBVIOUS
  <1>7. PICK at \in Int : at = x - s
    OBVIOUS
  <1>14. x = addr + o
    BY <1>5, <1>6
  <1>8. at = addr + o - Start /\ rows[i].address - Start = at
    <2>1. at = addr + o - s
      BY <1>7, <1>14
    <2>2. rows[i].address = x /\ x - s = at
      BY <1>6, <1>7, <1>16
    <2> QED
      BY <1>13, <2>1, <2>2
  <1>15. o + n \in 1 .. Len(bytes)
    <2>1. PICK len \in Nat : len = Len(bytes)
      BY <1>1
    <2>2. o + n <= len
      BY <1>5, <1>6, <2>1
    <2> QED
      BY <1>4, <2>1, <2>2
  <1>9. /\ InsnAt(at).length = insns[i].length /\ InsnAt(at).operands = insns[i].operands
        /\ InsnAt(at).address = insns[i].address
    BY <1>2, <1>8, InsnInImage
  <1>10. rows[i].address = EndOf(rows, addr, i - 1)
    <2>1. x = EndOf(insns, addr, i - 1)
      BY <1>2, <1>5, <1>6
    <2>2. CASE i = 1
      BY <1>6, <1>16, <2>1, <2>2 DEF EndOf
    <2>3. CASE i # 1
      <3>1. i - 1 \in 1 .. Len(insns) /\ i - 1 # 0
        BY <2>3
      <3>2. rows[i - 1].address = insns[i - 1].address /\ rows[i - 1].length = insns[i - 1].length
        BY <1>3, <3>1
      <3> QED
        BY <1>6, <1>16, <2>1, <3>1, <3>2 DEF EndOf
    <2> QED
      BY <2>2, <2>3
  <1>11. ASSUME known, NoValue(InsnAt(at)), NEW a \in RipPlaces(InsnAt(at))
         PROVE  IF NamesFor(a - Start) = {} THEN rows[i].annotation = << >>
                ELSE rows[i].annotation \in NamesFor(a - Start)
    <2>1. PICK insn, b, c, operands :
            /\ insn = insns[i] /\ b = SubSeq(bytes, o + 1, Len(bytes)) /\ c = bytes[o + 1]
            /\ operands = Opcodes[c].operands
      OBVIOUS
    <2>2. NoValue(insn) /\ a \in RipPlaces(insn)
      BY <1>9, <1>11, <2>1, Zenon DEF NoValue, RipPlaces
    <2>3. c \in DOMAIN Opcodes /\ n = Opcodes[c].length
      BY <1>2, <1>5, <1>6, <2>1 DEF NoneAt
    <2>4. LyingIn(operands, n)
      BY <2>1, <2>3, ImageAssumption DEF LyingIn
    <2>5. \A k \in 1 .. n : b[k] \in Nat
      <3>1. b \in Seq(Nat) /\ Len(b) = Len(bytes) - o
        BY <1>1, <1>4, <2>1, SMTT(60)
      <3>2. n <= Len(b)
        BY <1>1, <1>15, <3>1
      <3> QED
        BY <3>1, <3>2
    <2>6. insn.operands = OperandsOf(operands, b)
      BY <1>5, <2>1
    <2>7. PICK disp \in Nat : operand_target(insn) = a /\ a = insn.address + insn.length + disp
      <3>1. n \in Nat
        OBVIOUS
      <3>2. operand_target(insn) = a /\ \E d \in Nat : a = insn.address + insn.length + d
        BY <2>2, <2>4, <2>5, <2>6, <3>1, RipTarget
      <3> QED
        BY <3>2
    <2>8. PICK r : r = at + n + disp
      OBVIOUS
    <2>9. r \in Nat
      <3>1. at >= -1 /\ n >= 1 /\ disp >= 0
        BY <1>4, <1>7, <1>13, <1>14
      <3> QED
        BY <2>8, <3>1
    <2>10. operand_target(insn) = Start + r
      <3>1. operand_target(insn) = x + n + disp
        BY <1>6, <2>1, <2>7
      <3>2. x + n + disp = s + r
        BY <1>7, <2>8
      <3> QED
        BY <1>13, <3>1, <3>2
    <2>11. PICK ib \in Int : ib = disk.imagebase
      BY DEF IsFile
    <2>12. PICK delta \in Int : delta = Start - ib
      OBVIOUS
    <2>13. disk.imagebase + delta + r = Start + r
      BY <2>11, <2>12
    <2>14. names = NamesAt(parse_file(disk), delta)
      BY <1>11, <2>11, <2>12 DEF KnownNames
    <2>15. PICK t : t = Start + r
      OBVIOUS
    <2>16. t \in DOMAIN names <=> NamesFor(r) # {}
      BY <2>9, <2>12, <2>13, <2>14, <2>15, NamesOnly, NamesKept
    <2>17. NamesFor(r) # {} => names[t] \in NamesFor(r)
      BY <2>9, <2>12, <2>13, <2>14, <2>15, NamesKept
    <2>18. rows[i].annotation = IF t \in DOMAIN names THEN names[t] ELSE << >>
      BY <1>3, <2>1, <2>10, <2>15 DEF Labelled
    <2>19. a - Start = r
      BY <1>13, <2>7, <2>9, <2>10
    <2> QED
      BY <2>16, <2>17, <2>18, <2>19
  <1> QED
    BY <1>3, <1>8, <1>9, <1>10, <1>11 DEF RowExact

\* A process's bytes are as many as were asked for, or none.
Whole(bytes, n) == kind = "Native" => bytes = << >> \/ Len(bytes) = n

\* The rows stop where no instruction of the image follows, or the bytes end.
LEMMA RowsStop ==
  ASSUME IsFile(disk), Start \in Int, kind \in {"Native", "Static"}, NEW addr \in Int, NEW count \in Nat,
         NEW bytes, IsImage(disk, bytes, addr - Start), Whole(bytes, count * MaxInsnBytes),
         NEW insns, Turned(bytes, addr, insns, count),
         NEW names, NEW rows, rows = RowsOf(insns, names)
  PROVE  Len(rows) <= count /\ StopsWell(rows, addr, count, Len(bytes))
  <1>1. bytes \in Seq(Nat) /\ Walks(bytes, addr, insns) /\ Len(insns) <= count
    BY DEF IsImage, Turned
  <1>0. PICK S : insns \in Seq(S)
    BY <1>1 DEF Walks
  <1>2. PICK L \in Nat : L = Len(insns)
    BY <1>0
  <1>3. Len(rows) = L /\ EndOf(rows, addr, L) = EndOf(insns, addr, L)
    <2>1. Len(rows) = L
      BY <1>0, <1>2, RowsAlive
    <2>2. CASE L = 0
      BY <2>1, <2>2 DEF EndOf
    <2>3. CASE L # 0
      <3>1. L \in 1 .. Len(insns)
        BY <1>2, <2>3
      <3>2. rows[L].address = insns[L].address /\ rows[L].length = insns[L].length
        BY <1>0, <3>1, RowsAlive
      <3> QED
        BY <2>1, <2>3, <3>2 DEF EndOf
    <2> QED
      BY <2>2, <2>3
  <1>4. ASSUME L < count
        PROVE  LET end == EndOf(rows, addr, L)
                   next == InsnAt(end - Start)
               IN  \/ next = NoInsn
                   \/ (kind = "Static" \/ rows = << >>) /\ end + next.length > addr + Len(bytes)
    <2>1. PICK o \in 0 .. Len(bytes) :
            /\ EndOf(insns, addr, Len(insns)) = addr + o
            /\ decode_next(bytes, addr, insns) =
                 IF At(bytes, addr, o) = NoInsn THEN << >> ELSE <<At(bytes, addr, o)>>
      BY <1>1, NextOffset
    <2>2. At(bytes, addr, o) = NoInsn
      <3>1. decode_next(bytes, addr, insns) = << >>
        BY <1>2, <1>4 DEF Turned
      <3> QED
        BY <2>1, <3>1
    <2>3. o = Len(bytes) \/ NoneAt(bytes, o)
      BY <1>1, <2>2, DecodeAt
    <2>4. PICK end \in Int : end = addr + o
      OBVIOUS
    <2>5. PICK next : next = InsnAt(end - Start)
      OBVIOUS
    <2>6. next = NoInsn \/ next.length \in 1 .. MaxInsnBytes
      <3>1. PICK b, a : next = decode_one(b, a)
        BY <2>5 DEF InsnAt
      <3> QED
        BY <3>1, DecodeOne
    <2>7. next = NoInsn \/ o + next.length > Len(bytes)
      <3>1. CASE o = Len(bytes)
        BY <1>1, <2>6, <3>1, ImageAssumption
      <3>2. CASE o # Len(bytes)
        <4>1. o \in 0 .. Len(bytes) - 1 /\ NoneAt(bytes, o)
          BY <1>1, <2>3, <3>2
        <4> QED
          BY <2>4, <2>5, <4>1, InsnInImage
      <3> QED
        BY <3>1, <3>2
    <2>8. ASSUME next # NoInsn PROVE kind = "Static" \/ rows = << >>
      <3> SUFFICES ASSUME kind = "Native", rows # << >> PROVE FALSE
        OBVIOUS
      <3>1. L # 0
        <4>1. L = 0 => insns = << >>
          BY <1>0, <1>2, EmptySeq
        <4>2. L = 0 => rows = << >>
          BY <1>3, <4>1 DEF RowsOf
        <4> QED
          BY <4>2
      <3>2. bytes # << >>
        <4>1. PICK p \in 0 .. Len(bytes) - 1 : insns[1] = At(bytes, addr, p)
          BY <1>1, <1>2, <3>1 DEF Walks
        <4> QED
          BY <1>1, <4>1
      <3>3. Len(bytes) = count * MaxInsnBytes
        BY <3>2 DEF Whole
      <3>4. addr + o <= addr + L * MaxInsnBytes
        BY <1>1, <1>2, <2>1 DEF Walks
      <3>5. PICK m \in Nat \ {0} : m = MaxInsnBytes
        BY ImageAssumption
      <3>6. count * m >= L * m + m
        <4>1. PICK d \in Nat : count = (L + 1) + d
          <5>1. count - (L + 1) \in Nat /\ count = (L + 1) + (count - (L + 1))
            BY <1>4
          <5> QED
            BY <5>1
        <4>2. count * m = L * m + m + d * m /\ d * m \in Nat
          BY <4>1
        <4> QED
          BY <4>2
      <3>7. L * m \in Nat /\ next.length \in 1 .. m
        BY <2>6, <2>8, <3>5
      <3> QED
        BY <2>7, <2>8, <3>3, <3>4, <3>5, <3>6, <3>7
    <2>9. EndOf(rows, addr, L) = end
      BY <1>2, <1>3, <2>1, <2>4
    <2>10. next # NoInsn => end + next.length > addr + Len(bytes)
      BY <1>1, <2>4, <2>6, <2>7, ImageAssumption
    <2> QED
      BY <2>5, <2>8, <2>9, <2>10
  <1> QED
    BY <1>1, <1>2, <1>3, <1>4 DEF StopsWell

\* The rows of a disassembly of the image are exact.
LEMMA RowsAreExact ==
  ASSUME IsFile(disk), Start \in Int, kind \in {"Native", "Static"},
         NEW addr \in Int, Start - 1 <= addr, NEW count \in Nat,
         NEW bytes, IsImage(disk, bytes, addr - Start), Whole(bytes, count * MaxInsnBytes),
         NEW names, NEW known, KnownNames(names, known)
  PROVE  RowsExact(RowsOf(InsnsOf(bytes, addr, count), names), addr, count, Len(bytes), known)
  <1>1. PICK insns : insns = InsnsOf(bytes, addr, count) /\ Turned(bytes, addr, insns, count)
    BY InsnsTurned DEF IsImage
  <1>2. PICK rows : rows = RowsOf(insns, names)
    OBVIOUS
  <1>3. Walks(bytes, addr, insns)
    BY <1>1 DEF Turned
  <1>0. PICK S : insns \in Seq(S)
    BY <1>3 DEF Walks
  <1>4. DOMAIN rows = 1 .. Len(insns)
    BY <1>0, <1>2, RowsAlive
  <1>5. \A i \in 1 .. Len(insns) : RowExact(rows, addr, i, known)
    BY <1>2, <1>3, RowOfInsn
  <1>6. Len(rows) <= count /\ StopsWell(rows, addr, count, Len(bytes))
    BY <1>1, <1>2, RowsStop
  <1> QED
    BY <1>1, <1>2, <1>4, <1>5, <1>6 DEF RowsExact

\* A process's memory is its image, all of the range or nothing.
LEMMA LiveImage ==
  ASSUME IsFile(disk), kind = "Native", base \in Nat, NEW addr \in Int, NEW n \in Nat,
         NEW bytes, bytes = LiveBytes(addr, n)
  PROVE  IsImage(disk, bytes, addr - Start) /\ Whole(bytes, n)
  <1>1. Start = base
    BY DEF Start
  <1>2. CASE bytes = << >>
    BY <1>2 DEF IsImage, Whole
  <1>3. CASE bytes = [i \in 1 .. n |-> LoadedByte(disk, addr + i - 1 - base)]
    <2>1. ASSUME NEW i \in 1 .. n
          PROVE  /\ bytes[i] = LoadedByte(disk, addr - base + i - 1)
                 /\ LoadedByte(disk, addr + i - 1 - base) \in Nat
      <3>1. addr + i - 1 - base = addr - base + i - 1 /\ addr + i - 1 - base \in Int
        OBVIOUS
      <3> QED
        BY <1>3, <3>1, LoadedNatural
    <2>2. bytes \in Seq(Nat) /\ Len(bytes) = n
      BY <1>3, <2>1
    <2> QED
      BY <1>1, <2>1, <2>2 DEF IsImage, Whole
  <1> QED
    BY <1>2, <1>3 DEF LiveBytes

\* What a file session reads is its image too, as far as the pages of the section
\* the read began in.
LEMMA FileImage ==
  ASSUME IsFile(disk), Loadable(disk), kind = "Static", StaticBin, NEW addr \in Int, NEW n \in Nat,
         NEW bytes, bytes = read_at(main_bin, disk.bytes, addr, n), InPages(addr - Start, Len(bytes))
  PROVE  IsImage(disk, bytes, addr - Start) /\ Whole(bytes, n)
  <1>1. PICK file : file = disk /\ IsFile(file) /\ Loadable(file) /\ file.imagebase \in Nat
    BY DEF IsFile
  <1>2. PICK bin : bin = parse_file(file) /\ bytes = read_at(bin, file.bytes, addr, n)
    BY <1>1 DEF StaticBin
  <1>3. PICK r \in Int : r = addr - file.imagebase /\ r = addr - Start
    BY <1>1 DEF Start
  <1>4. PICK c \in 0 .. n, top \in Nat : Shows(file, bytes, r, c, top) /\ (c = 0 \/ HeldUpTo(file, r, top))
    <2>1. \E c \in 0 .. n, top \in Nat :
            /\ Shows(file, read_at(bin, file.bytes, addr, n), addr - file.imagebase, c, top)
            /\ c = 0 \/ HeldUpTo(file, addr - file.imagebase, top)
      BY <1>1, <1>2, FileRead
    <2> QED
      BY <1>2, <1>3, <2>1
  <1>5. bytes \in Seq(Nat) /\ Len(bytes) = c
    BY <1>4 DEF Shows
  <1>6. c = 0 \/ r + c <= top
    BY <1>1, <1>3, <1>4, <1>5 DEF InPages, HeldUpTo
  <1>7. \A k \in 1 .. c : bytes[k] = LoadedByte(file, r + k - 1)
    BY <1>4, <1>6 DEF Shows
  <1> QED
    BY <1>1, <1>3, <1>5, <1>7 DEF IsImage, Whole

\* What the binary is known to be fixes the names.
LEMMA NamesFixed ==
  ASSUME BinaryOK, kind \in {"Native", "Static"}
  PROVE  KnownNames(symbol_map, main_bin # NoBinary)
  BY DEF BinaryOK, Parsed, Unparsed, KnownNames

\* The listing is one the property speaks of: the file could be loaded, and the n
\* bytes read of it end with the pages of the section they began in.
InImage(addr, n) == Loadable(disk) /\ (kind = "Static" => InPages(addr - Start, n))

\* The property in those terms.
LEMMA ExactIs ==
  DisassemblyExact <=>
    (answer.op = "disasm" /\ InImage(answer.arg[1], Len(Read(answer.arg[1], answer.arg[2] * MaxInsnBytes))) =>
       RowsExact(answer.rows, answer.arg[1], answer.arg[2],
                 Len(Read(answer.arg[1], answer.arg[2] * MaxInsnBytes)), main_bin # NoBinary))
  BY Zenon DEF DisassemblyExact, RowsExact, RowExact, StopsWell, EndOf, InImage

(***************************************************************************)
(* The rows of a disassembly walk the code of the loaded image, stop short *)
(* only where it has no instruction or the bytes end, and name what the    *)
(* file names where the module was loaded, with their annotations alive;   *)
(* for any files, load addresses, opcodes and counts.  (core_disasm,       *)
(* static_disasm, decode_linear, operand_target, build_symbol_map)         *)
(***************************************************************************)
THEOREM ListingsDisassemblyExact == Spec => []DisassemblyExact
  <1>1. Init => DisassemblyExact
    BY DEF Init, DisassemblyExact, NoAnswer
  <1>2. ASSUME LiveOK, StaticBin, BinaryOK, DisassemblyExact, [Next]_vars, BinaryOK' PROVE DisassemblyExact'
    <2>1. ASSUME UNCHANGED <<kind, disk, base>>, kind \in {"Native", "Static"},
                 NEW addr \in Addresses, NEW count \in Counts, NEW bytes,
                 bytes = Read(addr, count * MaxInsnBytes),
                 bytes = Read(addr, count * MaxInsnBytes)',
                 answer' = [op |-> "disasm", arg |-> <<addr, count>>,
                            rows |-> RowsOf(InsnsOf(bytes, addr, count), symbol_map')],
                 InImage(addr, Len(bytes))
          PROVE  DisassemblyExact'
      <3>1. disk \in Files /\ disk.parses /\ IsFile(disk) /\ base \in Nat /\ Start \in Int
        BY <1>2, <2>1, ListingsAssumption DEF LiveOK, Start, IsFile
      <3>2. addr \in Int /\ Start - 1 <= addr /\ count \in Nat
        BY <3>1, ListingsAssumption DEF Addresses
      <3>3. count * MaxInsnBytes \in Nat
        BY <3>2, ImageAssumption
      <3>4. IsImage(disk, bytes, addr - Start) /\ Whole(bytes, count * MaxInsnBytes)
        <4>1. CASE kind = "Native"
          BY <2>1, <3>1, <3>2, <3>3, <4>1, LiveImage DEF Read
        <4>2. CASE kind = "Static"
          BY <1>2, <2>1, <3>1, <3>2, <3>3, <4>2, FileImage DEF Read, InImage
        <4> QED
          BY <2>1, <4>1, <4>2
      <3>5. PICK names, known : names = symbol_map' /\ known = (main_bin' # NoBinary)
        OBVIOUS
      <3>6. KnownNames(names, known)
        <4>1. kind' \in {"Native", "Static"} /\ Start' = Start
          BY <2>1 DEF Start
        <4>2. main_bin' # NoBinary => symbol_map' = NamesAt(parse_file(disk), Start - disk.imagebase)
          BY <1>2, <2>1, <4>1 DEF BinaryOK, Parsed, Unparsed
        <4> QED
          BY <3>5, <4>2 DEF KnownNames
      <3>7. PICK rows : rows = RowsOf(InsnsOf(bytes, addr, count), names)
        OBVIOUS
      <3>8. RowsExact(rows, addr, count, Len(bytes), known)
        BY <2>1, <3>1, <3>2, <3>4, <3>6, <3>7, RowsAreExact
      <3>9. RowsExact(rows, addr, count, Len(bytes), known)'
        <4>1. Start' = Start
          BY <2>1 DEF Start
        <4>2. /\ \A r : InsnAt(r)' = InsnAt(r)
              /\ \A r : NamesFor(r)' = NamesFor(r)
          BY <2>1, <4>1, Zenon DEF InsnAt, NamesFor
        <4>3. \A i : RowExact(rows, addr, i, known)' <=> RowExact(rows, addr, i, known)
          BY <4>1, <4>2, Zenon DEF RowExact
        <4>4. StopsWell(rows, addr, count, Len(bytes))' <=> StopsWell(rows, addr, count, Len(bytes))
          BY <2>1, <4>1, <4>2, Zenon DEF StopsWell
        <4> QED
          BY <3>8, <4>3, <4>4 DEF RowsExact
      <3>10. answer'.rows = rows /\ answer'.arg[1] = addr /\ answer'.arg[2] = count
        BY <2>1, <3>5, <3>7
      <3>11. (RowsExact(answer.rows, answer.arg[1], answer.arg[2],
                        Len(Read(answer.arg[1], answer.arg[2] * MaxInsnBytes)), main_bin # NoBinary))'
        BY <2>1, <3>5, <3>9, <3>10
      <3> QED
        BY <3>11, ExactIs, PTL
    <2>9. ASSUME UNCHANGED <<kind, disk, base>>, kind \in {"Native", "Static"},
                 NEW addr \in Addresses, NEW count \in Counts, NEW bytes,
                 bytes = Read(addr, count * MaxInsnBytes),
                 bytes = Read(addr, count * MaxInsnBytes)',
                 answer' = [op |-> "disasm", arg |-> <<addr, count>>,
                            rows |-> RowsOf(InsnsOf(bytes, addr, count), symbol_map')]
          PROVE  DisassemblyExact'
      <3>1. CASE InImage(addr, Len(bytes))
        BY <2>1, <2>9, <3>1
      <3>2. CASE ~InImage(addr, Len(bytes))
        <4>1. InImage(addr, Len(bytes))' <=> InImage(addr, Len(bytes))
          BY <2>9 DEF InImage, Start, InPages
        <4>2. (~InImage(answer.arg[1], Len(Read(answer.arg[1], answer.arg[2] * MaxInsnBytes))))'
          BY <2>9, <3>2, <4>1
        <4> QED
          BY <4>2, ExactIs, PTL
      <3> QED
        BY <3>1, <3>2
    <2>2. CASE core_disasm
      <3>1. kind = "Native" /\ UNCHANGED <<kind, disk, base>>
        BY <2>2 DEF core_disasm, live
      <3>2. PICK addr \in Addresses, count \in Counts :
              answer' = [op |-> "disasm", arg |-> <<addr, count>>,
                         rows |-> RowsOf(InsnsOf(LiveBytes(addr, count * MaxInsnBytes), addr, count), symbol_map')]
        BY <2>2, Zenon DEF core_disasm, Replied, InsnsOf
      <3>3. /\ LiveBytes(addr, count * MaxInsnBytes) = Read(addr, count * MaxInsnBytes)
            /\ LiveBytes(addr, count * MaxInsnBytes) = Read(addr, count * MaxInsnBytes)'
        BY <3>1 DEF Read, LiveBytes
      <3>4. PICK bytes : bytes = LiveBytes(addr, count * MaxInsnBytes)
        OBVIOUS
      <3> QED
        BY <2>9, <3>1, <3>2, <3>3, <3>4
    <2>3. CASE static_disasm
      <3>1. kind = "Static" /\ UNCHANGED <<kind, disk, base, main_bin, symbol_map>>
        BY <2>3 DEF static_disasm, live, ctx
      <3>2. PICK addr \in Addresses, count \in Counts :
              answer' = [op |-> "disasm", arg |-> <<addr, count>>,
                         rows |-> RowsOf(InsnsOf(read_at(main_bin, disk.bytes, addr, count * MaxInsnBytes),
                                                 addr, count), symbol_map)]
        BY <2>3, Zenon DEF static_disasm, Replied, InsnsOf
      <3>3. PICK bytes : bytes = read_at(main_bin, disk.bytes, addr, count * MaxInsnBytes)
        OBVIOUS
      <3>4. /\ bytes = Read(addr, count * MaxInsnBytes)
            /\ bytes = Read(addr, count * MaxInsnBytes)'
        BY <3>1, <3>3 DEF Read
      <3> QED
        BY <2>9, <3>1, <3>2, <3>3, <3>4
    <2>4. CASE answer' = NoAnswer
      BY <2>4 DEF DisassemblyExact, NoAnswer
    <2>5. CASE UNCHANGED vars
      <3>1. UNCHANGED <<kind, disk, base, main_bin, answer>>
        BY <2>5 DEF vars, live, ctx
      <3>2. Start' = Start
        BY <3>1 DEF Start
      <3>3. /\ \A r : InsnAt(r)' = InsnAt(r)
            /\ \A r : NamesFor(r)' = NamesFor(r)
            /\ \A a, n : Read(a, n)' = Read(a, n)
        BY <3>1, <3>2, Zenon DEF InsnAt, NamesFor, Read, LiveBytes
      <3> QED
        BY <1>2, <3>1, <3>2, <3>3, Zenon DEF DisassemblyExact, InPages
    <2>6. ASSUME answer'.op # "disasm" PROVE DisassemblyExact'
      BY <2>6 DEF DisassemblyExact
    <2>7. CASE \/ answer'.op \in {"registers", "modules", "maps", "threads", "breakpoints", "sections",
                                  "imports", "exports", "symbols", "analyze", "function_blocks",
                                  "xrefs_to", "null"}
               \/ answer'.op = "backtrace"
      <3>1. answer'.op # "disasm"
        BY <2>7
      <3> QED
        BY <2>6, <3>1
    <2>8. CASE core_backtrace \/ functions \/ read_memory \/ core_strings \/ static_strings \/ scan_buffer
      <3>1. answer'.op # "disasm"
        BY <2>8 DEF core_backtrace, functions, read_memory, core_strings, static_strings, scan_buffer, Replied
      <3> QED
        BY <2>6, <3>1
    <2> QED
      BY <1>2, <2>2, <2>3, <2>4, <2>5, <2>7, <2>8, AnswerStep
  <1> QED
    BY <1>1, <1>2, LiveInvariant, StaticBinInvariant, BinaryInvariant, PTL DEF Spec
=============================================================================
