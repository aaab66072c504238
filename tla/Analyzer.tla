------------------------------ MODULE Analyzer ------------------------------
(***************************************************************************)
(* The recursive-descent analyzer, core/analysis/src/analysis.cpp.         *)
(* Analyzer::analyze takes function entries off a queue; for each one a    *)
(* FunctionBuilder traces blocks off a second queue, then splits the       *)
(* blocks a later branch target landed in, and the discovered call targets *)
(* become further entries.  The image is an arbitrary map from addresses   *)
(* to decoded instructions: nothing stops two decodings from overlapping,  *)
(* as they do in x86 code.                                                 *)
(*                                                                         *)
(* Abstracted: operands, text and the function's name.  Addresses are far  *)
(* from 2^64, so pc + length does not wrap.                                *)
(***************************************************************************)
EXTENDS Integers, Sequences, FiniteSets, SequencesExt, FiniteSetsExt

CONSTANTS
  LastAddr,     \* the image maps the addresses 1 .. LastAddr; 0 is "none"
  Insns,        \* what may decode at an address: [flow, len, target]
  Pcs,          \* program counters (live session) or entry points (static)
  SymbolSets    \* the addresses the symbol map may name

Flows == {"Sequential", "Jump", "CondJump", "Call", "Return", "Invalid"}
Addr == 1 .. LastAddr

ASSUME AnalyzerAssumption ==
  /\ LastAddr \in Nat \ {0}
  /\ \A i \in Insns : /\ i.flow \in Flows
                      /\ i.len \in Nat \ {0}
                      /\ i.target \in Nat
                      /\ i.flow \in {"Sequential", "Return", "Invalid"} => i.target = 0
  /\ Pcs \subseteq Nat
  /\ \A s \in SymbolSets : s \subseteq Nat \ {0} /\ IsFiniteSet(s)

VARIABLES
  code,        \* the image, fixed during one analysis
  seeds,       \* the entry points handed to analyze
  phase,       \* which loop runs: "pick", "trace", "split"; "done" at the end
  work,        \* Analyzer::analyze: the deque of function entries
  queued,      \*                    every entry that was ever queued
  analyzed,    \*                    the entries already built
  functions,   \* AnalysisResult::functions
  xrefs,       \* AnalysisResult::xrefs
  entry,       \* FunctionBuilder: the function under construction
  leaders,     \*                  leaders_
  blocks,      \*                  blocks_, by address
  todo,        \*                  the deque of block starts
  seen,        \*                  every block start that was ever queued
  callees      \*                  the direct call targets found so far

builder == <<entry, leaders, blocks, todo, seen, callees>>
outer == <<work, queued, analyzed, functions>>
vars == <<code, seeds, phase, outer, xrefs, builder>>

-----------------------------------------------------------------------------
(* Decoding, as the builder sees it.                                        *)

\* reader_ fills the window and decode_one succeeds: an instruction cut off by
\* the end of the image does not decode.
Decodes(a) == /\ a \in Addr
              /\ code[a].flow # "Invalid"
              /\ a + code[a].len - 1 <= LastAddr

After(a) == a + code[a].len

EndsBlock(a) == code[a].flow \in {"Jump", "CondJump", "Return"}

-----------------------------------------------------------------------------
(* FunctionBuilder                                                          *)

\* Mutant of Run: a call ends the run, as if it never returned.
RunStopsAtCall(start) ==
  LET run[pc \in Nat] ==
        IF (pc # start /\ pc \in leaders) \/ ~Decodes(pc) THEN << >>
        ELSE IF EndsBlock(pc) \/ code[pc].flow = "Call" THEN <<pc>>
        ELSE <<pc>> \o run[After(pc)]
  IN  run[start]

\* The straight-line run of trace_block: up to and including a block-ending
\* instruction, or up to the leader of another block, or to what does not decode.
Run(start) ==
  LET run[pc \in Nat] ==
        IF (pc # start /\ pc \in leaders) \/ ~Decodes(pc) THEN << >>
        ELSE IF EndsBlock(pc) THEN <<pc>>
        ELSE <<pc>> \o run[After(pc)]
  IN  run[start]

\* The block trace_block returns for the run `is`.  Only a run that fell through
\* into a leader, or ended with a conditional jump, has a `fail` edge.
BlockOf(start, is) ==
  IF is = << >> THEN [addr |-> start, size |-> 0, jump |-> 0, fail |-> 0, instrs |-> is]
  ELSE LET end == Last(is)
           falls == \/ code[end].flow = "CondJump"
                    \/ ~EndsBlock(end) /\ After(end) \in leaders
       IN  [addr |-> start,
            size |-> After(end) - start,
            jump |-> IF EndsBlock(end) THEN code[end].target ELSE 0,
            fail |-> IF falls THEN After(end) ELSE 0,
            instrs |-> is]

\* add_leader: the branch target, and what follows a conditional jump.
NewLeaders(b) ==
  IF b.instrs = << >> \/ ~EndsBlock(Last(b.instrs)) THEN {} ELSE {b.jump, b.fail} \ {0}

\* The reference of the instruction at a, if it has a target.
XrefOf(a) == [from |-> a, to |-> code[a].target, kind |-> IF code[a].flow = "Call" THEN "Call" ELSE "Jump"]

\* The references trace_block records, in the order of the instructions.
XrefsOf(is) ==
  LET refs[n \in 0 .. Len(is)] ==
        IF n = 0 THEN << >>
        ELSE refs[n - 1] \o IF code[is[n]].target = 0 THEN << >> ELSE <<XrefOf(is[n])>>
  IN  refs[Len(is)]

CallsIn(is) == {code[a].target : a \in {b \in Range(is) : code[b].flow = "Call"}} \ {0}

\* Mutant of Enqueue: the fall-through successor is not followed.
EnqueueTakenOnly(b) ==
  LET new == {b.jump} \ (seen \cup {0})
  IN  /\ todo' = Tail(todo) \o SelectSeq(<<b.jump>>, LAMBDA a : a \in new)
      /\ seen' = seen \cup new

\* The enqueue lambda of build, for the jump and then for the fail edge: a
\* successor is queued at most once.
Enqueue(b) ==
  LET jump == IF b.jump \in seen \cup {0} THEN << >> ELSE <<b.jump>>
      fail == IF b.fail \in seen \cup {0, b.jump} THEN << >> ELSE <<b.fail>>
  IN  /\ todo' = Tail(todo) \o jump \o fail
      /\ seen' = seen \cup ({b.jump, b.fail} \ {0})

\* One iteration of build's loop.
TraceBlock ==
  /\ phase = "trace"
  /\ todo # << >>
  /\ LET start == Head(todo)
         b == BlockOf(start, Run(start))
     IN  IF start \in DOMAIN blocks
         THEN /\ todo' = Tail(todo)
              /\ UNCHANGED <<blocks, leaders, callees, xrefs, seen>>
         ELSE /\ blocks' = [a \in DOMAIN blocks \cup {start} |->
                              IF a = start THEN b ELSE blocks[a]]
              /\ leaders' = leaders \cup NewLeaders(b)
              /\ callees' = callees \cup CallsIn(b.instrs)
              /\ xrefs' = xrefs \o XrefsOf(b.instrs)
              /\ Enqueue(b)
  /\ UNCHANGED <<code, seeds, phase, outer, entry>>

StartFinalize ==
  /\ phase = "trace"
  /\ todo = << >>
  /\ phase' = "split"
  /\ UNCHANGED <<code, seeds, outer, xrefs, builder>>

\* Mutant of CutsOf: a leader at the block's last byte is not seen.
CutsOfShort(b) ==
  {l \in leaders : b.addr < l /\ l < b.addr + b.size - 1 /\ l \in Range(b.instrs)}

\* The leaders strictly inside block b that one of its instructions starts at.
CutsOf(b) == {l \in leaders : b.addr < l /\ l < b.addr + b.size /\ l \in Range(b.instrs)}

Splittable == {a \in DOMAIN blocks : CutsOf(blocks[a]) # {}}

\* Mutant of SplitAt: the head is not cut.
SplitLeavesHead(bs, a, leader) ==
  LET b == bs[a]
      tail == [b EXCEPT !.addr = leader, !.size = b.size - (leader - b.addr),
                        !.instrs = SelectSeq(@, LAMBDA i : i >= leader)]
  IN  [x \in DOMAIN bs \cup {leader} |-> IF x \in DOMAIN bs THEN bs[x] ELSE tail]

\* split_block: the head has the instructions below the leader, which ascend, and
\* falls through to the tail.  blocks_.emplace keeps the block that already starts
\* at the leader, if there is one.
SplitAt(bs, a, leader) ==
  LET b == bs[a]
      at == CHOOSE i \in DOMAIN b.instrs : b.instrs[i] = leader
      head == [addr |-> b.addr, size |-> leader - b.addr, jump |-> 0, fail |-> leader,
               instrs |-> SubSeq(b.instrs, 1, at - 1)]
      tail == [addr |-> leader, size |-> b.size - head.size, jump |-> b.jump, fail |-> b.fail,
               instrs |-> SubSeq(b.instrs, at, Len(b.instrs))]
  IN  [x \in DOMAIN bs \cup {leader} |->
         IF x = a THEN head ELSE IF x \in DOMAIN bs THEN bs[x] ELSE tail]

\* One round of finalize's loop: the first block that holds a leader is cut at
\* its first one, and the scan starts over.
Split ==
  /\ phase = "split"
  /\ Splittable # {}
  /\ LET a == Min(Splittable)
     IN  blocks' = SplitAt(blocks, a, Min(CutsOf(blocks[a])))
  /\ UNCHANGED <<code, seeds, phase, outer, xrefs, entry, leaders, todo, seen, callees>>

-----------------------------------------------------------------------------
(* Analyzer::analyze                                                        *)

\* IridaCoreCtx::run_analysis: the program counter, zero when it is unknown,
\* then the addresses of the symbol map, an unordered_map, in some order.
LiveSeeds(pc, symbols) == {<<pc>> \o order : order \in SetToSeqs(symbols)}

\* IridaStaticCtx::analyze: the file's entry point when it has one, then the
\* symbols.
StaticSeeds(pc, symbols) ==
  {(IF pc # 0 THEN <<pc>> ELSE << >>) \o order : order \in SetToSeqs(symbols)}

\* A fresh FunctionBuilder.
NoBuilder ==
  /\ entry = 0 /\ leaders = {} /\ blocks = << >>
  /\ todo = << >> /\ seen = {} /\ callees = {}

Init ==
  /\ code \in [Addr -> Insns]
  /\ \E pc \in Pcs, symbols \in SymbolSets :
       seeds \in LiveSeeds(pc, symbols) \cup StaticSeeds(pc, symbols)
  /\ phase = "pick"
  /\ work = seeds /\ queued = Range(seeds)
  /\ analyzed = {} /\ functions = << >> /\ xrefs = << >>
  /\ NoBuilder

\* Mutant of PickEntry: an entry seeded twice is built twice.
PickEntryAgain ==
  /\ phase = "pick"
  /\ work # << >>
  /\ work' = Tail(work)
  /\ LET e == Head(work)
     IN  IF e = 0
         THEN UNCHANGED <<phase, analyzed, builder>>
         ELSE /\ analyzed' = analyzed \cup {e}
              /\ phase' = "trace"
              /\ entry' = e
              /\ leaders' = {e} /\ seen' = {e} /\ todo' = <<e>>
              /\ blocks' = << >> /\ callees' = {}
  /\ UNCHANGED <<code, seeds, queued, functions, xrefs>>

\* The head of the loop: an entry that is zero or was built before is dropped,
\* any other starts a builder, whose first leader and block is the entry.
PickEntry ==
  /\ phase = "pick"
  /\ work # << >>
  /\ work' = Tail(work)
  /\ LET e == Head(work)
     IN  IF e = 0 \/ e \in analyzed
         THEN UNCHANGED <<phase, analyzed, builder>>
         ELSE /\ analyzed' = analyzed \cup {e}
              /\ phase' = "trace"
              /\ entry' = e
              /\ leaders' = {e} /\ seen' = {e} /\ todo' = <<e>>
              /\ blocks' = << >> /\ callees' = {}
  /\ UNCHANGED <<code, seeds, queued, functions, xrefs>>

\* The rest of the loop's body once finalize has nothing left to split: the
\* function is kept, and its callees, sorted and without repetitions, are queued.
\* A builder always has the block of its entry, so the code's early exit for an
\* empty function is dead.
Publish ==
  /\ phase = "split"
  /\ Splittable = {}
  /\ functions' = Append(functions,
       [addr |-> entry,
        size |-> MapThenSumSet(LAMBDA a : blocks[a].size, DOMAIN blocks),
        blocks |-> {blocks[a] : a \in DOMAIN blocks},
        callees |-> callees])
  /\ \E order \in SetToSeqs(callees \ queued) :
       /\ \A i, j \in DOMAIN order : i < j => order[i] < order[j]
       /\ work' = work \o order
  /\ queued' = queued \cup callees
  /\ phase' = "pick"
  /\ UNCHANGED <<code, seeds, analyzed, xrefs, builder>>

\* The final sort by address; std::sort leaves the order of equal keys open.
Finish ==
  /\ phase = "pick"
  /\ work = << >>
  /\ phase' = "done"
  /\ \E order \in SetToSeqs(DOMAIN functions) :
       /\ \A i, j \in DOMAIN functions :
            i < j => functions[order[i]].addr <= functions[order[j]].addr
       /\ functions' = [i \in DOMAIN functions |-> functions[order[i]]]
  /\ UNCHANGED <<code, seeds, work, queued, analyzed, xrefs, builder>>

Next == TraceBlock \/ StartFinalize \/ Split \/ PickEntry \/ Publish \/ Finish

Spec == Init /\ [][Next]_vars

\* irida_analyze runs the loops on one thread, to their end.
FairSpec == Spec /\ WF_vars(Next)
-----------------------------------------------------------------------------
(* The reference: what is reachable, by definition and not by work list.     *)

Succs(a) ==
  IF ~Decodes(a) THEN {}
  ELSE CASE code[a].flow \in {"Sequential", "Call"} -> {After(a)}
         [] code[a].flow = "Jump" -> {code[a].target} \ {0}
         [] code[a].flow = "CondJump" -> {code[a].target, After(a)} \ {0}
         [] code[a].flow = "Return" -> {}

\* The least set that holds `from` and is closed under S.  LastAddr + 1 rounds
\* reach it: every round but the last adds an address of the image.
Closure(from, S(_)) ==
  LET grow[n \in Nat] ==
        IF n = 0 THEN from
        ELSE LET r == grow[n - 1] IN r \cup UNION {S(a) : a \in r}
  IN  grow[LastAddr + 1]

\* The instructions of the function at e.
Body(e) == {a \in Closure({e}, Succs) : Decodes(a)}

CallTargets(e) == {code[a].target : a \in {b \in Body(e) : code[b].flow = "Call"}} \ {0}

Bytes(a) == a .. (After(a) - 1)

Disjoint(is) == \A a, b \in is : a # b => Bytes(a) \cap Bytes(b) = {}

InstrsOf(f) == UNION {Range(b.instrs) : b \in f.blocks}

-----------------------------------------------------------------------------
(* Properties of the result analyze returns.                                 *)

\* What analyze has returned; nothing while it is still running.
Result == IF phase = "done" THEN Range(functions) ELSE {}

\* When finalize starts, every leader already begins a block of its own, so the
\* tail split_block builds is never stored: cutting the head is enough, because
\* the leader's block was traced from the queue (finalize: "so leaders always
\* begin a block").
LeadersTraced == phase = "split" => leaders \subseteq DOMAIN blocks

\* A function's blocks hold exactly the instructions reachable from its entry
\* without following calls: neither a dropped tail (split_block's emplace) nor a
\* block that was queued once and skipped loses code.
Coverage == \A f \in Result : InstrsOf(f) = Body(f.addr)

\* Every edge is one the last instruction really takes, it leads to a block of
\* the same function, and a successor without an edge is one that does not
\* decode (analysis.hpp: the meaning of jump and fail).
EdgesFollowCode ==
  \A f \in Result : \A b \in f.blocks :
    LET edges == {b.jump, b.fail} \ {0}
    IN  /\ edges \subseteq {c.addr : c \in f.blocks}
        /\ b.instrs = << >> => edges = {}
        /\ b.instrs # << >> =>
             /\ edges \subseteq Succs(Last(b.instrs))
             /\ \A a \in Succs(Last(b.instrs)) \ edges : ~Decodes(a)

\* A block is entered at its first instruction only: no block of the function
\* starts at an inner instruction of another, and none before the last can
\* leave the run (analysis.hpp: a single entry and a single exit).
SingleEntrySingleExit ==
  \A f \in Result : \A b \in f.blocks :
    /\ \A c \in f.blocks : c.addr \notin Range(b.instrs) \ {b.addr}
    /\ \A i \in 1 .. Len(b.instrs) - 1 : Succs(b.instrs[i]) = {b.instrs[i + 1]}

\* Where no two reachable instructions overlap, the blocks partition them, and
\* the function's size is the number of bytes they occupy.
BlocksPartition ==
  \A f \in Result :
    Disjoint(Body(f.addr)) =>
      /\ \A b, c \in f.blocks : b # c => Range(b.instrs) \cap Range(c.instrs) = {}
      /\ f.size = Cardinality(UNION {Bytes(a) : a \in Body(f.addr)})

\* The blocks of a function are its control-flow graph: true edges, single entry
\* and exit, a partition of its code (trace_block, split_block, finalize).
CfgSound == EdgesFollowCode /\ SingleEntrySingleExit /\ BlocksPartition

\* The result lists every function of the call graph below the seeds, once, in
\* address order, and no other.
WholeCallGraph ==
  phase = "done" =>
    /\ {f.addr : f \in Range(functions)} = Closure(Range(seeds) \ {0}, CallTargets)
    /\ \A i \in 1 .. Len(functions) - 1 : functions[i].addr < functions[i + 1].addr

\* The references are those of the reachable branches and calls, no fewer and
\* no other; a region that is traced twice only repeats them.
XrefsExact ==
  phase = "done" =>
    Range(xrefs) =
      UNION {{[from |-> a, to |-> code[a].target,
               kind |-> IF code[a].flow = "Call" THEN "Call" ELSE "Jump"]
               : a \in {b \in Body(f.addr) : code[b].target # 0}} : f \in Range(functions)}

\* What crosses functions: the call graph below the seeds and the references of
\* its code (Analyzer::analyze's entry queue, trace_block's xrefs).
ReferencesSound == WholeCallGraph /\ XrefsExact

\* Both work lists and the split loop run dry, for code with loops, recursion
\* and overlapping instructions alike.
AnalysisEnds == <>(phase = "done")
=============================================================================
