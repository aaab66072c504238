----------------------------- MODULE GraphLayout -----------------------------
(***************************************************************************)
(* GraphView's placement of a function's basic blocks,                     *)
(* irida-ui/gui/src/panels/graph/graph_view.cpp: layers by breadth-first   *)
(* search from the first block, columns by address within a layer, a row   *)
(* per layer, each row centred.                                            *)
(*                                                                         *)
(* A block is [addr, size, jump, fail], 0 standing for no successor.       *)
(* Abstracted: the text of a block, of which only its number of lines and  *)
(* its width matter.  Horizontal positions are in half pixels, so that the *)
(* centring is exact.                                                      *)
(***************************************************************************)
EXTENDS Integers, Sequences, FiniteSets, FiniteSetsExt

CONSTANTS
  TextWidth,            \* the width of the text of the block at an address
  LineHeight,
  kBlockPaddingX, kBlockPaddingY, kHorizontalSpacing, kVerticalSpacing

ASSUME LayoutAssumption ==
  /\ {LineHeight, kBlockPaddingX, kBlockPaddingY, kHorizontalSpacing, kVerticalSpacing} \subseteq Nat \ {0}
  /\ \A a \in DOMAIN TextWidth : TextWidth[a] \in Nat

\* index: the blocks at an address, one when the addresses are distinct; 0 stands
\* for no address.
At(blocks, target) == {j \in DOMAIN blocks : target # 0 /\ blocks[j].addr = target}

\* A successor of the block at the head of the queue: if it has no layer yet it
\* gets the next one and is queued.
Discover(blocks, st, i, target) ==
  LET found == At(blocks, target)
  IN  IF found = {} \/ st.layer[Max(found)] # -1 THEN st
      ELSE [layer |-> [st.layer EXCEPT ![Max(found)] = st.layer[i] + 1],
            order |-> Append(st.order, Max(found))]

\* One turn of the search's loop: the block i at the head, jump then fail.
Visit(blocks, st, i) ==
  Discover(blocks, Discover(blocks, st, i, blocks[i].jump), i, blocks[i].fail)

\* The queue has every block at most once: as many turns as there are blocks.
Bfs(blocks) ==
  LET n == Len(blocks)
      start == [layer |-> [i \in 1 .. n |-> IF i = 1 THEN 0 ELSE -1], order |-> <<1>>]
      run[head \in 0 .. n] ==
        IF head = 0 THEN start
        ELSE LET st == run[head - 1]
             IN  IF head > Len(st.order) THEN st ELSE Visit(blocks, st, st.order[head])
  IN  run[n].layer

\* Each block that is not reached gets a layer of its own below everything.
Layers(blocks) ==
  LET bfs == Bfs(blocks)
      unreached == {i \in DOMAIN blocks : bfs[i] = -1}
      maxLayer == Max({bfs[j] : j \in DOMAIN bfs})
  IN  [i \in DOMAIN blocks |->
         IF i \in unreached THEN maxLayer + Cardinality({j \in unreached : j <= i}) ELSE bfs[i]]

Width(b) == TextWidth[b.addr] + 2 * kBlockPaddingX
Height(b) == LineHeight * b.lines + 2 * kBlockPaddingY

\* The blocks of a layer.
Row(layer, l) == {j \in DOMAIN layer : layer[j] = l}

\* Mutant of LayerY: a row is as high as the block in its first column.
LayerYFirst(blocks, layer) ==
  LET y[l \in 0 .. Max({layer[i] : i \in DOMAIN blocks})] ==
        IF l = 0 THEN 0
        ELSE y[l - 1] + kVerticalSpacing + Height(blocks[Min(Row(layer, l - 1))])
  IN  y

\* The rows: a layer starts below the tallest block of the one above.
LayerY(blocks, layer) ==
  LET y[l \in 0 .. Max({layer[i] : i \in DOMAIN blocks})] ==
        IF l = 0 THEN 0
        ELSE y[l - 1] + kVerticalSpacing
             + Max({0} \cup {Height(blocks[i]) : i \in Row(layer, l - 1)})
  IN  y

\* The width of a set of blocks side by side, each with the gap after it.
Extent(blocks, ids) ==
  LET sum[k \in 0 .. Len(blocks)] ==
        IF k = 0 THEN 0
        ELSE sum[k - 1] + IF k \in ids THEN Width(blocks[k]) + kHorizontalSpacing ELSE 0
  IN  sum[Len(blocks)]

\* The blocks to the left of a block: a layer is sorted by address.
LeftOf(blocks, layer, i) == {j \in Row(layer, layer[i]) : blocks[j].addr < blocks[i].addr}

\* layout: x is in half pixels, from minus the total width of the layer.
layout(blocks) ==
  LET layer == Layers(blocks)
      y == LayerY(blocks, layer)
      TotalWidth(l) == Extent(blocks, Row(layer, l)) - kHorizontalSpacing
      left == [i \in DOMAIN blocks |-> LeftOf(blocks, layer, i)]
  IN  [i \in DOMAIN blocks |->
         [bb |-> blocks[i], layer |-> layer[i], column |-> Cardinality(left[i]), y |-> y[layer[i]],
          x |-> 2 * Extent(blocks, left[i]) - TotalWidth(layer[i])]]

\* draw: the edges, to successors that are blocks of the function.  The border
\* of the entry goes to the first block.
Edge(blocks, i, target, colour) ==
  {[from |-> i, to |-> j, colour |-> colour] : j \in At(blocks, target)}

Edges(blocks) ==
  UNION {LET b == blocks[i] IN
           IF b.jump # 0 /\ b.fail # 0
           THEN Edge(blocks, i, b.jump, "taken") \cup Edge(blocks, i, b.fail, "fail")
           ELSE Edge(blocks, i, b.jump, "uncond") \cup Edge(blocks, i, b.fail, "uncond")
         : i \in DOMAIN blocks}

draw(blocks, placed) == [items |-> placed, edges |-> Edges(blocks)]
=============================================================================
