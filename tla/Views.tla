-------------------------------- MODULE Views --------------------------------
(***************************************************************************)
(* The GUI's views over one session (irida-ui/gui/src/panels, widgets and  *)
(* layouts): the disassembly table with its marks, the register table, the *)
(* panels that list addresses, the graph, the byte grid and the byte strip,*)
(* joined by the controller's two signals.  stateChanged makes every view  *)
(* reload; navigationRequested moves the disassembly, the graph, the grid  *)
(* and the cross references.  All of it runs on the UI thread, one event   *)
(* at a time.                                                              *)
(*                                                                         *)
(* The session is the mock, or a static file whose instructions are one    *)
(* byte long; both reach the views through the same entry points.          *)
(* Abstracted: texts, fonts and colours other than the marks.              *)
(***************************************************************************)
EXTENDS MockBackend, GraphLayout, ByteViews

CONSTANTS
  Sessions,      \* the sessions a run may open, as they are when the window is built, each
                 \* with its bounds: the sizes the window takes, the points of the strip and
                 \* the pages the user visits
  kRows,         \* instructions a listing asks for
  MaxBreakpoints,\* bound on the breakpoints of the mock
  HiddenSize     \* the size Qt gives a child widget that was never shown

\* A section, with the bytes of it that are in the file.
Section == [vaddr : Nat, vsize : Nat, data : Nat]
Function == [addr : Nat, size : Nat]
Block == [addr : Nat, size : Nat, jump : Nat, fail : Nat]
Xref == [from : Nat, to : Nat]
Point == [x : Int, y : Int]

\* A widget has a pixel each way at least.
Size == [w : Nat \ {0}, h : Nat \ {0}, strip : Nat \ {0}]

\* The bytes a read of n from addr on returns: the mock answers in full, a static
\* file from the first section that holds addr, up to the end of its data.
irida_read_memory(s, addr, n) ==
  LET holding == {i \in DOMAIN s.sections : /\ s.sections[i].vaddr <= addr
                                           /\ addr < s.sections[i].vaddr + s.sections[i].vsize}
      sec == s.sections[Min(holding)]
  IN  IF s.kind = "Mock" THEN n
      ELSE IF holding = {} THEN 0 ELSE Max({0, Min({n, sec.data - (addr - sec.vaddr)})})

\* The code of a file is one run of instructions of a byte each, all of it in the
\* data of a section.
OneRun(s) ==
  \A i \in DOMAIN s.code :
    LET left == Len(s.code) - i + 1
    IN  s.code[i] = s.code[1] + i - 1 /\ irida_read_memory(s, s.code[i], left) = left

\* Only the mock's tables are there before an analysis.
ASSUME SessionsAssumption ==
  \A s \in Sessions :
    /\ DOMAIN s = {"kind", "analyzed", "mock", "entry", "code", "caller", "threads", "modules",
                   "sections", "functions", "blocks", "xrefs", "sizes", "points", "pages"}
    /\ s = [field \in DOMAIN s |-> s[field]]
    /\ s.kind \in {"Mock", "Static"} /\ s.analyzed = (s.kind = "Mock") /\ s.mock = mock_create
    /\ s.entry \in Nat /\ s.caller \in Nat /\ s.threads \in Seq(Nat) /\ s.modules \in Seq(Nat)
    /\ s.functions \in Seq(Function) /\ s.xrefs \in Seq(Xref)
    /\ \A fn \in DOMAIN s.blocks :
         /\ s.blocks[fn] \in Seq(Block)
         /\ \A i, j \in DOMAIN s.blocks[fn] : s.blocks[fn][i].addr = s.blocks[fn][j].addr => i = j
         /\ \A i \in DOMAIN s.blocks[fn] : s.blocks[fn][i].addr \in DOMAIN TextWidth
    /\ s.code \in Seq(Nat) /\ \A i, j \in DOMAIN s.code : i < j => s.code[i] < s.code[j]
    /\ s.sections \in Seq(Section) /\ s.sizes \subseteq Size /\ s.points \subseteq Point
    /\ OneRun(s)

ASSUME ListingAssumption == kRows \in Nat
ASSUME HiddenAssumption == HiddenSize \in [w : Nat \ {0}, h : Nat \ {0}]

VARIABLES
  session,    \* what was opened, whether it is analyzed, and the mock's state
  table,      \* DisassemblyPanel: base_, row_addrs_ and its IridaTableView
  registers,  \* RegistersPanel: prev_values_ and the values shown red
  lists,      \* the addresses each list panel keeps for a double click
  target_,    \* XrefsPanel
  graph,      \* GraphView: current_fn_ and the scene
  grid,       \* ByteOverviewPanel
  strip,      \* ByteMapStrip
  view_,      \* DisassemblyView: the page shown
  size,       \* the size of the pages' stack
  seen,       \* the address the grid was last moved to, 0 once it was moved away
  before      \* the registers at the stop before this one

vars == <<session, table, registers, lists, target_, graph, grid, strip, view_, size, seen, before>>

-----------------------------------------------------------------------------
(* What a session s answers                                                 *)

irida_pc(s) == IF s.kind = "Mock" THEN s.mock.pc ELSE s.entry

\* The addresses of at most count instructions from addr on.
irida_disasm(s, addr, count) ==
  LET rows == IF s.kind = "Mock" THEN mock_disasm(addr)
              ELSE CodeFrom(s.code, addr)
  IN  SubSeq(rows, 1, Min({count, Len(rows)}))

irida_breakpoints(s) == IF s.kind = "Mock" THEN s.mock.bps ELSE << >>
irida_registers(s) == IF s.kind = "Mock" THEN mock_registers(s.mock) ELSE << >>
irida_backtrace(s) == IF s.kind = "Mock" THEN mock_backtrace(s.mock, s.caller) ELSE << >>
irida_functions(s) == IF s.analyzed THEN s.functions ELSE << >>
irida_function_blocks(s, fn) ==
  IF s.analyzed /\ fn \in DOMAIN s.blocks THEN s.blocks[fn] ELSE << >>
irida_xrefs_to(s, addr) == IF s.analyzed THEN {x \in ToSet(s.xrefs) : x.to = addr} ELSE {}

-----------------------------------------------------------------------------
(* IridaTableView: t is [n, bpRows, ip, bg], ip 0 for no row                *)

\* Rows that go lose their items, rows that come are transparent; the sets of
\* marked rows are left alone.
setRows(t, n) ==
  [t EXCEPT !.n = n, !.bg = [r \in 1 .. n |-> IF r <= t.n THEN t.bg[r] ELSE "none"]]

Background(t, row) == IF row = t.ip THEN "ip" ELSE IF row \in t.bpRows THEN "bp" ELSE "none"

applyRowBackground(t, row) == [t EXCEPT !.bg[row] = Background(t, row)]

\* Mutant of setCurrentIpRow: the row that was current is not repainted.
SetCurrentIpRowOnly(t, row) ==
  LET moved == [t EXCEPT !.ip = row]
  IN  IF row \in 1 .. t.n THEN applyRowBackground(moved, row) ELSE moved

setCurrentIpRow(t, row) ==
  LET moved == [t EXCEPT !.ip = row]
      left == IF t.ip \in 1 .. t.n THEN applyRowBackground(moved, t.ip) ELSE moved
  IN  IF row \in 1 .. t.n THEN applyRowBackground(left, row) ELSE left

\* setBreakpointRow for every row of the table, on for those in `on`: a call marks
\* and repaints its own row, and leaves the marks beyond the last row alone.
setBreakpointRows(t, on) ==
  LET marked == [t EXCEPT !.bpRows = {r \in @ : r \notin 1 .. t.n} \cup on]
  IN  [marked EXCEPT !.bg = [r \in 1 .. t.n |-> Background(marked, r)]]

\* DisassemblyPanel::refresh: from base_, or from pc while there is none.
disassemblyRefresh(s, t) ==
  LET rows == irida_disasm(s, IF t.base # 0 THEN t.base ELSE irida_pc(s), kRows)
      at == {b.address : b \in ToSet(irida_breakpoints(s))}
      marked == setBreakpointRows(setRows(t.view, Len(rows)), {r \in DOMAIN rows : rows[r] \in at})
      current == {r \in DOMAIN rows : rows[r] = irida_pc(s)}
  IN  [base |-> t.base, row_addrs |-> rows,
       view |-> setCurrentIpRow(marked, IF current = {} THEN 0 ELSE Max(current))]

disassemblySetBase(s, t, addr) == disassemblyRefresh(s, [t EXCEPT !.base = addr])

\* Mutant of registersRefresh: the values of the first load are kept.
RegistersKeepFirst(s, r) ==
  LET now == irida_registers(s)
      have_prev == Len(r.prev) = Len(now)
  IN  [prev |-> IF have_prev THEN r.prev ELSE now,
       red |-> IF have_prev THEN {i \in DOMAIN now : r.prev[i] # now[i]} ELSE {}]

\* RegistersPanel::refresh: red is what differs from the previous load.
registersRefresh(s, r) ==
  LET now == irida_registers(s)
  IN  [prev |-> now,
       red |-> IF Len(r.prev) = Len(now) THEN {i \in DOMAIN now : r.prev[i] # now[i]} ELSE {}]

-----------------------------------------------------------------------------
(* The panels that list addresses: what their rows' double clicks stand for  *)

BreakpointsPanel(s) == {b.address : b \in ToSet(irida_breakpoints(s))}
BacktracePanel(s) == ToSet(irida_backtrace(s))
FunctionsPanel(s) == {fn.addr : fn \in ToSet(irida_functions(s))}
SectionsPanel(s) == {sec.vaddr : sec \in ToSet(s.sections)}
ThreadsPanel(s) == ToSet(s.threads)
ModulesPanel(s) == ToSet(s.modules)
XrefsPanel(s, to) == {x.from : x \in irida_xrefs_to(s, to)}

\* The refresh of each of them.
listsRefresh(s) ==
  [breakpoints |-> BreakpointsPanel(s), backtrace |-> BacktracePanel(s),
   functions |-> FunctionsPanel(s), sections |-> SectionsPanel(s), threads |-> ThreadsPanel(s),
   modules |-> ModulesPanel(s), xrefs |-> XrefsPanel(s, target_)]

-----------------------------------------------------------------------------
(* GraphView                                                                *)

\* The lines of a block: its instructions, or its address alone when the
\* listing has none within it.
buildBlocks(s, fn) ==
  LET bbs == irida_function_blocks(s, fn)
      Lines(b) == LET rows == irida_disasm(s, b.addr, kRows)
                  IN  Cardinality({r \in DOMAIN rows : \A q \in 1 .. r : rows[q] < b.addr + b.size})
  IN  [i \in DOMAIN bbs |->
         [addr |-> bbs[i].addr, size |-> bbs[i].size, jump |-> bbs[i].jump, fail |-> bbs[i].fail,
          lines |-> Max({1, Lines(bbs[i])})]]

NoScene == [items |-> << >>, edges |-> {}]

showFunction(s, fn) ==
  LET blocks == buildBlocks(s, fn)
  IN  [fn |-> fn, scene |-> IF blocks = << >> THEN NoScene ELSE draw(blocks, layout(blocks))]

\* refresh: the first function until one was shown.
graphRefresh(s, g) ==
  LET fns == irida_functions(s)
      fn == IF g.fn = 0 /\ fns # << >> THEN fns[1].addr ELSE g.fn
  IN  IF fn # 0 THEN showFunction(s, fn) ELSE g

\* The first function whose extent holds the address.
onNavigation(s, g, addr) ==
  LET fns == irida_functions(s)
      holds == {i \in DOMAIN fns : fns[i].addr <= addr /\ addr < fns[i].addr + fns[i].size}
  IN  IF holds = {} THEN g ELSE showFunction(s, fns[Min(holds)].addr)

-----------------------------------------------------------------------------
(* The controller's signals                                                 *)

\* stateChanged: every view reloads from the session the slot left.  The Hex
\* page keeps no state: it lists from its base_, which nothing sets.
StateChanged ==
  /\ table' = disassemblyRefresh(session', table)
  /\ registers' = registersRefresh(session', registers)
  /\ lists' = listsRefresh(session')
  /\ graph' = graphRefresh(session', graph)
  /\ grid' = overviewRefresh(grid, session'.sections)
  /\ strip' = setRange(strip, Span(session'.sections))
  /\ UNCHANGED <<target_, view_, size, seen>>

\* navigationRequested, with what the controller's navigateTo passes on.
navigateTo(addr) ==
  /\ table' = disassemblySetBase(session, table, addr)
  /\ graph' = onNavigation(session, graph, addr)
  /\ grid' = overviewSetBase(grid, addr)
  /\ seen' = IF InGrid(grid, addr) THEN addr ELSE seen
  /\ target_' = addr
  /\ lists' = [lists EXCEPT !.xrefs = XrefsPanel(session, addr)]
  /\ UNCHANGED <<session, registers, view_, size, before>>

-----------------------------------------------------------------------------
(* The events                                                               *)

\* The window is built: selectView(Linear) has loaded the disassembly, the
\* other views wait for the first stateChanged.  The stack has sized the page it
\* shows only: the byte grid has the size of a child that was never shown.
Init ==
  \E of \in Sessions : \E sz \in of.sizes :
    /\ session = of
    /\ table = disassemblyRefresh(session, [base |-> 0, row_addrs |-> << >>,
                    view |-> [n |-> 0, bpRows |-> {}, ip |-> 0, bg |-> << >>]])
    /\ registers = [prev |-> << >>, red |-> {}]
    /\ lists = [breakpoints |-> {}, backtrace |-> {}, functions |-> {}, sections |-> {},
                threads |-> {}, modules |-> {}, xrefs |-> {}]
    /\ target_ = 0
    /\ graph = [fn |-> 0, scene |-> NoScene]
    /\ grid = [start |-> 0, end |-> 0, value |-> 0, w |-> HiddenSize.w, h |-> HiddenSize.h]
    /\ strip = [start |-> 0, end |-> 0, w |-> sz.strip, h |-> sz.h, pinned |-> FALSE, dragging |-> FALSE]
    /\ view_ = "Linear" /\ size = sz
    /\ seen = 0
    /\ before = irida_registers(session)

refreshViews ==
  /\ UNCHANGED <<session, before>>
  /\ StateChanged

\* The worker's analysis is there and its finished signal was delivered.
analysisFinished ==
  /\ ~session.analyzed
  /\ session' = [session EXCEPT !.analyzed = TRUE]
  /\ UNCHANGED before
  /\ StateChanged

\* The toolbar.  The epoch moves with every operation of the mock, so afterOp
\* always tells the views; a static session has no flow and its epoch stands.
flow(next) ==
  /\ session.kind = "Mock"
  /\ session.mock.epoch < MaxEpoch
  /\ session' = [session EXCEPT !.mock = next]
  /\ before' = irida_registers(session)
  /\ StateChanged

stepInto == flow(mock_step_into(session.mock))
stepOver == flow(mock_step_over(session.mock))
stepOut == flow(mock_step_out(session.mock))
run == flow(mock_cont(session.mock))
breakExec == flow(mock_brk(session.mock))
restart == flow(mock_restart(session.mock))
stop == flow(mock_stop(session.mock))

toggleBreakpoint(addr) ==
  /\ session' = IF session.kind = "Mock"
                THEN [session EXCEPT !.mock = mock_bp_toggle(@, addr)] ELSE session
  /\ Len(irida_breakpoints(session')) <= MaxBreakpoints
  /\ UNCHANGED before
  /\ StateChanged

setBreakpointEnabled(addr, on) ==
  /\ session.kind = "Mock"
  /\ session' = [session EXCEPT !.mock = mock_bp_set_enabled(@, addr, on)]
  /\ UNCHANGED before
  /\ StateChanged

\* Mutant of onCellClicked: rows are taken to be one byte long.
OnCellClickedByRow(row) == toggleBreakpoint(table.row_addrs[1] + row - 1)

\* A click in the gutter of a row.
onCellClicked(row) == toggleBreakpoint(table.row_addrs[row])

\* A double click on a row of a list panel.
onDoubleClicked(addr) == navigateTo(addr) /\ UNCHANGED strip

\* A double click on a block of the graph.
onBlockActivated(i) == navigateTo(graph.scene.items[i].bb.addr) /\ UNCHANGED strip

\* A click in the byte grid; a point without a byte is ignored.
Clickable == {addressAt(grid, [x |-> x, y |-> y]) : x \in 0 .. grid.w - 1, y \in 0 .. grid.h - 1}

overviewPressed(addr) ==
  /\ view_ = "Bytes"
  /\ addr # 0
  /\ navigateTo(addr)
  /\ UNCHANGED strip

overviewScrolled(value) ==
  /\ view_ = "Bytes"
  /\ value <= scrollMax(grid)
  /\ grid' = scrolled(grid, value)
  /\ seen' = 0
  /\ UNCHANGED <<session, table, registers, lists, target_, graph, strip, view_, size, before>>

\* The strip: a press pins the crosshair and starts a drag, a move while the
\* button is down does the same again, both navigate when there is an image.
picked(pos) ==
  IF stripAddressAt(strip, pos) # 0 THEN navigateTo(stripAddressAt(strip, pos))
  ELSE UNCHANGED <<session, table, registers, lists, target_, graph, grid, view_, size, seen, before>>

stripPressed(pos) ==
  /\ strip' = [strip EXCEPT !.pinned = TRUE, !.dragging = TRUE]
  /\ picked(pos)

stripMoved(pos) ==
  /\ strip.dragging
  /\ strip' = [strip EXCEPT !.pinned = TRUE]
  /\ picked(pos)

stripReleased ==
  /\ strip.dragging
  /\ strip' = [strip EXCEPT !.dragging = FALSE]
  /\ UNCHANGED <<session, table, registers, lists, target_, graph, grid, view_, size, seen, before>>

\* Showing a page gives it the size of the stack, which a hidden page does not
\* follow; then the page reloads.
selectView(v) ==
  /\ view_' = v
  /\ table' = IF v = "Linear" THEN disassemblyRefresh(session, table) ELSE table
  /\ graph' = IF v = "Graph" THEN graphRefresh(session, graph) ELSE graph
  /\ grid' = IF v = "Bytes" THEN overviewRefresh(overviewResize(grid, size), session.sections)
             ELSE grid
  /\ seen' = IF v = "Bytes" /\ (grid.w # size.w \/ grid.h # size.h) THEN 0 ELSE seen
  /\ UNCHANGED <<session, registers, lists, target_, strip, size, before>>

\* The user resizes the window.
resizeEvent(sz) ==
  /\ sz # size
  /\ size' = sz
  /\ grid' = IF view_ = "Bytes" THEN overviewResize(grid, sz) ELSE grid
  /\ seen' = IF view_ = "Bytes" THEN 0 ELSE seen
  /\ strip' = [strip EXCEPT !.w = sz.strip, !.h = sz.h]
  /\ UNCHANGED <<session, table, registers, lists, target_, graph, view_, before>>

Next ==
  \/ refreshViews \/ analysisFinished
  \/ stepInto \/ stepOver \/ stepOut \/ run \/ breakExec \/ restart \/ stop
  \/ \E row \in DOMAIN table.row_addrs : onCellClicked(row)
  \/ \E b \in ToSet(irida_breakpoints(session)), on \in BOOLEAN : setBreakpointEnabled(b.address, on)
  \/ \E addr \in UNION {lists[panel] : panel \in DOMAIN lists} : onDoubleClicked(addr)
  \/ \E i \in DOMAIN graph.scene.items : onBlockActivated(i)
  \/ \E addr \in Clickable : overviewPressed(addr)
  \/ \E value \in 0 .. scrollMax(grid) : overviewScrolled(value)
  \/ \E pos \in session.points : stripPressed(pos) \/ stripMoved(pos)
  \/ stripReleased
  \/ \E v \in session.pages : selectView(v)
  \/ \E sz \in session.sizes : resizeEvent(sz)

Spec == Init /\ [][Next]_vars
-----------------------------------------------------------------------------
(* Properties                                                                *)

\* The marks of the disassembly table are exact: after any sequence of flow,
\* toggles, navigations that shrink and grow the listing and page switches, the
\* rows' backgrounds and the gutter's symbols are those of the session's pc and
\* breakpoints, although refresh marks the rows while the old current row still
\* stands and IridaTableView keeps marks of rows that are gone.
MarksExact ==
  LET at == {b.address : b \in ToSet(irida_breakpoints(session))}
      rows == table.row_addrs
  IN  \A r \in DOMAIN rows :
        /\ r \in table.view.bpRows <=> rows[r] \in at
        /\ r = table.view.ip <=> rows[r] = irida_pc(session)
        /\ table.view.bg[r] = IF rows[r] = irida_pc(session) THEN "ip"
                         ELSE IF rows[r] \in at THEN "bp" ELSE "none"

\* The mock stops at instructions only: a breakpoint is set by clicking a row, so
\* continue never leaves the stream, and find_index, which keeps a stale index
\* when pc is not in the stream, is exact whenever a step uses it.
ListedStops ==
  session.kind = "Mock" =>
    /\ session.mock.pc \in ToSet(kStream)
    /\ \A b \in ToSet(session.mock.bps) : b.address \in ToSet(kStream)
    /\ \A i, j \in DOMAIN session.mock.bps :
         session.mock.bps[i].address = session.mock.bps[j].address => i = j

\* A register is red only if it differs from what it was at the previous stop,
\* although every reload, and not every stop, moves prev_values_.
RedIsReal ==
  \A i \in registers.red : irida_registers(session)[i] # before[i]

\* The blocks at most n edges away from the first one.
Reached(blocks, n) ==
  LET within[k \in 0 .. n] ==
        IF k = 0 THEN {1}
        ELSE within[k - 1] \cup {e.to : e \in {f \in Edges(blocks) : f.from \in within[k - 1]}}
  IN  within[n]

\* The scene of the graph: the blocks' rectangles are apart by the spacing, a
\* block the search reached is as many rows down as its shortest path from the
\* first block is long, the others are below all of those, and a drawn edge
\* leads at most one row down from a block that was reached.
SceneSound(scene) ==
  LET items == scene.items
      blocks == [i \in DOMAIN items |-> items[i].bb]
      Apart(i, j) ==
        \/ items[i].layer < items[j].layer
           /\ items[i].y + Height(blocks[i]) + kVerticalSpacing <= items[j].y
        \/ items[i].layer = items[j].layer /\ items[i].y = items[j].y
           /\ items[i].x + 2 * (Width(blocks[i]) + kHorizontalSpacing) <= items[j].x
  IN  items # << >> =>
        /\ \A i, j \in DOMAIN items : i # j => Apart(i, j) \/ Apart(j, i)
        /\ \A i \in Reached(blocks, Len(blocks)) :
             /\ i \in Reached(blocks, items[i].layer)
             /\ items[i].layer > 0 => i \notin Reached(blocks, items[i].layer - 1)
             /\ \A j \in DOMAIN items \ Reached(blocks, Len(blocks)) : items[i].layer < items[j].layer
             /\ \A e \in scene.edges : e.from = i => items[e.to].layer <= items[i].layer + 1

LayoutSound == SceneSound(graph.scene)

\* In a grid that is drawn at the size it was moved at, the address it was last
\* moved to is on the screen until the user scrolls: reloads and page switches do
\* not lose it, although refresh sets top_ back to the start of the image.  A
\* change of size loses it, the resize of the first showing included: setBase
\* counted its row in the columns of the size the hidden page had.
NavigationVisible ==
  seen # 0 => \E cell \in Painted(grid) : cell.addr = seen /\ cell.r < visibleRows(grid)

\* A click anywhere on a byte's cell means that byte, in a partial last row and
\* at any scroll position; only the byte at address zero cannot be clicked.
ClickedIsPainted ==
  \A cell \in Painted(grid), dx \in 0 .. cellW_ - 1, dy \in 0 .. cellH_ - 1 :
    addressAt(grid, [x |-> Origin(cell).x + dx, y |-> Origin(cell).y + dy]) = cell.addr

\* What the strip has painted.
PaintedRuns ==
  Cells(strip, [a \in strip.start .. strip.end - 1 |->
                  irida_read_memory(session, a, strip.end - a)])

\* The cells that have a byte.
Over(cells, addr) == {cell \in cells : cell.first <= addr /\ addr < cell.first + cell.len}

\* No byte is drawn twice, whatever the height of the strip and the size of the
\* image, and one is left out only because the read of its row of pixels, from the
\* first byte of that row on, does not reach it: not by the two roundings that
\* spread the image over the height.  A click stands for the first byte of a cell
\* in the row of pixels it hits.  Where the row has cells past the end it stands
\* for the last byte of the image, and not for 0 as byte_map_strip.hpp:29 has it.
StripExact ==
  LET cells == PaintedRuns
      laid == Runs(strip)
      RowOf(addr) == strip.start + ((addr - strip.start) \div bytesPerRow(strip)) * bytesPerRow(strip)
      Gets(addr) == addr < RowOf(addr) + irida_read_memory(session, RowOf(addr), strip.end - RowOf(addr))
  IN  strip.end > strip.start =>
        /\ \A addr \in strip.start .. strip.end - 1 :
             Cardinality(Over(cells, addr)) = IF Gets(addr) THEN 1 ELSE 0
        /\ \A x \in 0 .. strip.w - 1, y \in 0 .. strip.h - 1 :
             LET addr == stripAddressAt(strip, [x |-> x, y |-> y])
             IN  \/ \E cell \in laid : cell.y = y /\ cell.first = addr
                 \/ /\ addr = strip.end - 1
                    /\ \E c \in 0 .. cols_ - 1 : \A cell \in laid : ~(cell.y = y /\ cell.c = c)
=============================================================================
