------------------------------ MODULE ByteViews ------------------------------
(***************************************************************************)
(* The two widgets that draw the bytes of the whole image                  *)
(* (irida-ui/gui/src/panels/overview): ByteOverviewPanel, a scrolling grid *)
(* of cells, and ByteMapStrip, which squeezes the image into its height.   *)
(* What is drawn at a pixel, and which address a click there stands for.   *)
(*                                                                         *)
(* Abstracted: the colours and glyphs of the bytes, the tooltip.           *)
(***************************************************************************)
EXTENDS Integers, Sequences, FiniteSetsExt, SequencesExt

CONSTANTS
  cellW_, cellH_, gutterW_, kMargin,   \* the grid's cells, in pixels
  cols_                                \* columns of the strip

ASSUME GridAssumption == {cellW_, cellH_, gutterW_, kMargin, cols_} \subseteq Nat \ {0}

\* Integer division of C++: toward zero.
Quotient(a, b) == IF a >= 0 THEN a \div b ELSE -((-a) \div b)
Clamp(v, lo, hi) == IF v < lo THEN lo ELSE IF v > hi THEN hi ELSE v
RoundUp(a, b) == (a + b - 1) \div b

\* refresh of the panel and computeRange of the view: from the lowest to the
\* highest address of the sections that have a size.
Span(sections) ==
  LET mapped == {s \in ToSet(sections) : s.vsize # 0}
  IN  IF mapped = {} THEN [start |-> 0, end |-> 0]
      ELSE [start |-> Min({s.vaddr : s \in mapped}), end |-> Max({s.vaddr + s.vsize : s \in mapped})]

\* The range a widget shows.
setRange(g, span) == [g EXCEPT !.start = span.start, !.end = span.end]

-----------------------------------------------------------------------------
(* The grid: g is [start, end, value, w, h], value the scroll bar's         *)

columns(g) == Max({1, Quotient(g.w - gutterW_ - kMargin, cellW_)})
visibleRows(g) == Max({1, Quotient(g.h - kMargin, cellH_)})

\* Mutant of scrollMax: the last row, when it is not full, is not counted.
ScrollMaxFullRows(g) ==
  IF g.end <= g.start THEN 0
  ELSE Max({0, (g.end - g.start) \div columns(g) - visibleRows(g)})

\* The upper end of the scroll bar's range that updateScrollRange sets.
scrollMax(g) ==
  IF g.end <= g.start THEN 0
  ELSE Max({0, RoundUp(g.end - g.start, columns(g)) - visibleRows(g)})

\* QScrollBar keeps its value within its range.
updateScrollRange(g) == [g EXCEPT !.value = Clamp(@, 0, scrollMax(g))]
scrolled(g, value) == [g EXCEPT !.value = Clamp(value, 0, scrollMax(g))]

InGrid(g, addr) == g.end # 0 /\ g.start <= addr /\ addr < g.end

\* setBase; an address outside the image is ignored.
overviewSetBase(g, addr) ==
  IF InGrid(g, addr) THEN scrolled(updateScrollRange(g), (addr - g.start) \div columns(g)) ELSE g

\* refresh of the grid: it keeps the scroll bar where the range lets it.
overviewRefresh(g, sections) == updateScrollRange(setRange(g, Span(sections)))

overviewResize(g, size) == updateScrollRange([g EXCEPT !.w = size.w, !.h = size.h])

\* Mutant of addressAt: the margin above the first row is forgotten.
AddressAtNoMargin(g, pos) ==
  IF g.end <= g.start THEN 0
  ELSE LET row == g.value + Quotient(pos.y, cellH_)
           col == Clamp(Quotient(pos.x - gutterW_, cellW_), 0, columns(g) - 1)
           addr == g.start + row * columns(g) + col
       IN  IF row >= 0 /\ addr < g.end THEN addr ELSE 0

\* The address of a point, 0 for none.
addressAt(g, pos) ==
  IF g.end <= g.start THEN 0
  ELSE LET row == g.value + Quotient(pos.y - kMargin, cellH_)
           col == Clamp(Quotient(pos.x - gutterW_, cellW_), 0, columns(g) - 1)
           addr == g.start + row * columns(g) + col
       IN  IF row >= 0 /\ addr < g.end THEN addr ELSE 0

\* paintEvent: the cells that show a byte, [r, c, addr], in one row more than fits.
Painted(g) ==
  {cell \in {[r |-> r, c |-> c, addr |-> g.start + (g.value + r) * columns(g) + c] :
               r \in 0 .. visibleRows(g), c \in 0 .. columns(g) - 1} : cell.addr < g.end}

\* The upper left pixel of a cell.
Origin(cell) == [x |-> gutterW_ + cell.c * cellW_, y |-> kMargin + cell.r * cellH_]

-----------------------------------------------------------------------------
(* The strip: s is [start, end, w, h, pinned, dragging]                     *)

\* Mutant of bytesPerRow: the image is divided by the height rounding down.
BytesPerRowDown(s) ==
  IF s.end <= s.start \/ s.h <= 0 THEN cols_
  ELSE Max({cols_, (((s.end - s.start) \div s.h) \div cols_) * cols_})

\* The bytes of a row of pixels: the image spread over the height, rounded up to
\* a multiple of the columns.
bytesPerRow(s) ==
  IF s.end <= s.start \/ s.h <= 0 THEN cols_
  ELSE Max({cols_, RoundUp(RoundUp(s.end - s.start, s.h), cols_) * cols_})

colBytes(s) == Max({1, bytesPerRow(s) \div cols_})

\* The layout of the strip: the run of bytes of each cell that begins within the
\* image, as [y, c, first, len].
Runs(s) ==
  IF s.w <= 0 \/ s.h <= 0 \/ s.end <= s.start THEN {}
  ELSE LET Row(y) == s.start + y * bytesPerRow(s)
           Want(y) == Min({bytesPerRow(s), s.end - Row(y)})
       IN  {run \in {[y |-> y, c |-> c, first |-> Row(y) + c * colBytes(s),
                      len |-> Min({colBytes(s), Want(y) - c * colBytes(s)})] :
                       y \in 0 .. s.h - 1, c \in 0 .. cols_ - 1} :
              Row(run.y) < s.end /\ run.c * colBytes(s) < Want(run.y)}

\* How many bytes of a run the one read of its row of pixels has got; reach[a] is
\* how many a read of the image from a on returns.
Have(s, run, reach) ==
  LET row == s.start + run.y * bytesPerRow(s)
      got == Min({bytesPerRow(s), reach[row]})
  IN  Min({run.len, Max({0, got - run.c * colBytes(s)})})

\* rebuildCache: the bytes each cell is coloured by; a cell the read has not got to
\* keeps the background, as does one past the end.
Cells(s, reach) ==
  {[run EXCEPT !.len = Have(s, run, reach)] : run \in {r \in Runs(s) : Have(s, r, reach) > 0}}

\* The address of a point: a point below the image is its last byte.
stripAddressAt(s, pos) ==
  IF s.end <= s.start THEN 0
  ELSE LET cellW == Max({1, s.w \div cols_})
           y == Clamp(pos.y, 0, s.h - 1)
           c == Clamp(Quotient(pos.x, cellW), 0, cols_ - 1)
           addr == s.start + y * bytesPerRow(s) + c * colBytes(s)
       IN  IF addr < s.end THEN addr ELSE s.end - 1

=============================================================================
