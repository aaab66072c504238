------------------------------- MODULE MCViews -------------------------------
(* The mock; a static file with every control flow over three blocks; and   *)
(* a static file whose window is resized and clicked all over.              *)
EXTENDS Views, TLC

MCStream == <<40, 42, 45>>
MCCalls == {2}
MCTextWidth == [a \in 0 .. 60 |-> 1 + (a % 5) * 2]

\* One column of bytes, where a shown page has two or three.
MCHiddenSize == [w |-> 6, h |-> 4]

Pages == {"Bytes", "Hex", "Graph", "Linear"}
Tall == [w |-> 9, h |-> 7, strip |-> 4]
Wide == [w |-> 11, h |-> 5, strip |-> 5]

\* A block's fall-through is the address behind it.
BlockAt(addr, n, jump, falls) ==
  [addr |-> addr, size |-> n, jump |-> jump, fail |-> IF falls THEN addr + n ELSE 0]

MockSession ==
  [kind |-> "Mock", analyzed |-> TRUE, mock |-> mock_create, entry |-> 0, code |-> << >>,
   caller |-> 50, threads |-> <<40, 0>>, modules |-> <<10>>,
   sections |-> <<[vaddr |-> 10, vsize |-> 4, data |-> 4]>>,
   functions |-> <<[addr |-> 40, size |-> 6], [addr |-> 50, size |-> 2]>>,
   blocks |-> (40 :> <<BlockAt(40, 5, 48, TRUE), BlockAt(45, 1, 0, FALSE)>>) @@ (50 :> <<BlockAt(50, 2, 0, FALSE)>>),
   xrefs |-> <<[from |-> 42, to |-> 50]>>,
   sizes |-> {Tall}, points |-> {}, pages |-> {"Linear"}]

\* The code, and a byte of padding behind it; a gap of one byte; more data than the
\* section has addresses; and a section without a size.
FileSections ==
  <<[vaddr |-> 13, vsize |-> 4, data |-> 5], [vaddr |-> 20, vsize |-> 0, data |-> 0],
    [vaddr |-> 4, vsize |-> 8, data |-> 7]>>

StaticSession(blocks, sizes, points, pages) ==
  [kind |-> "Static", analyzed |-> FALSE, mock |-> mock_create, entry |-> 5,
   code |-> <<4, 5, 6, 7, 8, 9, 10>>, caller |-> 0, threads |-> << >>, modules |-> <<4>>,
   sections |-> FileSections,
   functions |-> <<[addr |-> 4, size |-> 4]>>, blocks |-> (4 :> blocks), xrefs |-> << >>,
   sizes |-> sizes, points |-> points, pages |-> pages]

\* Three blocks with every jump among them, four with a diamond, and four the
\* first of which reaches only one.
ThreeBlocks ==
  {<<BlockAt(4, 1, j[1], f[1]), BlockAt(5, 3, j[2], f[2]), BlockAt(8, 2, j[3], f[3])>> :
     j \in [1 .. 3 -> {0, 4, 5, 8}], f \in [1 .. 3 -> BOOLEAN]}
Diamond == <<BlockAt(4, 1, 6, TRUE), BlockAt(5, 1, 8, FALSE), BlockAt(6, 2, 0, TRUE), BlockAt(8, 2, 0, FALSE)>>
Islands == <<BlockAt(4, 1, 8, FALSE), BlockAt(5, 1, 0, FALSE), BlockAt(6, 2, 5, TRUE), BlockAt(8, 2, 0, FALSE)>>

MCSessions ==
  {MockSession}
    \cup {StaticSession(b, {Tall}, {}, {"Graph"}) : b \in ThreeBlocks \cup {Islands}}
    \cup {StaticSession(Diamond, {Tall, Wide}, {[x |-> 0, y |-> 0], [x |-> 4, y |-> 4]}, Pages)}
=============================================================================
