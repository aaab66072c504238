----------------------------- MODULE MCListings -----------------------------
(* Files with a header and two sections.  The first has more raw data than    *)
(* virtual size, the second less, or is cut off by the end of the file, or    *)
(* overlaps it in the file; its bytes hold strings of both encodings.  An     *)
(* address has an import, an export and a symbol.  Four more files have raw   *)
(* data beyond a section's last page, a virtual size of zero, sections that   *)
(* overlap in memory, and an immediate beside a rip-relative operand.         *)
EXTENDS Listings

Operand(type, at) == [type |-> type, at |-> at]

MCOpcodes == [b \in 1 .. 6 |->
  CASE b = 1 -> [length |-> 1, category |-> "NOP", operands |-> << >>]
    [] b = 2 -> [length |-> 2, category |-> "CALL", operands |-> <<Operand("IMMEDIATE", 2)>>]
    [] b = 3 -> [length |-> 2, category |-> "DATAXFER",
                 operands |-> <<Operand("REGISTER", 1), Operand("RIP", 2)>>]
    [] b = 4 -> [length |-> 1, category |-> "RET", operands |-> << >>]
    [] b = 5 -> [length |-> 2, category |-> "DATAXFER",
                 operands |-> <<Operand("MEMORY", 2), Operand("IMMEDIATE", 2)>>]
    [] b = 6 -> [length |-> 3, category |-> "DATAXFER",
                 operands |-> <<Operand("RIP", 2), Operand("IMMEDIATE", 3)>>]]

Sec(name, rva, vsize, off, size, chars) ==
  [name |-> name, virtual_address |-> rva, virtual_size |-> vsize,
   pointerto_raw_data |-> off, sizeof_raw_data |-> size, characteristics |-> chars]

File(text, vtext, rtext, data, vsize, size, readable, parses) ==
  [path |-> "a.exe", readable |-> readable, parses |-> parses,
   imagebase |-> 100, entrypoint |-> 108,
   bytes |-> <<77>> \o text \o data,
   sections |-> <<Sec(".text", 8, vtext, 1, rtext, {"MEM_READ", "MEM_EXECUTE"}),
                  Sec(".data", 16, vsize, 7, size, {"MEM_READ", "MEM_WRITE"})>>,
   imports |-> <<[name |-> "k32", entries |-> <<[name |-> "Imp", iat_address |-> 16]>>]>>,
   has_exports |-> TRUE,
   exports |-> <<[name |-> "Exp", address |-> 16, ordinal |-> 1],
                 [name |-> "Exp2", address |-> 13, ordinal |-> 2]>>,
   symbols |-> <<[name |-> "Sym", value |-> 13], [name |-> "Sym2", value |-> 8]>>]

\* lea to the import and to the export, a call to the export, a string.
Text == {<<3, 6, 3, 1, 2, 255>>, <<2, 3, 5, 3, 6, 4>>}

\* A store of one, and of zero, to the import.
Stores == <<6, 5, 1, 6, 2, 0>>
Data == {<<65, 65, 0, 66, 0>>, <<0, 65, 0, 66, 0, 0, 65, 66>>, <<65, 0, 255, 66, 66, 66>>}

Some(S) == CHOOSE x \in S : TRUE

MCFiles ==
  {File(t, 5, 6, d, vsize, size, TRUE, TRUE) : t \in Text, d \in Data, vsize \in {3, 8}, size \in {4, 8}}
  \cup {File(Some(Text), 5, 6, Some(Data), 3, 4, FALSE, TRUE),
        File(Some(Text), 5, 6, Some(Data), 3, 4, TRUE, FALSE),
        File(Some(Text), 8, 10, Some(Data), 3, 4, TRUE, TRUE),
        File(Some(Text), 5, 6, Some(Data), 0, 4, TRUE, TRUE),
        File(Some(Text), 10, 6, Some(Data), 3, 4, TRUE, TRUE),
        File(Stores, 6, 6, Some(Data), 3, 4, TRUE, TRUE)}

MCStops == {8, 9}
MCBases == {100, 40}
MCFramePointers == {0, 1}
MCStacks ==
  UNION {[D -> {[saved_rbp |-> a, ret_addr |-> 9] : a \in 1 .. 4} \cup {[saved_rbp |-> 4, ret_addr |-> 0]}]
         : D \in {{}, {1}, {1, 2}, {1, 2, 3}}}
MCLengths == {0, 1, 4}
MCScanData == SeqOf({0, 65, 255}, 6)
MCCounts == {0, 1, 3}
=============================================================================
