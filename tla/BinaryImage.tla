----------------------------- MODULE BinaryImage -----------------------------
(***************************************************************************)
(* What the sessions know of a binary file: the PE parser                  *)
(* (core/binfmt/src/lief_parser.cpp), the string scan (strings.cpp), the   *)
(* linear disassembly (core/disasm/src/zydis_disassembler.cpp), and the    *)
(* address arithmetic that capi_target.cpp and capi_static.cpp build on    *)
(* them.                                                                   *)
(*                                                                         *)
(* A file is a record as LIEF reports it: section, import, export and      *)
(* symbol addresses relative to the image base, the entry point absolute.  *)
(* LIEF, Zydis and the Windows loader are external.                        *)
(*                                                                         *)
(* Abstracted: instruction text; a name is a model value or string.        *)
(* Addresses are far from 2^64.                                            *)
(***************************************************************************)
EXTENDS Integers, Sequences, FiniteSets, SequencesExt, FiniteSetsExt

CONSTANTS
  Opcodes,        \* opcode byte -> [length, category, operands]: what Zydis decodes
  MinLen,         \* min_len of scan_strings
  MaxInsnBytes,   \* kMaxInsnBytes
  Alignment       \* the file's section alignment

ASSUME ImageAssumption ==
  /\ MinLen \in Nat \ {0} /\ MaxInsnBytes \in Nat \ {0} /\ Alignment \in Nat \ {0}
  /\ \A b \in DOMAIN Opcodes :
       /\ Opcodes[b].length \in 1 .. MaxInsnBytes
       /\ Opcodes[b].operands \in Seq([type : STRING, at : 1 .. Opcodes[b].length])

NoInsn == [length |-> 0]
NoTarget == 0
NoBinary == [path |-> "", image_base |-> 0, entry_point |-> 0, sections |-> << >>,
             imports |-> << >>, exports |-> << >>, symbols |-> << >>]

-----------------------------------------------------------------------------
(* LiefParser                                                                *)

map_perms(characteristics) ==
  MapThenSumSet(LAMBDA c : CASE c = "MEM_READ" -> 4 [] c = "MEM_WRITE" -> 2 [] c = "MEM_EXECUTE" -> 1
                             [] OTHER -> 0,
                characteristics)

map_section(s) ==
  [name |-> s.name, vaddr |-> s.virtual_address, vsize |-> s.virtual_size,
   offset |-> s.pointerto_raw_data, size |-> s.sizeof_raw_data,
   perms |-> map_perms(s.characteristics)]

\* One row per entry of every import table, with the table's library.
collect_imports(file) ==
  FlattenSeq([i \in DOMAIN file.imports |->
    [k \in DOMAIN file.imports[i].entries |->
       [name |-> file.imports[i].entries[k].name, library |-> file.imports[i].name,
        iat_addr |-> file.imports[i].entries[k].iat_address]]])

collect_exports(file) ==
  IF file.has_exports THEN [i \in DOMAIN file.exports |->
       [name |-> file.exports[i].name, addr |-> file.exports[i].address,
        ordinal |-> file.exports[i].ordinal]]
  ELSE << >>

collect_symbols(file) ==
  [i \in DOMAIN file.symbols |->
     [name |-> file.symbols[i].name, addr |-> file.symbols[i].value, kind |-> "coff"]]

\* The parse of a well-formed file: every relative address is moved by the image
\* base, the entry point already is absolute.
parse_file(file) ==
  LET delta == file.imagebase
      sections == [i \in DOMAIN file.sections |-> map_section(file.sections[i])]
      imports == collect_imports(file)
      exports == collect_exports(file)
      symbols == collect_symbols(file)
  IN  [path |-> file.path,
       image_base |-> file.imagebase,
       entry_point |-> file.entrypoint,
       sections |-> [i \in DOMAIN sections |-> [sections[i] EXCEPT !.vaddr = @ + delta]],
       imports |-> [i \in DOMAIN imports |-> [imports[i] EXCEPT !.iat_addr = @ + delta]],
       exports |-> [i \in DOMAIN exports |-> [exports[i] EXCEPT !.addr = @ + delta]],
       symbols |-> [i \in DOMAIN symbols |-> [symbols[i] EXCEPT !.addr = @ + delta]]]

-----------------------------------------------------------------------------
(* Symbols                                                                   *)

\* Every row at its address moved by delta.  Later insertions overwrite earlier
\* ones: symbols, then exports, then imports, and within a list the last row.
NamesAt(bin, delta) ==
  LET inserts == [i \in DOMAIN bin.symbols |->
                    <<bin.symbols[i].addr + delta, "", bin.symbols[i].name>>]
              \o [i \in DOMAIN bin.exports |->
                    <<bin.exports[i].addr + delta, "sym.", bin.exports[i].name>>]
              \o [i \in DOMAIN bin.imports |->
                    <<bin.imports[i].iat_addr + delta, "sym.imp.", bin.imports[i].name>>]
      last(a) == Max({i \in DOMAIN inserts : inserts[i][1] = a})
  IN  [a \in {inserts[i][1] : i \in DOMAIN inserts} |-> Tail(inserts[last(a)])]

\* Mutant of build_symbol_map: file addresses are kept.
SymbolMapUnrebased(bin, module_base, file_base) == NamesAt(bin, 0)

build_symbol_map(bin, module_base, file_base) == NamesAt(bin, module_base - file_base)

\* IridaStaticCtx::load fills the same map with file addresses.
static_symbol_map(bin) == build_symbol_map(bin, bin.image_base, bin.image_base)

-----------------------------------------------------------------------------
(* Reading                                                                   *)

\* Mutant of read_at: the section's raw data is not the limit, the file is.
ReadAtPastSection(bin, image, vaddr, n) ==
  LET in == {i \in DOMAIN bin.sections : bin.sections[i].vaddr <= vaddr
                                         /\ vaddr < bin.sections[i].vaddr + bin.sections[i].vsize}
  IN  IF in = {} THEN << >>
      ELSE LET off == bin.sections[Min(in)].offset + vaddr - bin.sections[Min(in)].vaddr
           IN  SubSeq(image, off + 1, Min({off + n, Len(image)}))

\* IridaStaticCtx::read_at: the first section whose virtual range holds vaddr
\* answers, with at most the raw bytes it has left in the file.
read_at(bin, image, vaddr, n) ==
  LET in == {i \in DOMAIN bin.sections : bin.sections[i].vaddr <= vaddr
                                         /\ vaddr < bin.sections[i].vaddr + bin.sections[i].vsize}
      sec == bin.sections[Min(in)]
      within == vaddr - sec.vaddr
      off == sec.offset + within
  IN  IF in = {} \/ within >= sec.size \/ off >= Len(image) THEN << >>
      ELSE SubSeq(image, off + 1, off + Min({n, Len(image) - off, sec.size - within}))

\* The span of static_modules' one module.
module_size(bin) ==
  LET ends == {s.vaddr + s.vsize : s \in Range(bin.sections)} \cup {0}
      span == Max(ends)
  IN  IF span > bin.image_base THEN span - bin.image_base ELSE span

-----------------------------------------------------------------------------
(* Disassembly                                                               *)

\* An operand of Zydis with the value encoded in the instruction; "RIP" is a
\* memory operand whose base register is rip.
map_operand(type, value) ==
  CASE type = "IMMEDIATE" -> [kind |-> "Immediate", imm |-> value]
    [] type = "POINTER" -> [kind |-> "Pointer", imm |-> value]
    [] type = "RIP" -> [kind |-> "Memory", rip_relative |-> TRUE, disp |-> value]
    [] type = "MEMORY" -> [kind |-> "Memory", rip_relative |-> FALSE, disp |-> value]
    [] type = "REGISTER" -> [kind |-> "Register"]
    [] OTHER -> [kind |-> "Unknown"]

classify_flow(category) ==
  CASE category = "CALL" -> "Call" [] category = "RET" -> "Return"
    [] category = "UNCOND_BR" -> "Jump" [] category = "COND_BR" -> "CondJump"
    [] OTHER -> "Sequential"

\* Every visible operand, in order.
OperandsOf(operands, bytes) ==
  [k \in DOMAIN operands |-> map_operand(operands[k].type, bytes[operands[k].at])]

\* The branch target is computed from the first immediate; the operand itself
\* keeps the encoded value.
decode_one(bytes, address) ==
  IF bytes = << >> \/ bytes[1] \notin DOMAIN Opcodes \/ Len(bytes) < Opcodes[bytes[1]].length
  THEN NoInsn
  ELSE LET op == Opcodes[bytes[1]]
           flow == classify_flow(op.category)
           imms == {k \in DOMAIN op.operands : op.operands[k].type = "IMMEDIATE"}
       IN  [address |-> address, length |-> op.length, flow |-> flow,
            operands |-> OperandsOf(op.operands, bytes),
            branch_target |-> IF flow \in {"Jump", "CondJump", "Call"} /\ imms # {}
                              THEN address + op.length + bytes[op.operands[Min(imms)].at]
                              ELSE NoTarget]

\* What a turn of decode_linear appends: the instruction that follows the ones
\* it has, or nothing where the bytes end or do not decode.
decode_next(bytes, address, out) ==
  LET offset == IF out = << >> THEN 0 ELSE Last(out).address + Last(out).length - address
      insn == decode_one(SubSeq(bytes, offset + 1, Len(bytes)), address + offset)
  IN  IF insn = NoInsn THEN << >> ELSE <<insn>>

\* The instructions after n turns of the loop.
decode_linear(bytes, address, max) ==
  LET out[n \in 0 .. max] ==
        IF n = 0 THEN << >> ELSE out[n - 1] \o decode_next(bytes, address, out[n - 1])
  IN  out[max]

\* The first immediate that is not zero, else the first rip-relative operand.
operand_target(insn) ==
  LET ops == insn.operands
      imms == {i \in DOMAIN ops : ops[i].kind \in {"Immediate", "Pointer"} /\ ops[i].imm # 0}
      rips == {i \in DOMAIN ops : ops[i].kind = "Memory" /\ ops[i].rip_relative}
  IN  IF imms # {} THEN ops[Min(imms)].imm
      ELSE IF rips # {} THEN insn.address + insn.length + ops[Min(rips)].disp
      ELSE NoTarget

-----------------------------------------------------------------------------
(* scan_strings                                                              *)

is_printable(c) == 32 <= c /\ c <= 126

\* Mutant of AsciiPass: a string that ends with the data is lost.
AsciiPassOpenEnd(data, base) ==
  LET end[i \in 1 .. Len(data) + 1] ==
        IF i <= Len(data) /\ is_printable(data[i]) THEN end[i + 1] ELSE i
      scan[i \in 1 .. Len(data) + 2] ==
        IF i > Len(data) THEN << >>
        ELSE (IF end[i] - i >= MinLen /\ end[i] <= Len(data)
              THEN <<[addr |-> base + i - 1, text |-> SubSeq(data, i, end[i] - 1), utf16 |-> FALSE]>>
              ELSE << >>) \o scan[end[i] + 1]
  IN  scan[1]

\* Runs of printable bytes.
AsciiPass(data, base) ==
  LET end[i \in 1 .. Len(data) + 1] ==
        IF i <= Len(data) /\ is_printable(data[i]) THEN end[i + 1] ELSE i
      scan[i \in 1 .. Len(data) + 2] ==
        IF i > Len(data) THEN << >>
        ELSE (IF end[i] - i >= MinLen
              THEN <<[addr |-> base + i - 1, text |-> SubSeq(data, i, end[i] - 1), utf16 |-> FALSE]>>
              ELSE << >>) \o scan[end[i] + 1]
  IN  scan[1]

\* Runs of a printable byte and a zero; a failed start moves on by one byte.
Utf16Pass(data, base) ==
  LET pair(j) == j + 1 <= Len(data) /\ data[j + 1] = 0 /\ is_printable(data[j])
      end[j \in 1 .. Len(data) + 2] == IF pair(j) THEN end[j + 2] ELSE j
      text(i) == [k \in 1 .. (end[i] - i) \div 2 |-> data[i + 2 * (k - 1)]]
      scan[i \in 1 .. Len(data) + 2] ==
        IF i + 1 > Len(data) THEN << >>
        ELSE (IF Len(text(i)) >= MinLen
              THEN <<[addr |-> base + i - 1, text |-> text(i), utf16 |-> TRUE]>> ELSE << >>)
             \o scan[IF end[i] > i THEN end[i] ELSE i + 1]
  IN  scan[1]

scan_strings(data, base) == AsciiPass(data, base) \o Utf16Pass(data, base)

-----------------------------------------------------------------------------
(* The loader (external): a module's memory is its image, section by section, *)
(* each loaded as far as its last page and zero-filled from the end of its   *)
(* raw data on.                                                              *)

Aligned(n) == ((n + Alignment - 1) \div Alignment) * Alignment

\* A file as LIEF reports it.
SectionHeader == [name : STRING, virtual_address : Nat, virtual_size : Nat,
                  pointerto_raw_data : Nat, sizeof_raw_data : Nat, characteristics : SUBSET STRING]
ImportTable == [name : STRING, entries : Seq([name : STRING, iat_address : Nat])]

IsFile(file) ==
  /\ file.imagebase \in Nat /\ file.entrypoint \in Nat
  /\ file.bytes \in Seq(Nat)
  /\ file.sections \in Seq(SectionHeader)
  /\ file.imports \in Seq(ImportTable)
  /\ file.exports \in Seq([name : STRING, address : Nat, ordinal : Nat])
  /\ file.symbols \in Seq([name : STRING, value : Nat])

\* How much memory a section asks for: a virtual size of zero stands for the
\* size of the raw data.
Span(s) == IF s.virtual_size = 0 THEN s.sizeof_raw_data ELSE s.virtual_size

\* Where a section's last page ends, relative to the module.
PagesEnd(s) == Aligned(s.virtual_address + Span(s))

\* What the Windows loader accepts: sections ascend without overlapping in memory.
Loadable(file) ==
  /\ \A i \in DOMAIN file.sections : file.sections[i].virtual_address % Alignment = 0
  /\ \A i, j \in DOMAIN file.sections : i < j =>
       PagesEnd(file.sections[i]) <= file.sections[j].virtual_address

ImageSize(file) == Max({0} \cup {PagesEnd(s) : s \in Range(file.sections)})

\* The byte the loader puts at relative address r.
LoadedByte(file, r) ==
  LET in == {s \in Range(file.sections) :
               /\ s.virtual_address <= r /\ r < s.virtual_address + s.sizeof_raw_data
               /\ r < PagesEnd(s)
               /\ s.pointerto_raw_data + r - s.virtual_address < Len(file.bytes)}
      s == CHOOSE x \in in : TRUE
  IN  IF in = {} THEN 0 ELSE file.bytes[s.pointerto_raw_data + r - s.virtual_address + 1]
=============================================================================
